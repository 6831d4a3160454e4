------------------------- MODULE AlgorithmsProofs -------------------------
(***************************************************************************)
(* What the reader's parsing and the commands' algorithms compute, for     *)
(* every input.                                                            *)
(*                                                                         *)
(* Framing: however the network cuts a client's bytes into chunks, each    *)
(* engine of the reader answers exactly the messages that are complete,    *)
(* holds no more than it may and on the right side of the hand-over to     *)
(* hiredis, and refuses only what has a named cause; except that on the    *)
(* hiredis engine a simple string upsets its account.  The proof goes      *)
(* through what each buffer holds of the stream (ReaderInv): the slice of  *)
(* it between the last message answered and the last unit that arrived.    *)
(*                                                                         *)
(* Queries: each reply is the one the commands owe.  A reply is computed   *)
(* from the query at once (ReplyInv), so the work lies in the operators.   *)
(*                                                                         *)
(* What a loop computes is shown by induction over its rounds, from the    *)
(* well-ordering of Nat; that its recursive function exists, by Recursion. *)
(***************************************************************************)
EXTENDS Framing, Queries, WellFoundedInduction, SequenceTheorems, FiniteSetTheorems, TLAPS

-----------------------------------------------------------------------------
(* Induction, and running totals *)

(* A set of natural numbers has a least element. *)
LEMMA LeastNatural ==
  ASSUME NEW T, T \subseteq Nat, T # {}
  PROVE  \E x \in T : \A y \in T : x <= y
<1> DEFINE R == OpToRel(<, Nat)
<1>1. IsWellFoundedOn(R, Nat)
  BY NatLessThanWellFounded
<1> HIDE DEF R
<1>2. PICK x \in T : \A y \in T : ~(<<y, x>> \in R)
  BY <1>1, WFMin, Zenon
<1>3. \A y \in T : ~(<<y, x>> \in R) => x <= y
  BY <1>2 DEF R, OpToRel
<1> QED BY <1>2, <1>3

(* What holds of 0 and passes from each number to the next holds up to N:  *)
(* the first number it fails for has no predecessor.                       *)
LEMMA InductionUpTo ==
  ASSUME NEW N \in Nat, NEW T, 0 \in T, \A n \in 0 .. N - 1 : n \in T => n + 1 \in T
  PROVE  0 .. N \subseteq T
<1> DEFINE U == (0 .. N) \ T
<1> SUFFICES ASSUME U # {} PROVE FALSE
  OBVIOUS
<1>1. U \subseteq Nat
  OBVIOUS
<1>2. PICK x \in U : \A y \in U : x <= y
  <2> HIDE DEF U
  <2> QED BY <1>1, LeastNatural
<1>3. x \in 1 .. N /\ x - 1 \in 0 .. N - 1 /\ x \notin T
  BY <1>2
<1>4. x - 1 \in T
  BY <1>2, <1>3
<1> QED BY <1>3, <1>4

(* What makes f the running totals of the lengths, up to the N-th. *)
TotalsStep(f, lengths, N) ==
    /\ f \in [0 .. N -> Nat] /\ f[0] = 0
    /\ \A n \in 1 .. N : f[n] = f[n - 1] + lengths[n]

(* There are such totals, and the recursive function is one. *)
LEMMA TotalsFacts ==
  ASSUME NEW lengths \in Seq(Nat)
  PROVE  TotalsStep(Totals(lengths), lengths, Len(lengths))
<1> DEFINE Reached(n) == \E f : TotalsStep(f, lengths, n)
           T == {n \in Nat : Reached(n)}
           Rec(f) == f = [n \in 0 .. Len(lengths) |-> IF n = 0 THEN 0 ELSE f[n - 1] + lengths[n]]
<1>0. Len(lengths) \in Nat /\ \A n \in 1 .. Len(lengths) : lengths[n] \in Nat
  OBVIOUS
<1>1. 0 \in T
  <2>1. TotalsStep([n \in 0 .. 0 |-> 0], lengths, 0)
    BY DEF TotalsStep
  <2> QED BY <2>1
<1>2. \A n \in 0 .. Len(lengths) - 1 : n \in T => n + 1 \in T
  <2> TAKE n \in 0 .. Len(lengths) - 1
  <2> HAVE n \in T
  <2>1. PICK f : TotalsStep(f, lengths, n)
    OBVIOUS
  <2> DEFINE g == [m \in 0 .. n + 1 |-> IF m = n + 1 THEN f[n] + lengths[n + 1] ELSE f[m]]
  <2>2. lengths[n + 1] \in Nat /\ f[n] \in Nat
    BY <1>0, <2>1 DEF TotalsStep
  <2>3. g \in [0 .. n + 1 -> Nat] /\ g[0] = 0
    <3>1. \A m \in 0 .. n + 1 : (IF m = n + 1 THEN f[n] + lengths[n + 1] ELSE f[m]) \in Nat
      <4>1. \A m \in 0 .. n : f[m] \in Nat
        BY <2>1 DEF TotalsStep
      <4>2. \A m \in 0 .. n + 1 : m # n + 1 => m \in 0 .. n
        BY <1>0
      <4>3. f[n] + lengths[n + 1] \in Nat
        BY <2>2
      <4> QED BY <4>1, <4>2, <4>3
    <3>2. 0 \in 0 .. n + 1 /\ 0 # n + 1
      BY <1>0
    <3>3. g[0] = 0
      BY <3>2, <2>1 DEF TotalsStep
    <3>4. g \in [0 .. n + 1 -> Nat]
      BY <3>1
    <3> QED BY <3>3, <3>4
  <2>4. \A m \in 1 .. n + 1 : g[m] = g[m - 1] + lengths[m]
    <3> TAKE m \in 1 .. n + 1
    <3>1. m - 1 \in 0 .. n /\ m - 1 # n + 1 /\ m \in 0 .. n + 1 /\ m - 1 \in 0 .. n + 1
      BY <1>0
    <3>2. g[m - 1] = f[m - 1]
      BY <3>1
    <3>3. CASE m = n + 1
      BY <3>1, <3>2, <3>3
    <3>4. CASE m # n + 1
      <4>1. m \in 1 .. n
        BY <3>4, <1>0
      <4>2. g[m] = f[m]
        BY <3>1, <3>4
      <4> QED BY <4>1, <4>2, <3>2, <2>1 DEF TotalsStep
    <3> QED BY <3>3, <3>4
  <2>5. TotalsStep(g, lengths, n + 1)
    BY <2>3, <2>4 DEF TotalsStep
  <2>6. n + 1 \in Nat
    BY <1>0
  <2>7. Reached(n + 1)
    <3> HIDE DEF g
    <3> QED BY <2>5
  <2> HIDE DEF Reached
  <2> QED BY <2>6, <2>7
<1>3. Len(lengths) \in T
  <2> HIDE DEF T
  <2>1. 0 .. Len(lengths) \subseteq T
    BY <1>0, <1>1, <1>2, InductionUpTo
  <2> QED BY <1>0, <2>1
<1>4. \E f : Rec(f)
  <2>1. PICK f : TotalsStep(f, lengths, Len(lengths))
    BY <1>3
  <2>2. Rec(f)
    BY <2>1, <1>0 DEF TotalsStep
  <2> QED BY <2>2
<1>5. Totals(lengths) = CHOOSE f : Rec(f)
  BY DEF Totals
<1> DEFINE s == Totals(lengths)
<1>6. Rec(s)
  BY <1>4, <1>5
<1> HIDE DEF T
<1>7. s[0] = 0 /\ \A n \in 1 .. Len(lengths) : s[n] = s[n - 1] + lengths[n]
  <2> HIDE DEF s
  <2> QED BY <1>6, <1>0
<1>8. \A n \in 0 .. Len(lengths) : s[n] \in Nat
  <2> DEFINE V == {n \in 0 .. Len(lengths) : s[n] \in Nat}
  <2> HIDE DEF s
  <2>1. 0 \in V
    BY <1>7, <1>0
  <2>2. \A n \in 0 .. Len(lengths) - 1 : n \in V => n + 1 \in V
    <3> TAKE n \in 0 .. Len(lengths) - 1
    <3> HAVE n \in V
    <3>1. n + 1 \in 1 .. Len(lengths) /\ (n + 1) - 1 = n
      BY <1>0
    <3>2. s[n + 1] = s[n] + lengths[n + 1]
      BY <3>1, <1>7
    <3> QED BY <3>1, <3>2, <1>0
  <2>3. 0 .. Len(lengths) \subseteq V
    <3> HIDE DEF V
    <3> QED BY <1>0, <2>1, <2>2, InductionUpTo
  <2> QED BY <2>3
<1>9. s \in [0 .. Len(lengths) -> Nat]
  <2> HIDE DEF s
  <2>1. s = [n \in 0 .. Len(lengths) |-> s[n]]
    BY <1>6
  <2> QED BY <2>1, <1>8
<1> QED BY <1>7, <1>9 DEF TotalsStep

-----------------------------------------------------------------------------
(* Where the messages of the stream lie *)

(* Each message ends later than the one before it, by its size. *)
EndsRise ==
    /\ End \in [0 .. Len(stream) -> Nat] /\ End[0] = 0
    /\ \A m \in 1 .. Len(stream) : End[m] = End[m - 1] + Size[stream[m]]
    /\ \A m, n \in 0 .. Len(stream) : m < n => End[m] < End[n]
    /\ \A m, n \in 0 .. Len(stream) : m <= n => End[m] <= End[n]

LEMMA EndFacts ==
  ASSUME stream \in Seq(Kind)
  PROVE  EndsRise
<1> DEFINE w == [m \in DOMAIN stream |-> Size[stream[m]]]
           N == Len(stream)
<1>1. N \in Nat /\ DOMAIN stream = 1 .. N /\ \A m \in 1 .. N : stream[m] \in Kind
  OBVIOUS
<1>2. \A m \in 1 .. N : Size[stream[m]] \in Nat /\ Size[stream[m]] > 0
  BY <1>1, FramingAssumption DEF FramingAssumption
<1>3. w \in Seq(Nat) /\ Len(w) = N
  <2>1. w \in [1 .. N -> Nat]
    BY <1>1, <1>2
  <2> HIDE DEF w
  <2> QED BY <2>1, <1>1, IsASeq
<1>4. TotalsStep(End, w, N)
  <2>1. End = Totals(w)
    BY DEF End
  <2> HIDE DEF w
  <2> QED BY <2>1, <1>3, TotalsFacts
<1>5. /\ End \in [0 .. N -> Nat] /\ End[0] = 0
      /\ \A m \in 1 .. N : End[m] = End[m - 1] + Size[stream[m]]
  <2>1. \A m \in 1 .. N : w[m] = Size[stream[m]]
    BY <1>1
  <2> HIDE DEF w
  <2> QED BY <1>4, <2>1 DEF TotalsStep
<1>6. ASSUME NEW m \in 0 .. N, NEW n \in 0 .. N, m < n
      PROVE  End[m] < End[n]
  <2> DEFINE T == {i \in Nat : i < n - m => End[m] < End[m + i + 1]}
  <2> HIDE DEF w, N
  <2>1. 0 \in T
    <3>1. m + 1 \in 1 .. N /\ (m + 1) - 1 = m /\ m + 0 + 1 = m + 1
      BY <1>1, <1>6
    <3>2. End[m + 1] = End[m] + Size[stream[m + 1]] /\ Size[stream[m + 1]] > 0
          /\ End[m] \in Nat /\ Size[stream[m + 1]] \in Nat
      BY <3>1, <1>2, <1>5, <1>1
    <3> QED BY <3>1, <3>2
  <2>2. \A i \in 0 .. n - m - 1 : i \in T => i + 1 \in T
    <3> TAKE i \in 0 .. n - m - 1
    <3> HAVE i \in T
    <3> SUFFICES ASSUME i + 1 < n - m PROVE End[m] < End[m + (i + 1) + 1]
      BY <1>1
    <3>1. m + i + 2 \in 1 .. N /\ (m + i + 2) - 1 = m + i + 1 /\ m + (i + 1) + 1 = m + i + 2
          /\ m + i + 1 \in 0 .. N
      BY <1>1, <1>6
    <3>2. End[m + i + 2] = End[m + i + 1] + Size[stream[m + i + 2]]
          /\ Size[stream[m + i + 2]] > 0 /\ Size[stream[m + i + 2]] \in Nat
          /\ End[m + i + 1] \in Nat /\ End[m] \in Nat
      BY <3>1, <1>2, <1>5, <1>1
    <3>3. End[m] < End[m + i + 1]
      BY <1>1
    <3>4. End[m] < End[m + i + 2]
      BY <3>2, <3>3
    <3> QED BY <3>1, <3>4
  <2>3. n - m \in Nat /\ n - m - 1 \in 0 .. n - m /\ m + (n - m - 1) + 1 = n
    BY <1>1, <1>6
  <2>4. 0 .. n - m \subseteq T
    <3> HIDE DEF T
    <3>1. PICK d \in Nat : d = n - m
      BY <2>3
    <3>2. \A i \in 0 .. d - 1 : i \in T => i + 1 \in T
      BY <2>2, <3>1
    <3>3. 0 .. d \subseteq T
      BY <2>1, <3>2, InductionUpTo
    <3> QED BY <3>1, <3>3
  <2>5. n - m - 1 \in T
    BY <2>3, <2>4
  <2> QED BY <2>3, <2>5, <1>1
<1>7. ASSUME NEW m \in 0 .. N, NEW n \in 0 .. N, m <= n
      PROVE  End[m] <= End[n]
  <2>1. End[m] \in Nat /\ End[n] \in Nat
    BY <1>5
  <2>2. m = n \/ m < n
    BY <1>7, <1>1
  <2> QED BY <2>1, <2>2, <1>6
<1> QED BY <1>5, <1>6, <1>7 DEF EndsRise

(* k messages have wholly arrived with the first p units. *)
Stands(k, p) ==
    /\ k \in 0 .. Len(stream) /\ p \in 0 .. End[Len(stream)]
    /\ End[k] <= p /\ (k < Len(stream) => p < End[k + 1])

(* The units of the stream are those of its messages, one after the        *)
(* other.                                                                  *)
UnitsSpell ==
    /\ Units \in Seq(Unit) /\ Len(Units) = End[Len(stream)]
    /\ \A m \in 1 .. Len(stream) : \A u \in End[m - 1] + 1 .. End[m] :
         u \in 1 .. Len(Units)
         /\ Units[u] = [kind |-> stream[m], first |-> u = End[m - 1] + 1, last |-> u = End[m]]

(* A place in the stream that the k-th message ends before is in, or at    *)
(* the end of, a message: some number of messages stands there.            *)
LEMMA Located ==
  ASSUME stream \in Seq(Kind), NEW p \in 0 .. End[Len(stream)],
         NEW k \in 0 .. Len(stream), End[k] <= p
  PROVE  \E n \in k .. Len(stream) : Stands(n, p)
<1> DEFINE N == Len(stream)
           T == {n \in Nat : n \in k + 1 .. N /\ p < End[n]}
<1>1. N \in Nat /\ EndsRise
  BY EndFacts
<1>2. CASE T = {}
  <2>1. End[N] <= p
    <3>1. CASE k = N
      BY <3>1
    <3>2. CASE k # N
      <4>1. N \in k + 1 .. N
        BY <1>1, <3>2
      <4>2. ~(p < End[N])
        BY <1>2, <4>1, <1>1
      <4> QED BY <4>2, <1>1 DEF EndsRise
    <3> QED BY <3>1, <3>2
  <2>2. Stands(N, p) /\ N \in k .. N
    BY <2>1, <1>1 DEF Stands, EndsRise
  <2> QED BY <2>2
<1>3. CASE T # {}
  <2>1. PICK x \in T : \A y \in T : x <= y
    <3>1. T \subseteq Nat
      OBVIOUS
    <3> HIDE DEF T
    <3> QED BY <3>1, <1>3, LeastNatural
  <2>2. /\ x \in k + 1 .. N /\ x \in 1 .. N /\ p < End[x]
        /\ x - 1 \in k .. N /\ x - 1 \in 0 .. N /\ (x - 1) + 1 = x
    BY <1>1, <2>1
  <2>3. End[x - 1] <= p
    <3>1. CASE x - 1 = k
      BY <3>1
    <3>2. CASE x - 1 # k
      <4>1. x - 1 \in k + 1 .. N /\ x - 1 \in Nat /\ ~(x <= x - 1)
        BY <2>2, <3>2, <1>1
      <4>2. ~(p < End[x - 1])
        BY <4>1, <2>1
      <4> DEFINE e == End[x - 1]
      <4>3. e \in Nat
        BY <2>2, <1>1 DEF EndsRise
      <4>4. ~(p < e)
        BY <4>2
      <4> HIDE DEF e
      <4>5. e <= p
        BY <4>3, <4>4
      <4> QED BY <4>5 DEF e
    <3> QED BY <3>1, <3>2
  <2>4. Stands(x - 1, p)
    BY <2>2, <2>3 DEF Stands
  <2> QED BY <2>2, <2>4
<1> QED BY <1>2, <1>3

LEMMA UnitsFacts ==
  ASSUME stream \in Seq(Kind)
  PROVE  UnitsSpell
<1> DEFINE N == Len(stream)
           holder(u) == CHOOSE m \in DOMAIN stream : End[m - 1] < u /\ u <= End[m]
<1>1. N \in Nat /\ EndsRise /\ DOMAIN stream = 1 .. N /\ \A m \in 1 .. N : stream[m] \in Kind
  BY EndFacts
<1>2. Units = [u \in 1 .. End[N] |-> Encoded(stream[holder(u)])[u - End[holder(u) - 1]]]
  BY Zenon DEF Units
<1>3. \A m \in 1 .. N : m \in 0 .. N /\ m - 1 \in 0 .. N /\ End[m] \in Nat /\ End[m - 1] \in Nat
                       /\ End[m] = End[m - 1] + Size[stream[m]] /\ Size[stream[m]] \in Nat
  <2> TAKE m \in 1 .. N
  <2>1. m \in 0 .. N /\ m - 1 \in 0 .. N
    BY <1>1
  <2>2. Size[stream[m]] \in Nat
    BY <1>1, FramingAssumption DEF FramingAssumption
  <2> QED BY <2>1, <2>2, <1>1 DEF EndsRise
<1>4. ASSUME NEW m \in 1 .. N, NEW u \in Int, End[m - 1] < u, u <= End[m]
      PROVE  /\ u \in 1 .. End[N] /\ holder(u) = m
             /\ Units[u] = [kind |-> stream[m], first |-> u = End[m - 1] + 1, last |-> u = End[m]]
  <2>1. u \in 1 .. End[N]
    <3>1. End[m] <= End[N] /\ End[N] \in Nat
      BY <1>1 DEF EndsRise
    <3> QED BY <3>1, <1>3, <1>4
  <2>2. \A n \in 1 .. N : End[n - 1] < u /\ u <= End[n] => n = m
    <3> SUFFICES ASSUME NEW n \in 1 .. N, End[n - 1] < u, u <= End[n], n # m PROVE FALSE
      OBVIOUS
    <3>1. CASE n < m
      <4>1. n <= m - 1 /\ n \in 0 .. N /\ m - 1 \in 0 .. N
        BY <3>1, <1>1
      <4>2. End[n] <= End[m - 1]
        BY <4>1, <1>1 DEF EndsRise
      <4>3. End[n] \in Nat /\ End[m - 1] \in Nat
        BY <1>3
      <4> QED BY <4>2, <4>3, <1>4
    <3>2. CASE m < n
      <4>1. m <= n - 1 /\ m \in 0 .. N /\ n - 1 \in 0 .. N
        BY <3>2, <1>1
      <4>2. End[m] <= End[n - 1]
        BY <4>1, <1>1 DEF EndsRise
      <4> QED BY <4>2, <1>3, <1>4
    <3> QED BY <3>1, <3>2, <1>1
  <2>3. holder(u) = m
    BY <1>1, <1>4, <2>2
  <2>4. Units[u] = Encoded(stream[m])[u - End[m - 1]]
    <3> HIDE DEF holder
    <3> QED BY <2>1, <2>3, <1>2
  <2>5. u - End[m - 1] \in 1 .. Size[stream[m]]
    BY <1>3, <1>4
  <2>6. Encoded(stream[m])[u - End[m - 1]] =
          [kind |-> stream[m], first |-> u - End[m - 1] = 1, last |-> u - End[m - 1] = Size[stream[m]]]
    BY <2>5 DEF Encoded
  <2>7. /\ (u - End[m - 1] = 1) <=> (u = End[m - 1] + 1)
        /\ (u - End[m - 1] = Size[stream[m]]) <=> (u = End[m])
    <3>1. End[m - 1] \in Nat /\ End[m] = End[m - 1] + Size[stream[m]] /\ Size[stream[m]] \in Nat
      BY <1>3
    <3> DEFINE e == End[m - 1]
               f == End[m]
               z == Size[stream[m]]
    <3>2. e \in Nat /\ z \in Nat /\ f = e + z
      BY <3>1
    <3> HIDE DEF e, f, z
    <3>3. (u - e = 1 <=> u = e + 1) /\ (u - e = z <=> u = f)
      BY <3>2
    <3> QED BY <3>3 DEF e, f, z
  <2> QED BY <2>1, <2>3, <2>4, <2>6, <2>7
<1> HIDE DEF holder
<1>5. End[N] \in Nat
  BY <1>1 DEF EndsRise
<1>6. \A u \in 1 .. End[N] : \E m \in 1 .. N : End[m - 1] < u /\ u <= End[m]
  <2> TAKE u \in 1 .. End[N]
  <2>1. u - 1 \in 0 .. End[N] /\ 0 \in 0 .. N /\ End[0] <= u - 1
    BY <1>1, <1>5 DEF EndsRise
  <2>2. PICK n \in 0 .. N : Stands(n, u - 1)
    BY <2>1, Located
  <2>3. End[n] <= u - 1 /\ (n < N => u - 1 < End[n + 1])
    BY <2>2 DEF Stands
  <2>4. n # N
    BY <2>3, <1>5
  <2>5. n + 1 \in 1 .. N /\ (n + 1) - 1 = n /\ n < N
    <3>1. N \in Nat /\ n \in 0 .. N
      BY <1>1, <2>2, Zenon
    <3> HIDE DEF N
    <3> QED BY <3>1, <2>4
  <2>6. End[n] \in Nat /\ End[n + 1] \in Nat
    <3>1. n \in 0 .. N /\ n + 1 \in 0 .. N
      BY <2>2, <2>5, <1>1
    <3> QED BY <3>1, <1>1 DEF EndsRise
  <2>7. End[n] < u /\ u <= End[n + 1]
    BY <2>3, <2>5, <2>6
  <2> QED BY <2>5, <2>7
<1>7. Units \in [1 .. End[N] -> Unit]
  <2>1. \A u \in 1 .. End[N] : Units[u] \in Unit
    <3> TAKE u \in 1 .. End[N]
    <3>1. PICK m \in 1 .. N : End[m - 1] < u /\ u <= End[m]
      BY <1>6
    <3>2. Units[u] = [kind |-> stream[m], first |-> u = End[m - 1] + 1, last |-> u = End[m]]
      BY <3>1, <1>4
    <3> QED BY <3>2, <1>1 DEF Unit
  <2>2. Units = [u \in 1 .. End[N] |-> Units[u]]
    BY <1>2
  <2> QED BY <2>1, <2>2
<1>8. Units \in Seq(Unit) /\ Len(Units) = End[N]
  BY <1>5, <1>7, IsASeq
<1>9. \A m \in 1 .. N : \A u \in End[m - 1] + 1 .. End[m] :
         u \in 1 .. Len(Units)
         /\ Units[u] = [kind |-> stream[m], first |-> u = End[m - 1] + 1, last |-> u = End[m]]
  BY <1>3, <1>4, <1>8
<1> QED BY <1>8, <1>9 DEF UnitsSpell

(* Where messages end, as numbers. *)
LEMMA EndNat ==
  ASSUME stream \in Seq(Kind)
  PROVE  Len(stream) \in Nat /\ \A m \in 0 .. Len(stream) : End[m] \in Nat
<1>1. Len(stream) \in Nat
  OBVIOUS
<1>2. End \in [0 .. Len(stream) -> Nat]
  BY EndFacts DEF EndsRise
<1> QED BY <1>1, <1>2

LEMMA EndNext ==
  ASSUME stream \in Seq(Kind), NEW j \in Int, 0 <= j, j < Len(stream)
  PROVE  /\ j \in 0 .. Len(stream) /\ j + 1 \in 1 .. Len(stream) /\ j + 1 \in 0 .. Len(stream)
         /\ (j + 1) - 1 = j
         /\ stream[j + 1] \in Kind /\ Size[stream[j + 1]] \in Nat \ {0}
         /\ End[j] \in Nat /\ End[j + 1] \in Nat
         /\ End[j + 1] = End[j] + Size[stream[j + 1]] /\ End[j] < End[j + 1]
<1>1. /\ j \in 0 .. Len(stream) /\ j + 1 \in 1 .. Len(stream) /\ j + 1 \in 0 .. Len(stream)
      /\ (j + 1) - 1 = j /\ Len(stream) \in Nat
  BY EndNat
<1>2. stream[j + 1] \in Kind
  BY <1>1
<1>3. Size[stream[j + 1]] \in Nat \ {0}
  BY <1>2, FramingAssumption DEF FramingAssumption
<1>4. End[j] \in Nat /\ End[j + 1] \in Nat
  BY <1>1, EndNat
<1> DEFINE m == j + 1
<1>5. End[m] = End[m - 1] + Size[stream[m]]
  <2>1. m \in 1 .. Len(stream)
    BY <1>1
  <2> HIDE DEF m
  <2> QED BY <2>1, EndFacts DEF EndsRise
<1> QED BY <1>1, <1>2, <1>3, <1>4, <1>5

LEMMA EndMonotone ==
  ASSUME stream \in Seq(Kind), NEW m \in 0 .. Len(stream), NEW n \in 0 .. Len(stream), m <= n
  PROVE  End[m] <= End[n] /\ End[m] \in Nat /\ End[n] \in Nat
BY EndFacts, EndNat DEF EndsRise

(* b is what arrived after the first k messages, up to the p-th unit. *)
Slice(b, k, p) ==
    /\ k \in 0 .. Len(stream) /\ p \in 0 .. End[Len(stream)] /\ End[k] <= p
    /\ b = SubSeq(Units, End[k] + 1, p)

(* Its length and its units. *)
SliceShape(b, k, p) ==
    /\ Len(stream) \in Nat /\ k \in Nat /\ k <= Len(stream)
    /\ p \in Nat /\ p <= End[Len(stream)] /\ End[k] \in Nat /\ End[k] <= p
    /\ End[Len(stream)] \in Nat
    /\ b \in Seq(Unit) /\ Len(b) = p - End[k] /\ Len(b) \in Nat
    /\ DOMAIN b = 1 .. Len(b)
    /\ \A i \in 1 .. Len(b) : b[i] = Units[End[k] + i]

LEMMA SliceFacts ==
  ASSUME stream \in Seq(Kind), NEW b, NEW k, NEW p, Slice(b, k, p)
  PROVE  SliceShape(b, k, p)
<1>0. /\ k \in 0 .. Len(stream) /\ p \in 0 .. End[Len(stream)] /\ End[k] <= p
      /\ b = SubSeq(Units, End[k] + 1, p)
  BY DEF Slice
<1>1. Units \in Seq(Unit) /\ Len(Units) = End[Len(stream)]
  BY UnitsFacts DEF UnitsSpell
<1>2. End[k] \in Nat /\ End[Len(stream)] \in Nat
  BY <1>0, EndNat
<1>3. End[k] + 1 \in 1 .. Len(Units) + 1 /\ p \in End[k] .. Len(Units)
  BY <1>0, <1>1, <1>2
<1>4. /\ b \in Seq(Unit)
      /\ Len(b) = (IF End[k] + 1 <= p THEN p - (End[k] + 1) + 1 ELSE 0)
      /\ \A i \in 1 .. p - (End[k] + 1) + 1 : b[i] = Units[(End[k] + 1) + i - 1]
  <2> DEFINE l == End[k] + 1
  <2>1. l \in Int /\ p \in Int /\ 1 <= l /\ p <= Len(Units)
    BY <1>2, <1>3
  <2>2. b = SubSeq(Units, l, p)
    BY <1>0
  <2> HIDE DEF l
  <2>3. \A i \in l .. p : Units[i] \in Unit
    BY <1>1, <2>1
  <2>4. /\ b \in Seq(Unit)
        /\ Len(b) = (IF l <= p THEN p - l + 1 ELSE 0)
        /\ \A i \in 1 .. p - l + 1 : b[i] = Units[l + i - 1]
    BY <2>1, <2>2, <2>3, SubSeqProperties
  <2> QED BY <2>4 DEF l
<1>5. Len(b) = p - End[k] /\ Len(b) \in Nat
  BY <1>0, <1>2, <1>4
<1>6. \A i \in 1 .. Len(b) : b[i] = Units[End[k] + i]
  <2> TAKE i \in 1 .. Len(b)
  <2>1. i \in 1 .. p - (End[k] + 1) + 1 /\ (End[k] + 1) + i - 1 = End[k] + i
    BY <1>0, <1>2, <1>5
  <2> QED BY <2>1, <1>4
<1>7. Len(stream) \in Nat
  BY EndNat
<1>8. DOMAIN b = 1 .. Len(b)
  BY <1>4
<1>9. /\ k \in Nat /\ k <= Len(stream) /\ p \in Nat /\ p <= End[Len(stream)]
  BY <1>0, <1>2, <1>7
<1>10. Len(b) = p - End[k] /\ Len(b) \in Nat
  BY <1>5
<1>11. b \in Seq(Unit) /\ End[k] <= p
  BY <1>0, <1>4
<1> QED BY <1>2, <1>6, <1>7, <1>8, <1>9, <1>10, <1>11 DEF SliceShape

-----------------------------------------------------------------------------
(* What has arrived, and what the parser makes of it *)

(* The unit of a slice at the given place of the m-th message. *)
LEMMA SliceUnit ==
  ASSUME stream \in Seq(Kind), NEW b, NEW k, NEW p, Slice(b, k, p),
         NEW m \in k + 1 .. Len(stream), NEW i \in 1 .. Len(b),
         End[m - 1] - End[k] < i, i <= End[m] - End[k]
  PROVE  b[i] = [kind |-> stream[m], first |-> i = End[m - 1] - End[k] + 1, last |-> i = End[m] - End[k]]
<1>0. SliceShape(b, k, p)
  BY SliceFacts
<1>1. b[i] = Units[End[k] + i]
  BY <1>0 DEF SliceShape
<1>2. m \in 1 .. Len(stream) /\ m - 1 \in 0 .. Len(stream) /\ m \in 0 .. Len(stream)
  BY <1>0 DEF SliceShape
<1>3. End[m - 1] \in Nat /\ End[m] \in Nat /\ End[k] \in Nat
  BY <1>0, <1>2, EndNat DEF SliceShape
<1>4. End[k] + i \in End[m - 1] + 1 .. End[m]
  <2>1. Len(b) \in Nat
    BY <1>0 DEF SliceShape
  <2> QED BY <1>3, <2>1
<1>5. Units[End[k] + i] =
        [kind |-> stream[m], first |-> End[k] + i = End[m - 1] + 1, last |-> End[k] + i = End[m]]
  <2> DEFINE u == End[k] + i
  <2>1. u \in End[m - 1] + 1 .. End[m]
    BY <1>4
  <2> HIDE DEF u
  <2>2. Units[u] = [kind |-> stream[m], first |-> u = End[m - 1] + 1, last |-> u = End[m]]
    BY <1>2, <2>1, UnitsFacts DEF UnitsSpell
  <2> QED BY <2>2 DEF u
<1>6. /\ (End[k] + i = End[m - 1] + 1) <=> (i = End[m - 1] - End[k] + 1)
      /\ (End[k] + i = End[m]) <=> (i = End[m] - End[k])
  <2> DEFINE e == End[m - 1]
             f == End[m]
             g == End[k]
  <2>1. e \in Nat /\ f \in Nat /\ g \in Nat /\ i \in Int
    BY <1>3
  <2> HIDE DEF e, f, g
  <2>2. (g + i = e + 1 <=> i = e - g + 1) /\ (g + i = f <=> i = f - g)
    BY <2>1
  <2> QED BY <2>2 DEF e, f, g
<1> QED BY <1>1, <1>5, <1>6

(* Every unit of a slice belongs to a message. *)
LEMMA SliceHolder ==
  ASSUME stream \in Seq(Kind), NEW b, NEW k, NEW p, Slice(b, k, p), NEW i \in 1 .. Len(b)
  PROVE  \E m \in k + 1 .. Len(stream) : End[m - 1] - End[k] < i /\ i <= End[m] - End[k]
<1>1. SliceShape(b, k, p)
  BY SliceFacts
<1>2. /\ End[k] + i - 1 \in 0 .. End[Len(stream)] /\ End[k] <= End[k] + i - 1
      /\ k \in 0 .. Len(stream)
  <2> DEFINE e == End[k]
             f == End[Len(stream)]
             l == Len(b)
  <2>1. /\ e \in Nat /\ f \in Nat /\ p \in Nat /\ p <= f /\ l = p - e /\ l \in Nat
        /\ Len(stream) \in Nat /\ k \in Nat /\ k <= Len(stream)
    BY <1>1 DEF SliceShape
  <2>2. i \in 1 .. l
    OBVIOUS
  <2> HIDE DEF e, f, l
  <2>3. e + i - 1 \in 0 .. f /\ e <= e + i - 1 /\ k \in 0 .. Len(stream)
    BY <2>1, <2>2
  <2> QED BY <2>3 DEF e, f
<1>3. PICK n \in k .. Len(stream) : Stands(n, End[k] + i - 1)
  BY <1>2, Located
<1>4. End[n] <= End[k] + i - 1 /\ (n < Len(stream) => End[k] + i - 1 < End[n + 1])
  BY <1>3 DEF Stands
<1>5. n \in Int /\ 0 <= n /\ n <= Len(stream) /\ k <= n
  BY <1>1, <1>3 DEF SliceShape
<1>6. n < Len(stream)
  <2>1. n # Len(stream)
    BY <1>1, <1>4 DEF SliceShape
  <2> QED BY <1>1, <1>5, <2>1 DEF SliceShape
<1>7. End[n] \in Nat /\ End[n + 1] \in Nat /\ (n + 1) - 1 = n
  BY <1>5, <1>6, EndNext
<1>8. End[n] - End[k] < i /\ i <= End[n + 1] - End[k]
  <2>1. End[k] \in Nat /\ i \in Int
    BY <1>1 DEF SliceShape
  <2>2. End[n] \in Int /\ End[n + 1] \in Int
    BY <1>7
  <2> QED BY <1>4, <1>6, <2>1, <2>2
<1>9. n + 1 \in k + 1 .. Len(stream)
  BY <1>1, <1>5, <1>6 DEF SliceShape
<1> DEFINE m == n + 1
<1>10. m \in k + 1 .. Len(stream) /\ End[m - 1] - End[k] < i /\ i <= End[m] - End[k]
  BY <1>7, <1>8, <1>9
<1> HIDE DEF m
<1> QED BY <1>10

(* A subsequence, and the element after it. *)
LEMMA SubSeqNext ==
  ASSUME NEW S, NEW s \in Seq(S), NEW k \in Nat, NEW j \in Int, k <= j, j < Len(s)
  PROVE  Append(SubSeq(s, k + 1, j), s[j + 1]) = SubSeq(s, k + 1, j + 1)
<1>1. Len(s) \in Nat /\ k + 1 \in 1 .. Len(s) /\ j + 1 \in k + 1 .. Len(s) /\ (j + 1) - 1 = j
  OBVIOUS
<1>2. SubSeq(s, k + 1, j + 1) = SubSeq(s, k + 1, (j + 1) - 1) \o <<s[j + 1]>>
  BY <1>1, SubSeqRecursiveSecond
<1>3. s[j + 1] \in S
  BY <1>1
<1>4. \A i \in k + 1 .. j : s[i] \in S
  BY <1>1
<1>5. SubSeq(s, k + 1, j) \in Seq(S)
  BY <1>4, SubSeqProperties
<1>6. Append(SubSeq(s, k + 1, j), s[j + 1]) = SubSeq(s, k + 1, j) \o <<s[j + 1]>>
  BY <1>3, <1>5, AppendIsConcat
<1> QED BY <1>1, <1>2, <1>6

(* The parser's loop between two messages: it began after the k-th, and    *)
(* has come to the j-th.                                                   *)
Stage(k, j) == [at |-> End[j] - End[k], got |-> SubSeq(stream, k + 1, j)]

(* What it means that K messages stand at p, in numbers. *)
StandsFacts(K, p) ==
    /\ Len(stream) \in Nat /\ K \in Nat /\ K <= Len(stream) /\ End[K] \in Nat
    /\ p \in 0 .. End[Len(stream)] /\ p \in Nat /\ End[Len(stream)] \in Nat
    /\ End[K] <= p
    /\ K < Len(stream) => p < End[K + 1]

LEMMA StandsOpened ==
  ASSUME stream \in Seq(Kind), NEW K, NEW p, Stands(K, p)
  PROVE  StandsFacts(K, p)
<1>1. /\ K \in 0 .. Len(stream) /\ p \in 0 .. End[Len(stream)]
      /\ End[K] <= p /\ (K < Len(stream) => p < End[K + 1])
  BY DEF Stands
<1>2. Len(stream) \in Nat /\ End[K] \in Nat /\ End[Len(stream)] \in Nat
  <2>1. Len(stream) \in Nat
    BY EndNat
  <2>2. Len(stream) \in 0 .. Len(stream)
    BY <2>1
  <2> QED BY <1>1, <2>1, <2>2, EndNat
<1> QED BY <1>1, <1>2 DEF StandsFacts

(* The first unit of the message after the j-th, in a slice. *)
LEMMA SliceNext ==
  ASSUME stream \in Seq(Kind), NEW b, NEW k, NEW p, Slice(b, k, p),
         NEW j \in Int, k <= j, j < Len(stream), End[j] < p
  PROVE  /\ End[j] - End[k] + 1 \in 1 .. Len(b)
         /\ b[End[j] - End[k] + 1].kind = stream[j + 1]
         /\ b[End[j] - End[k] + 1].first
<1>1. SliceShape(b, k, p)
  BY SliceFacts
<1>2. 0 <= j
  BY <1>1 DEF SliceShape
<1>3. /\ j \in 0 .. Len(stream) /\ (j + 1) - 1 = j /\ End[j] \in Nat /\ End[j + 1] \in Nat /\ End[j] < End[j + 1]
  BY <1>2, EndNext
<1>4. End[k] <= End[j]
  <2>1. k \in 0 .. Len(stream)
    BY <1>1 DEF SliceShape
  <2> QED BY <2>1, <1>3, EndMonotone
<1> DEFINE i == End[j] - End[k] + 1
           m == j + 1
<1>5. i \in 1 .. Len(b) /\ m \in k + 1 .. Len(stream) /\ m - 1 = j
  BY <1>1, <1>3, <1>4 DEF SliceShape
<1>6. End[m - 1] - End[k] < i /\ i <= End[m] - End[k] /\ i = End[m - 1] - End[k] + 1
  <2>1. End[k] \in Nat
    BY <1>1 DEF SliceShape
  <2> QED BY <2>1, <1>3
<1> HIDE DEF i, m
<1>7. b[i] = [kind |-> stream[m], first |-> i = End[m - 1] - End[k] + 1, last |-> i = End[m] - End[k]]
  BY <1>5, <1>6, SliceUnit
<1>8. b[i].kind = stream[m] /\ b[i].first
  <2>1. b[i].kind = stream[m] /\ b[i].first = (i = End[m - 1] - End[k] + 1)
    BY <1>7
  <2> QED BY <2>1, <1>6
<1> QED BY <1>5, <1>8 DEF i, m

(* A round of the loop takes one message as long as one is complete, and   *)
(* then no more.                                                           *)
LEMMA RoundFacts ==
  ASSUME stream \in Seq(Kind), NEW b, NEW k, NEW p, Slice(b, k, p),
         NEW K, k <= K, Stands(K, p)
  PROVE  /\ \A j \in k .. K - 1 : Round(b, Stage(k, j)) = Stage(k, j + 1)
         /\ Round(b, Stage(k, K)) = Stage(k, K)
<1>1. StandsFacts(K, p)
  BY StandsOpened
<1>2. SliceShape(b, k, p)
  BY SliceFacts
<1>5. ASSUME NEW j \in k .. K - 1
      PROVE  Round(b, Stage(k, j)) = Stage(k, j + 1)
  <2>1. j \in Int /\ 0 <= j /\ k <= j /\ j < Len(stream) /\ j + 1 <= K /\ j + 1 \in 0 .. Len(stream)
        /\ K \in 0 .. Len(stream)
    BY <1>1, <1>2 DEF StandsFacts, SliceShape
  <2>2. /\ End[j] \in Nat /\ End[j + 1] \in Nat /\ End[j] < End[j + 1]
        /\ End[j + 1] = End[j] + Size[stream[j + 1]] /\ Size[stream[j + 1]] \in Nat
    BY <2>1, EndNext
  <2>3. End[j + 1] <= End[K]
    BY <2>1, EndMonotone
  <2>4. End[j] < p
    BY <1>1, <2>2, <2>3 DEF StandsFacts
  <2>5. b[End[j] - End[k] + 1].kind = stream[j + 1]
    BY <2>1, <2>4, SliceNext
  <2>6. /\ End[j] - End[k] < Len(b)
        /\ End[j] - End[k] + Size[stream[j + 1]] = End[j + 1] - End[k]
        /\ End[j + 1] - End[k] <= Len(b)
    <3>1. /\ End[k] \in Nat /\ Len(b) = p - End[k] /\ p \in Nat /\ End[K] <= p /\ End[K] \in Nat
      BY <1>1, <1>2 DEF StandsFacts, SliceShape
    <3> DEFINE e == End[j]
               f == End[j + 1]
               g == End[k]
               h == End[K]
               z == Size[stream[j + 1]]
               n == Len(b)
    <3>2. e \in Nat /\ f \in Nat /\ g \in Nat /\ h \in Nat /\ z \in Nat /\ p \in Nat
      BY <3>1, <2>2
    <3>3. n = p - g /\ h <= p /\ f = e + z /\ f <= h /\ e < p
      BY <3>1, <2>2, <2>3, <2>4
    <3> HIDE DEF e, f, g, h, z, n
    <3>4. e - g < n /\ e - g + z = f - g /\ f - g <= n
      BY <3>2, <3>3
    <3> QED BY <3>4 DEF e, f, g, z, n
  <2>7. Append(SubSeq(stream, k + 1, j), stream[j + 1]) = SubSeq(stream, k + 1, j + 1)
    <3>1. k \in Nat /\ Len(stream) \in Nat
      BY <1>2 DEF SliceShape
    <3> QED BY <3>1, <2>1, SubSeqNext
  <2> DEFINE s == Stage(k, j)
  <2>8. s.at = End[j] - End[k] /\ s.got = SubSeq(stream, k + 1, j)
    BY DEF Stage
  <2> HIDE DEF s
  <2>9. s.at < Len(b) /\ s.at + Size[b[s.at + 1].kind] <= Len(b)
    BY <2>5, <2>6, <2>8
  <2>10. Round(b, s) = [at |-> s.at + Size[b[s.at + 1].kind], got |-> Append(s.got, b[s.at + 1].kind)]
    BY <2>9 DEF Round
  <2>11. Round(b, s) = [at |-> End[j + 1] - End[k], got |-> SubSeq(stream, k + 1, j + 1)]
    BY <2>5, <2>6, <2>7, <2>8, <2>10
  <2> QED BY <2>11 DEF Stage, s
<1>6. Round(b, Stage(k, K)) = Stage(k, K)
  <2> DEFINE s == Stage(k, K)
  <2>1. s.at = End[K] - End[k]
    BY DEF Stage
  <2> HIDE DEF s
  <2>2. ~(s.at < Len(b) /\ s.at + Size[b[s.at + 1].kind] <= Len(b))
    <3> SUFFICES ASSUME s.at < Len(b) PROVE ~(s.at + Size[b[s.at + 1].kind] <= Len(b))
      OBVIOUS
    <3>1. End[K] \in Nat /\ End[K] < p
      BY <1>1, <1>2, <2>1 DEF StandsFacts, SliceShape
    <3>2. K < Len(stream) /\ K \in Int /\ 0 <= K
      <4>1. K # Len(stream)
        BY <3>1, <1>1 DEF StandsFacts
      <4> QED BY <4>1, <1>1 DEF StandsFacts
    <3>3. End[K + 1] = End[K] + Size[stream[K + 1]] /\ Size[stream[K + 1]] \in Nat
      BY <3>2, EndNext
    <3>4. b[s.at + 1].kind = stream[K + 1]
      BY <3>1, <3>2, <2>1, SliceNext
    <3>5. p < End[K + 1] /\ p \in Nat
      BY <3>2, <1>1 DEF StandsFacts
    <3> QED BY <3>1, <3>3, <3>4, <3>5, <2>1, <1>2 DEF SliceShape
  <2>3. Round(b, s) = s
    BY <2>2 DEF Round
  <2> QED BY <2>3 DEF s
<1> QED BY <1>5, <1>6

(* A subsequence of a subsequence. *)
LEMMA SubOfSub ==
  ASSUME NEW S, NEW s \in Seq(S), NEW i \in Int, NEW j \in Int, NEW m \in Int, NEW n \in Int,
         1 <= i, i - 1 <= j, j <= Len(s), 1 <= m, m - 1 <= n, n <= j - i + 1
  PROVE  SubSeq(SubSeq(s, i, j), m, n) = SubSeq(s, i + m - 1, i + n - 1)
<1> DEFINE t == SubSeq(s, i, j)
           u == SubSeq(t, m, n)
           v == SubSeq(s, i + m - 1, i + n - 1)
<1>1. \A x \in 1 .. Len(s) : s[x] \in S
  OBVIOUS
<1>2. Len(s) \in Nat
  OBVIOUS
<1>3. /\ t \in Seq(S) /\ Len(t) = j - i + 1 /\ \A x \in 1 .. j - i + 1 : t[x] = s[i + x - 1]
  <2>1. \A x \in i .. j : s[x] \in S
    BY <1>1, <1>2
  <2>2. /\ t \in Seq(S) /\ Len(t) = IF i <= j THEN j - i + 1 ELSE 0
        /\ \A x \in 1 .. j - i + 1 : t[x] = s[i + x - 1]
    BY <2>1, SubSeqProperties
  <2> HIDE DEF t
  <2> QED BY <2>2
<1>4. /\ u \in Seq(S) /\ Len(u) = n - m + 1 /\ \A x \in 1 .. n - m + 1 : u[x] = t[m + x - 1]
  <2> HIDE DEF t
  <2>1. \A x \in m .. n : t[x] \in S
    BY <1>3
  <2>2. /\ u \in Seq(S) /\ Len(u) = IF m <= n THEN n - m + 1 ELSE 0
        /\ \A x \in 1 .. n - m + 1 : u[x] = t[m + x - 1]
    BY <2>1, SubSeqProperties
  <2> HIDE DEF u
  <2> QED BY <2>2
<1> DEFINE a == i + m - 1
           c == i + n - 1
<1>5. a \in Int /\ c \in Int /\ 1 <= a /\ c <= Len(s) /\ c - a = n - m
  BY <1>2
<1>6. /\ v \in Seq(S) /\ Len(v) = n - m + 1 /\ \A x \in 1 .. n - m + 1 : v[x] = s[a + x - 1]
  <2> DEFINE w == SubSeq(s, a, c)
  <2> HIDE DEF a, c
  <2>1. \A x \in a .. c : s[x] \in S
    BY <1>1, <1>2, <1>5
  <2>2. /\ w \in Seq(S) /\ Len(w) = IF a <= c THEN c - a + 1 ELSE 0
        /\ \A x \in 1 .. c - a + 1 : w[x] = s[a + x - 1]
    BY <2>1, <1>5, SubSeqProperties
  <2> HIDE DEF w
  <2>3. /\ w \in Seq(S) /\ Len(w) = n - m + 1 /\ \A x \in 1 .. n - m + 1 : w[x] = s[a + x - 1]
    BY <2>2, <1>5
  <2> QED BY <2>3 DEF w, a, c
<1>7. \A x \in 1 .. n - m + 1 : u[x] = v[x]
  <2> HIDE DEF t, u, v
  <2> TAKE x \in 1 .. n - m + 1
  <2>1. m + x - 1 \in 1 .. j - i + 1 /\ i + (m + x - 1) - 1 = a + x - 1
    OBVIOUS
  <2> QED BY <2>1, <1>3, <1>4, <1>6
<1> HIDE DEF u, v
<1>8. u = v
  BY <1>4, <1>6, <1>7, SeqEqual
<1> QED BY <1>8 DEF u, v, t

(* What is left of a slice from the end of a later message on is a slice. *)
LEMMA SliceTail ==
  ASSUME stream \in Seq(Kind), NEW b, NEW k, NEW p, Slice(b, k, p),
         NEW j \in Int, k <= j, j <= Len(stream), End[j] <= p
  PROVE  Slice(SubSeq(b, End[j] - End[k] + 1, Len(b)), j, p)
<1>1. SliceShape(b, k, p)
  BY SliceFacts
<1>2. k \in 0 .. Len(stream) /\ j \in 0 .. Len(stream)
  BY <1>1 DEF SliceShape
<1>3. End[k] <= End[j] /\ End[j] \in Nat
  BY <1>2, EndMonotone
<1>4. Units \in Seq(Unit) /\ Len(Units) = End[Len(stream)]
  BY UnitsFacts DEF UnitsSpell
<1>5. b = SubSeq(Units, End[k] + 1, p)
  BY DEF Slice
<1> DEFINE i == End[k] + 1
           m == End[j] - End[k] + 1
           n == p - End[k]
<1>6. /\ i \in Int /\ p \in Int /\ m \in Int /\ n \in Int /\ 1 <= i /\ i - 1 <= p /\ p <= Len(Units)
      /\ 1 <= m /\ m - 1 <= n /\ n <= p - i + 1 /\ i + m - 1 = End[j] + 1 /\ i + n - 1 = p /\ Len(b) = n
  <2>1. /\ p \in Nat /\ p <= End[Len(stream)] /\ End[k] \in Nat /\ End[k] <= p /\ Len(b) = p - End[k]
        /\ End[Len(stream)] \in Nat
    BY <1>1 DEF SliceShape
  <2>2. p <= Len(Units)
    BY <2>1, <1>4
  <2>3. i \in Int /\ p \in Int /\ 1 <= i /\ i - 1 <= p
    BY <2>1
  <2>4. m \in Int /\ n \in Int /\ 1 <= m /\ m - 1 <= n /\ Len(b) = n
    BY <2>1, <1>3
  <2>5. n <= p - i + 1 /\ i + m - 1 = End[j] + 1 /\ i + n - 1 = p
    <3> DEFINE e == End[k]
               f == End[j]
    <3>1. e \in Nat /\ f \in Nat /\ p \in Nat /\ i = e + 1 /\ m = f - e + 1 /\ n = p - e
      BY <2>1, <1>3
    <3> HIDE DEF e, f, i, m, n
    <3>2. n <= p - i + 1 /\ i + m - 1 = f + 1 /\ i + n - 1 = p
      BY <3>1
    <3> QED BY <3>2 DEF f
  <2> QED BY <2>2, <2>3, <2>4, <2>5
<1> HIDE DEF m, n
<1>7. SubSeq(SubSeq(Units, i, p), m, n) = SubSeq(Units, i + m - 1, i + n - 1)
  <2> HIDE DEF i
  <2> QED BY <1>4, <1>6, SubOfSub
<1>8. SubSeq(b, m, Len(b)) = SubSeq(Units, End[j] + 1, p)
  BY <1>5, <1>6, <1>7
<1>9. p \in 0 .. End[Len(stream)]
  BY DEF Slice
<1> QED BY <1>2, <1>8, <1>9 DEF Slice, m

(* So is what comes before it. *)
LEMMA SliceFront ==
  ASSUME stream \in Seq(Kind), NEW b, NEW k, NEW p, Slice(b, k, p),
         NEW j \in Int, k <= j, j <= Len(stream), End[j] <= p
  PROVE  Slice(SubSeq(b, 1, End[j] - End[k]), k, End[j])
<1>1. SliceShape(b, k, p)
  BY SliceFacts
<1>2. k \in 0 .. Len(stream) /\ j \in 0 .. Len(stream)
  BY <1>1 DEF SliceShape
<1>3. End[k] <= End[j] /\ End[j] \in Nat
  BY <1>2, EndMonotone
<1>4. Units \in Seq(Unit) /\ Len(Units) = End[Len(stream)]
  BY UnitsFacts DEF UnitsSpell
<1>5. b = SubSeq(Units, End[k] + 1, p)
  BY DEF Slice
<1> DEFINE i == End[k] + 1
           n == End[j] - End[k]
<1>6. /\ i \in Int /\ p \in Int /\ n \in Int /\ 1 <= i /\ i - 1 <= p /\ p <= Len(Units)
      /\ 1 - 1 <= n /\ n <= p - i + 1 /\ i + 1 - 1 = End[k] + 1 /\ i + n - 1 = End[j]
  <2>1. /\ p \in Nat /\ p <= End[Len(stream)] /\ End[k] \in Nat /\ End[k] <= p
        /\ End[Len(stream)] \in Nat
    BY <1>1 DEF SliceShape
  <2> DEFINE e == End[k]
             f == End[j]
             l == Len(Units)
  <2>2. /\ e \in Nat /\ f \in Nat /\ l \in Nat /\ p \in Nat /\ p <= l /\ e <= f /\ f <= p
        /\ i = e + 1 /\ n = f - e
    BY <2>1, <1>3, <1>4
  <2> HIDE DEF e, f, l, i, n
  <2>3. /\ i \in Int /\ p \in Int /\ n \in Int /\ 1 <= i /\ i - 1 <= p /\ p <= l
        /\ 1 - 1 <= n /\ n <= p - i + 1 /\ i + 1 - 1 = e + 1 /\ i + n - 1 = f
    BY <2>2
  <2> QED BY <2>3 DEF e, f, l
<1> HIDE DEF n
<1>7. SubSeq(SubSeq(Units, i, p), 1, n) = SubSeq(Units, i + 1 - 1, i + n - 1)
  <2> HIDE DEF i
  <2> QED BY <1>4, <1>6, SubOfSub
<1>8. SubSeq(b, 1, n) = SubSeq(Units, End[k] + 1, End[j])
  BY <1>5, <1>6, <1>7
<1>9. End[j] \in 0 .. End[Len(stream)]
  BY <1>1, <1>3 DEF SliceShape
<1> QED BY <1>2, <1>3, <1>8, <1>9 DEF Slice, n

(* So is a slice with the units that come next. *)
LEMMA SliceGrows ==
  ASSUME stream \in Seq(Kind), NEW b, NEW k, NEW p, Slice(b, k, p),
         NEW n \in Nat, p + n <= End[Len(stream)]
  PROVE  Slice(b \o SubSeq(Units, p + 1, p + n), k, p + n)
<1>1. SliceShape(b, k, p)
  BY SliceFacts
<1>4. Units \in Seq(Unit) /\ Len(Units) = End[Len(stream)]
  BY UnitsFacts DEF UnitsSpell
<1>5. b = SubSeq(Units, End[k] + 1, p)
  BY DEF Slice
<1> DEFINE i == End[k] + 1
           q == p + n
<1>6. /\ i \in 1 .. Len(Units) + 1 /\ p \in i - 1 .. Len(Units) /\ q \in p .. Len(Units)
      /\ End[k] <= q /\ q \in 0 .. End[Len(stream)] /\ k \in 0 .. Len(stream)
  <2>1. /\ p \in Nat /\ p <= End[Len(stream)] /\ End[k] \in Nat /\ End[k] <= p
        /\ End[Len(stream)] \in Nat /\ k \in Nat /\ k <= Len(stream) /\ Len(stream) \in Nat
    BY <1>1 DEF SliceShape
  <2> QED BY <2>1, <1>4
<1> HIDE DEF q, i
<1>7. SubSeq(Units, i, p) \o SubSeq(Units, p + 1, q) = SubSeq(Units, i, q)
  BY <1>4, <1>6, ConcatAdjacentSubSeq
<1> QED BY <1>5, <1>6, <1>7 DEF Slice, q, i

(* Every message has at least one unit. *)
LEMMA EndSpread ==
  ASSUME stream \in Seq(Kind), NEW k \in Int, NEW K \in Int, 0 <= k, k <= K, K <= Len(stream)
  PROVE  K - k <= End[K] - End[k]
<1> DEFINE T == {n \in Nat : n <= K - k => n <= End[k + n] - End[k]}
<1>0. Len(stream) \in Nat /\ \A m \in 0 .. Len(stream) : End[m] \in Nat
  BY EndNat
<1>1. 0 \in T
  BY <1>0
<1>2. \A n \in 0 .. (K - k) - 1 : n \in T => n + 1 \in T
  <2> TAKE n \in 0 .. (K - k) - 1
  <2> HAVE n \in T
  <2>1. n <= End[k + n] - End[k]
    OBVIOUS
  <2>2. k + n \in Int /\ 0 <= k + n /\ k + n < Len(stream) /\ (k + n) + 1 = k + (n + 1)
    BY <1>0
  <2>3. End[(k + n) + 1] > End[k + n] /\ End[(k + n) + 1] \in Nat /\ End[k + n] \in Nat
    BY <2>2, EndNext
  <2>4. End[k] \in Nat
    BY <1>0
  <2>5. n + 1 <= End[k + (n + 1)] - End[k]
    BY <2>1, <2>2, <2>3, <2>4
  <2> QED BY <2>5
<1>3. K - k \in Nat /\ k + (K - k) = K
  OBVIOUS
<1>4. 0 .. (K - k) \subseteq T
  <2> HIDE DEF T
  <2> QED BY <1>1, <1>2, <1>3, InductionUpTo
<1>5. K - k \in T
  BY <1>3, <1>4
<1> QED BY <1>3, <1>5

(* The loop answers the messages of a slice up to the K-th, and leaves     *)
(* the rest.                                                               *)
MessagesStep(b, k, p, K) ==
    /\ Messages(b) = SubSeq(stream, k + 1, K)
    /\ Slice(Rest(b), K, p)
    /\ Rest(b) = SubSeq(b, End[K] - End[k] + 1, Len(b))

(* By induction over the rounds; there are as many as the slice has        *)
(* units, which is enough.                                                 *)
LEMMA MessagesFacts ==
  ASSUME stream \in Seq(Kind), NEW b, NEW k, NEW p, Slice(b, k, p),
         NEW K, k <= K, Stands(K, p)
  PROVE  MessagesStep(b, k, p, K)
<1>1. SliceShape(b, k, p)
  BY SliceFacts
<1>2. StandsFacts(K, p)
  BY StandsOpened
<1> DEFINE L == Len(b)
           lo(n) == IF k + n <= K THEN k + n ELSE K
           Rec(f) == f = [n \in 0 .. L |-> IF n = 0 THEN [at |-> 0, got |-> <<>>] ELSE Round(b, f[n - 1])]
           g == [n \in 0 .. L |-> Stage(k, lo(n))]
           r == Rounds(b)
<1>3. L \in Nat /\ k \in Nat /\ K \in Nat /\ End[k] \in Nat
  BY <1>1, <1>2 DEF SliceShape, StandsFacts
<1>4. Stage(k, k) = [at |-> 0, got |-> <<>>]
  <2>1. End[k] - End[k] = 0
    BY <1>3
  <2>2. SubSeq(stream, k + 1, k) = <<>>
    BY <1>3, SubSeqEmpty
  <2> QED BY <2>1, <2>2 DEF Stage
<1>5. \A n \in 1 .. L : Round(b, Stage(k, lo(n - 1))) = Stage(k, lo(n))
  <2> TAKE n \in 1 .. L
  <2>0. /\ \A j \in k .. K - 1 : Round(b, Stage(k, j)) = Stage(k, j + 1)
        /\ Round(b, Stage(k, K)) = Stage(k, K)
    BY RoundFacts
  <2>1. CASE k + n <= K
    <3>1. /\ lo(n) = k + n /\ lo(n - 1) = k + n - 1
          /\ k + n - 1 \in k .. K - 1 /\ (k + n - 1) + 1 = k + n
      BY <1>3, <2>1
    <3> HIDE DEF lo
    <3> QED BY <2>0, <3>1
  <2>2. CASE ~(k + n <= K)
    <3>1. lo(n) = K /\ lo(n - 1) = K
      BY <1>3, <2>2
    <3> HIDE DEF lo
    <3> QED BY <2>0, <3>1
  <2> QED BY <2>1, <2>2
<1>6. lo(0) = k
  BY <1>3
<1> HIDE DEF lo
<1>7. Rec(g)
  <2>1. \A n \in 0 .. L : g[n] = Stage(k, lo(n))
    OBVIOUS
  <2>2. \A n \in 0 .. L : Stage(k, lo(n)) = IF n = 0 THEN [at |-> 0, got |-> <<>>] ELSE Round(b, g[n - 1])
    <3> TAKE n \in 0 .. L
    <3> HIDE DEF g
    <3>1. CASE n = 0
      BY <3>1, <1>4, <1>6
    <3>2. CASE n # 0
      <4>1. n \in 1 .. L /\ n - 1 \in 0 .. L
        BY <3>2, <1>3
      <4>2. g[n - 1] = Stage(k, lo(n - 1))
        BY <2>1, <4>1
      <4> QED BY <3>2, <4>1, <4>2, <1>5
    <3> QED BY <3>1, <3>2
  <2> DEFINE val(n) == IF n = 0 THEN [at |-> 0, got |-> <<>>] ELSE Round(b, g[n - 1])
  <2>3. \A n \in 0 .. L : Stage(k, lo(n)) = val(n)
    BY <2>2
  <2>4. g = [n \in 0 .. L |-> val(n)]
    <3> HIDE DEF val
    <3> QED BY <2>3
  <2> QED BY <2>4
<1>8. r = CHOOSE f : Rec(f)
  BY Zenon DEF Rounds
<1>9. Rec(r)
  <2> HIDE DEF Rec, g, r
  <2> QED BY <1>7, <1>8
<1>10. \A n \in 0 .. L : r[n] = IF n = 0 THEN [at |-> 0, got |-> <<>>] ELSE Round(b, r[n - 1])
  <2> HIDE DEF r
  <2> QED BY <1>9
<1> DEFINE T == {n \in Nat : r[n] = Stage(k, lo(n))}
<1>11. 0 .. L \subseteq T
  <2> HIDE DEF r
  <2>1. 0 \in T
    BY <1>3, <1>4, <1>6, <1>10
  <2>2. \A n \in 0 .. L - 1 : n \in T => n + 1 \in T
    <3> TAKE n \in 0 .. L - 1
    <3> HAVE n \in T
    <3>1. n + 1 \in 0 .. L /\ n + 1 \in 1 .. L /\ n + 1 # 0 /\ (n + 1) - 1 = n /\ n + 1 \in Nat
      BY <1>3
    <3>2. r[n + 1] = Round(b, r[n])
      BY <3>1, <1>10
    <3>3. r[n] = Stage(k, lo(n))
      OBVIOUS
    <3>4. Round(b, Stage(k, lo(n))) = Stage(k, lo(n + 1))
      BY <3>1, <1>5
    <3> QED BY <3>1, <3>2, <3>3, <3>4
  <2> HIDE DEF T
  <2> QED BY <1>3, <2>1, <2>2, InductionUpTo
<1>12. lo(L) = K
  <2>1. K - k <= L
    <3>1. K - k <= End[K] - End[k]
      <4>1. K <= Len(stream)
        BY <1>2 DEF StandsFacts
      <4> QED BY <4>1, <1>3, EndSpread
    <3>2. /\ End[K] \in Nat /\ End[K] <= p /\ p \in Nat /\ Len(b) = p - End[k]
      BY <1>1, <1>2 DEF SliceShape, StandsFacts
    <3> QED BY <3>1, <3>2, <1>3
  <2> QED BY <2>1, <1>3 DEF lo
<1>13. r[L] = Stage(k, K)
  <2> HIDE DEF r
  <2> QED BY <1>3, <1>11, <1>12
<1>14. r[L].at = End[K] - End[k] /\ r[L].got = SubSeq(stream, k + 1, K)
  <2>1. Stage(k, K).at = End[K] - End[k] /\ Stage(k, K).got = SubSeq(stream, k + 1, K)
    BY DEF Stage
  <2> HIDE DEF r
  <2> QED BY <1>13, <2>1
<1>15. Messages(b) = SubSeq(stream, k + 1, K) /\ Rest(b) = SubSeq(b, End[K] - End[k] + 1, Len(b))
  BY <1>14 DEF Messages, Rest
<1>16. K \in Int /\ K <= Len(stream) /\ End[K] <= p
  BY <1>2 DEF StandsFacts
<1>17. Slice(Rest(b), K, p)
  BY <1>15, <1>16, SliceTail
<1> QED BY <1>15, <1>17 DEF MessagesStep

-----------------------------------------------------------------------------
(* Lengths, malformed messages and beginnings *)

(* The canonical length of messages k + 1 to K is what they took on the    *)
(* wire where no null and no simple string is among them.                  *)
WireStep(k, K) ==
    LET ms == SubSeq(stream, k + 1, K)
    IN /\ WireLength(ms) \in Nat
       /\ (\A i \in DOMAIN ms : ms[i] # "null" /\ ms[i] # "simple") =>
              WireLength(ms) = End[K] - End[k]

LEMMA WireFacts ==
  ASSUME stream \in Seq(Kind), NEW k \in Int, NEW K \in Int, 0 <= k, k <= K, K <= Len(stream)
  PROVE  WireStep(k, K)
<1> DEFINE ms == SubSeq(stream, k + 1, K)
           L == K - k
           len(i) == CASE ms[i] = "null" -> 0
                       [] ms[i] = "simple" -> Recoded
                       [] OTHER -> Size[ms[i]]
           w == [i \in DOMAIN ms |-> len(i)]
           whole == \A i \in DOMAIN ms : ms[i] # "null" /\ ms[i] # "simple"
           t == Totals(w)
<1>1. Len(stream) \in Nat /\ \A m \in 1 .. Len(stream) : stream[m] \in Kind
  BY EndNat
<1>2. L \in Nat /\ k + L = K
  OBVIOUS
<1>3. ms \in Seq(Kind) /\ Len(ms) = L /\ \A i \in 1 .. L : ms[i] = stream[k + i]
  <2>1. \A m \in k + 1 .. K : stream[m] \in Kind
    BY <1>1
  <2>2. /\ ms \in Seq(Kind) /\ Len(ms) = IF k + 1 <= K THEN K - (k + 1) + 1 ELSE 0
        /\ \A i \in 1 .. K - (k + 1) + 1 : ms[i] = stream[k + 1 + i - 1]
    BY <2>1, SubSeqProperties
  <2> HIDE DEF ms
  <2>3. Len(ms) = L
    BY <2>2
  <2>4. \A i \in 1 .. L : ms[i] = stream[k + i]
    <3> TAKE i \in 1 .. L
    <3>1. i \in 1 .. K - (k + 1) + 1 /\ k + 1 + i - 1 = k + i
      OBVIOUS
    <3> QED BY <3>1, <2>2
  <2> QED BY <2>2, <2>3, <2>4
<1> HIDE DEF ms
<1>4. DOMAIN ms = 1 .. L
  BY <1>3
<1>5. \A i \in 1 .. L : ms[i] \in Kind /\ Size[ms[i]] \in Nat
  <2>1. \A i \in 1 .. L : ms[i] \in Kind
    BY <1>3
  <2> QED BY <2>1, FramingAssumption DEF FramingAssumption
<1>6. \A i \in 1 .. L : len(i) \in Nat
  BY <1>5, FramingAssumption DEF FramingAssumption
<1>7. w \in Seq(Nat) /\ Len(w) = L
  <2> HIDE DEF len
  <2>1. w \in [1 .. L -> Nat]
    BY <1>4, <1>6
  <2> HIDE DEF w
  <2> QED BY <2>1, <1>2, IsASeq
<1>8. /\ t \in [0 .. L -> Nat] /\ t[0] = 0
      /\ \A n \in 1 .. L : t[n] = t[n - 1] + len(n)
  <2>1. \A n \in 1 .. L : w[n] = len(n)
    BY <1>4
  <2> HIDE DEF w, len
  <2>2. TotalsStep(t, w, L)
    BY <1>7, TotalsFacts
  <2> HIDE DEF t
  <2> QED BY <2>1, <2>2 DEF TotalsStep
<1>9. WireLength(ms) = t[L]
  BY <1>3 DEF WireLength
<1> HIDE DEF t
<1> DEFINE T == {n \in Nat : n <= L /\ whole => t[n] = End[k + n] - End[k]}
<1>10. End[k] \in Nat
  <2>1. k \in 0 .. Len(stream)
    BY <1>1
  <2> QED BY <2>1, EndNat
<1>11. 0 \in T
  <2>1. k + 0 = k /\ t[0] = 0 /\ End[k] - End[k] = 0
    BY <1>8, <1>10
  <2> QED BY <2>1
<1>12. \A n \in 0 .. L - 1 : n \in T => n + 1 \in T
  <2> TAKE n \in 0 .. L - 1
  <2> HAVE n \in T
  <2>1. n \in Nat /\ n <= L /\ n + 1 \in 1 .. L /\ (n + 1) - 1 = n /\ n + 1 \in Nat
    BY <1>2
  <2>2. whole => t[n] = End[k + n] - End[k]
    <3> HIDE DEF whole
    <3> QED BY <2>1
  <2>3. k + n \in Int /\ 0 <= k + n /\ k + n < Len(stream) /\ (k + n) + 1 = k + (n + 1)
    BY <2>1, <1>1
  <2>4. /\ End[k + n] \in Nat /\ End[k + (n + 1)] \in Nat
        /\ End[k + (n + 1)] = End[k + n] + Size[stream[k + (n + 1)]]
        /\ Size[stream[k + (n + 1)]] \in Nat
    BY <2>3, EndNext
  <2>5. ms[n + 1] = stream[k + (n + 1)]
    BY <2>1, <1>3
  <2>6. t[n + 1] = t[n] + len(n + 1) /\ t[n] \in Nat
    <3> HIDE DEF len
    <3>1. n \in 0 .. L
      BY <2>1
    <3> QED BY <2>1, <3>1, <1>8
  <2>9. ASSUME whole PROVE t[n + 1] = End[k + (n + 1)] - End[k]
    <3>1. ms[n + 1] # "null" /\ ms[n + 1] # "simple"
      BY <2>1, <2>9, <1>4
    <3>2. len(n + 1) = Size[stream[k + (n + 1)]]
      BY <3>1, <2>5
    <3>3. t[n] = End[k + n] - End[k]
      BY <2>2, <2>9
    <3> DEFINE a == t[n]
               b == t[n + 1]
               c == len(n + 1)
               e == End[k + n]
               f == End[k + (n + 1)]
               g == End[k]
    <3>4. /\ a = e - g /\ b = a + c /\ f = e + c /\ c \in Nat /\ e \in Nat /\ g \in Nat
      <4> HIDE DEF len
      <4> QED BY <3>2, <3>3, <2>4, <2>6, <1>10
    <3> HIDE DEF a, b, c, e, f, g
    <3>5. b = f - g
      BY <3>4
    <3> QED BY <3>5 DEF b, f, g
  <2> HIDE DEF whole
  <2> QED BY <2>1, <2>9
<1>13. 0 .. L \subseteq T
  <2> HIDE DEF T, L
  <2> QED BY <1>2, <1>11, <1>12, InductionUpTo
<1>14. L \in T
  BY <1>2, <1>13
<1>15. whole => WireLength(ms) = End[K] - End[k]
  <2> HIDE DEF whole
  <2> QED BY <1>2, <1>9, <1>14
<1>16. WireLength(ms) \in Nat
  <2>1. L \in 0 .. L
    BY <1>2
  <2> QED BY <2>1, <1>8, <1>9
<1> QED BY <1>15, <1>16 DEF WireStep, ms

(* A malformed end in a slice was sent. *)
LEMMA BadSent ==
  ASSUME stream \in Seq(Kind), NEW b, NEW k, NEW p, Slice(b, k, p), Bad(b)
  PROVE  Sent({"malformed"})
<1>1. SliceShape(b, k, p)
  BY SliceFacts
<1>2. PICK i \in 1 .. Len(b) : b[i].kind = "malformed"
  <2>1. DOMAIN b = 1 .. Len(b)
    BY <1>1 DEF SliceShape
  <2> QED BY <2>1 DEF Bad, Ends
<1>3. PICK m \in k + 1 .. Len(stream) : End[m - 1] - End[k] < i /\ i <= End[m] - End[k]
  BY SliceHolder
<1>4. b[i] = [kind |-> stream[m], first |-> i = End[m - 1] - End[k] + 1, last |-> i = End[m] - End[k]]
  BY <1>3, SliceUnit
<1>5. stream[m] = "malformed"
  BY <1>2, <1>4
<1>6. m \in DOMAIN stream
  <2>1. m \in 1 .. Len(stream)
    BY <1>1 DEF SliceShape
  <2> QED BY <2>1
<1> QED BY <1>5, <1>6 DEF Sent

(* The places of a slice where its messages begin. *)
Beginning(b, k, j, i) ==
    /\ j \in Nat /\ k <= j /\ j < Len(stream) /\ i = End[j] - End[k] + 1
    /\ i \in Nat /\ 1 <= i /\ i <= Len(b)
    /\ b[i].kind = stream[j + 1] /\ b[i].first

(* Where a unit of a slice follows an end, a message begins. *)
LEMMA StartsAreBeginnings ==
  ASSUME stream \in Seq(Kind), NEW b, NEW k, NEW p, Slice(b, k, p), NEW i \in Starts(b)
  PROVE  \E j \in Nat : Beginning(b, k, j, i)
<1>1. SliceShape(b, k, p)
  BY SliceFacts
<1>2. /\ Len(stream) \in Nat /\ k \in Nat /\ k <= Len(stream) /\ p \in Nat /\ p <= End[Len(stream)]
      /\ End[k] \in Nat /\ End[k] <= p /\ End[Len(stream)] \in Nat
      /\ Len(b) = p - End[k] /\ Len(b) \in Nat /\ DOMAIN b = 1 .. Len(b)
  BY <1>1 DEF SliceShape
<1>3. i \in 1 .. Len(b) /\ (i = 1 \/ (i - 1 \in 1 .. Len(b) /\ b[i - 1].last))
  <2>1. i \in 1 .. Len(b)
    BY <1>2 DEF Starts
  <2>2. i = 1 \/ \E h \in 1 .. Len(b) : i = h + 1 /\ b[h].last
    BY <1>2 DEF Starts, Ends
  <2>3. ASSUME NEW h \in 1 .. Len(b), i = h + 1, b[h].last
        PROVE  i - 1 \in 1 .. Len(b) /\ b[i - 1].last
    <3>1. i - 1 = h
      BY <2>3
    <3> QED BY <3>1, <2>3
  <2> QED BY <2>1, <2>2, <2>3
<1>4. ASSUME NEW j \in Int, k <= j, j <= Len(stream), i = End[j] - End[k] + 1
      PROVE  \E l \in Nat : Beginning(b, k, l, i)
  <2>1. j \in Nat /\ j \in 0 .. Len(stream)
    BY <1>2, <1>4
  <2>2. End[j] \in Nat
    BY <2>1, EndNat
  <2>3. End[j] < p
    BY <2>2, <1>2, <1>3, <1>4
  <2>4. j < Len(stream)
    <3>1. j # Len(stream)
      BY <2>3, <1>2, <2>2
    <3> QED BY <3>1, <2>1, <1>2, <1>4
  <2>5. b[i].kind = stream[j + 1] /\ b[i].first
    BY <2>3, <2>4, <1>4, SliceNext
  <2>6. Beginning(b, k, j, i)
    BY <2>1, <2>4, <2>5, <1>2, <1>3, <1>4 DEF Beginning
  <2> QED BY <2>1, <2>6
<1>5. CASE i = 1
  <2>1. k \in Int /\ k <= k /\ i = End[k] - End[k] + 1
    BY <1>2, <1>5
  <2> QED BY <2>1, <1>2, <1>4
<1>6. CASE i - 1 \in 1 .. Len(b) /\ b[i - 1].last
  <2> DEFINE h == i - 1
  <2>1. h \in 1 .. Len(b) /\ b[h].last /\ i = h + 1
    BY <1>3, <1>6
  <2> HIDE DEF h
  <2>2. PICK m \in k + 1 .. Len(stream) : End[m - 1] - End[k] < h /\ h <= End[m] - End[k]
    BY <2>1, SliceHolder
  <2>3. b[h] = [kind |-> stream[m], first |-> h = End[m - 1] - End[k] + 1, last |-> h = End[m] - End[k]]
    BY <2>1, <2>2, SliceUnit
  <2>4. h = End[m] - End[k]
    <3>1. b[h].last = (h = End[m] - End[k])
      BY <2>3
    <3> QED BY <3>1, <2>1
  <2>5. m \in Int /\ k <= m /\ m <= Len(stream)
    BY <2>2, <1>2
  <2>6. i = End[m] - End[k] + 1
    BY <2>1, <2>4
  <2> QED BY <2>5, <2>6, <1>4
<1> QED BY <1>3, <1>5, <1>6

(* And the other way round. *)
LEMMA BeginningsAreStarts ==
  ASSUME stream \in Seq(Kind), NEW b, NEW k, NEW p, Slice(b, k, p),
         NEW j \in Int, k <= j, j < Len(stream), End[j] < p
  PROVE  /\ End[j] - End[k] + 1 \in Starts(b)
         /\ Beginning(b, k, j, End[j] - End[k] + 1)
<1>1. SliceShape(b, k, p)
  BY SliceFacts
<1>2. /\ Len(stream) \in Nat /\ k \in Nat /\ k <= Len(stream) /\ p \in Nat /\ p <= End[Len(stream)]
      /\ End[k] \in Nat /\ End[k] <= p /\ End[Len(stream)] \in Nat
      /\ Len(b) = p - End[k] /\ Len(b) \in Nat /\ DOMAIN b = 1 .. Len(b)
  BY <1>1 DEF SliceShape
<1> DEFINE i == End[j] - End[k] + 1
<1>3. i \in 1 .. Len(b) /\ b[i].kind = stream[j + 1] /\ b[i].first
  BY SliceNext
<1>4. j \in Nat /\ i \in Nat
  BY <1>2, <1>3
<1>5. CASE j = k
  <2>1. i = 1
    BY <1>2, <1>5
  <2> HIDE DEF i
  <2>2. i \in Starts(b)
    BY <2>1, <1>2, <1>3 DEF Starts
  <2> QED BY <2>2, <1>2, <1>3, <1>4 DEF Beginning, i
<1>6. CASE j # k
  <2> DEFINE h == i - 1
  <2>1. /\ j \in k + 1 .. Len(stream) /\ 0 <= j - 1 /\ j - 1 < Len(stream) /\ (j - 1) + 1 = j /\ k <= j - 1
        /\ j - 1 \in 0 .. Len(stream) /\ j \in 0 .. Len(stream) /\ k \in 0 .. Len(stream)
    BY <1>2, <1>4, <1>6
  <2>2. End[j - 1] < End[j] /\ End[j] \in Nat /\ End[j - 1] \in Nat /\ End[k] <= End[j - 1]
    <3>1. End[k] <= End[j - 1]
      BY <2>1, EndMonotone
    <3>2. End[j - 1] < End[(j - 1) + 1] /\ End[(j - 1) + 1] \in Nat /\ End[j - 1] \in Nat
      BY <2>1, EndNext
    <3> QED BY <3>1, <3>2, <2>1
  <2>3. h = End[j] - End[k] /\ h \in 1 .. Len(b) /\ i = h + 1 /\ End[j - 1] - End[k] < h
    <3>1. i \in 1 .. Len(b) /\ Len(b) \in Nat /\ End[k] \in Nat
      BY <1>2, <1>3
    <3>2. h = End[j] - End[k] /\ i = h + 1 /\ End[j - 1] - End[k] < h /\ 1 <= h
      BY <2>2, <3>1
    <3> HIDE DEF h, i
    <3> QED BY <3>1, <3>2, <2>2
  <2> HIDE DEF h
  <2>4. b[h] = [kind |-> stream[j], first |-> h = End[j - 1] - End[k] + 1, last |-> h = End[j] - End[k]]
    <3>1. h <= End[j] - End[k]
      BY <2>3, <2>2, <1>2
    <3> QED BY <3>1, <2>1, <2>3, SliceUnit
  <2>5. b[h].last
    <3>1. b[h].last = (h = End[j] - End[k])
      BY <2>4
    <3> QED BY <3>1, <2>3
  <2> HIDE DEF i
  <2>6. i \in Starts(b)
    BY <2>3, <2>5, <1>2, <1>3 DEF Starts, Ends
  <2> QED BY <2>6, <1>2, <1>3, <1>4 DEF Beginning, i
<1> QED BY <1>5, <1>6

(* What the search for the end of the command lines finds. *)
InlineStep(b, k, p) ==
    \/ /\ InlineEnd(b) = Len(b)
       /\ \A i \in Starts(b) : ~Marker(b[i])
    \/ \E j \in Nat : /\ k <= j /\ j < Len(stream) /\ End[j] < p
                      /\ InlineEnd(b) = End[j] - End[k] /\ InlineEnd(b) < Len(b)
                      /\ stream[j + 1] # "inline"

LEMMA InlineFacts ==
  ASSUME stream \in Seq(Kind), NEW b, NEW k, NEW p, Slice(b, k, p)
  PROVE  InlineStep(b, k, p)
<1> DEFINE framed == {i \in Starts(b) : Marker(b[i])}
<1>1. SliceShape(b, k, p)
  BY SliceFacts
<1>2. CASE framed = {}
  <2>1. InlineEnd(b) = Len(b)
    BY <1>2 DEF InlineEnd
  <2>2. \A i \in Starts(b) : ~Marker(b[i])
    BY <1>2
  <2> QED BY <2>1, <2>2 DEF InlineStep
<1>3. CASE framed # {}
  <2>1. framed \subseteq Nat
    <3>1. DOMAIN b \subseteq Nat
      BY <1>1 DEF SliceShape
    <3> QED BY <3>1 DEF Starts
  <2> DEFINE i == CHOOSE x \in framed : \A y \in framed : x <= y
  <2>2. InlineEnd(b) = i - 1
    BY <1>3 DEF InlineEnd
  <2>3. i \in framed
    <3> HIDE DEF framed
    <3>1. \E x \in framed : \A y \in framed : x <= y
      BY <2>1, <1>3, LeastNatural
    <3> QED BY <3>1
  <2> HIDE DEF i
  <2>4. i \in Starts(b) /\ Marker(b[i])
    BY <2>3
  <2>5. PICK j \in Nat : Beginning(b, k, j, i)
    BY <2>4, StartsAreBeginnings
  <2>6. /\ j \in Nat /\ k <= j /\ j < Len(stream) /\ i = End[j] - End[k] + 1
        /\ 1 <= i /\ i <= Len(b) /\ i \in Nat /\ b[i].kind = stream[j + 1]
    BY <2>5 DEF Beginning
  <2>7. End[j] \in Nat /\ End[k] \in Nat /\ p \in Nat /\ Len(b) = p - End[k]
    <3>1. 0 <= j /\ j \in Int
      BY <2>6
    <3>2. End[j] \in Nat
      BY <3>1, <2>6, EndNext
    <3> QED BY <3>2, <1>1 DEF SliceShape
  <2>8. End[j] < p /\ InlineEnd(b) = End[j] - End[k] /\ InlineEnd(b) < Len(b)
    <3>1. i - 1 = End[j] - End[k] /\ i - 1 < Len(b) /\ End[j] < p
      BY <2>6, <2>7
    <3> QED BY <3>1, <2>2
  <2>9. stream[j + 1] # "inline"
    BY <2>4, <2>6 DEF Marker
  <2> QED BY <2>6, <2>8, <2>9 DEF InlineStep
<1> QED BY <1>2, <1>3

(* What is left of a slice begins with a message that was looked at. *)
LEMMA RestBegins ==
  ASSUME stream \in Seq(Kind), NEW b, NEW k, NEW p, Slice(b, k, p),
         NEW K, k <= K, Stands(K, p), Rest(b) # <<>>
  PROVE  K < Len(stream) /\ \E i \in Starts(b) : b[i].kind = stream[K + 1] /\ b[i].first
<1>1. SliceShape(b, k, p) /\ StandsFacts(K, p)
  BY SliceFacts, StandsOpened
<1>2. Slice(Rest(b), K, p)
  BY MessagesFacts DEF MessagesStep
<1>3. SliceShape(Rest(b), K, p)
  BY <1>2, SliceFacts
<1>4. End[K] < p
  <2>1. /\ Len(Rest(b)) = p - End[K] /\ Len(Rest(b)) \in Nat
        /\ Rest(b) \in Seq(Unit) /\ End[K] \in Nat /\ p \in Nat
    BY <1>3 DEF SliceShape
  <2>2. Len(Rest(b)) # 0
    <3> HIDE DEF Rest
    <3> QED BY <2>1, EmptySeq
  <2> QED BY <2>1, <2>2
<1>5. K \in Int /\ K < Len(stream)
  <2>1. K # Len(stream)
    BY <1>1, <1>4 DEF StandsFacts
  <2> QED BY <1>1, <2>1 DEF StandsFacts
<1>6. /\ End[K] - End[k] + 1 \in Starts(b)
      /\ Beginning(b, k, K, End[K] - End[k] + 1)
  BY <1>4, <1>5, BeginningsAreStarts
<1> QED BY <1>5, <1>6 DEF Beginning

-----------------------------------------------------------------------------
(* The message that comes next is a command line. *)
NextIsLine == stream[Len(out) + 1] = "inline"

(* The python engine's buffer holds what arrived of the next message. *)
PythonHolds ==
    /\ Slice(buffer, Len(out), pos)
    /\ pending = <<>> /\ ~engaged /\ ~unknown

(* At a boundary, so does the buffer of the hiredis engine; what is in it  *)
(* is the beginning of a command line.                                     *)
LinesHold ==
    /\ Slice(buffer, Len(out), pos)
    /\ pending = <<>> /\ ~unknown /\ fed = 0 /\ consumed = 0
    /\ buffer # <<>> => NextIsLine

(* Otherwise hiredis holds it, and the account of what it was fed and      *)
(* what it parsed is exact until a null or a simple string has come by.    *)
HiredisHolds ==
    /\ buffer = <<>> /\ Slice(pending, Len(out), pos)
    /\ ~unknown /\ Straight => fed - consumed = Len(pending) /\ pending # <<>>
    /\ pending # <<>> => ~NextIsLine

(* A drifted account has left hiredis in the middle of a message. *)
HiredisLeft ==
    /\ buffer = <<>> /\ Slice(pending, Len(out), pos)
    /\ ~unknown /\ ~Straight

(* What the reader holds. *)
ReaderInv ==
    /\ before <= pos
    /\ ~failed /\ engine = "python" => PythonHolds
    /\ ~failed /\ engine = "hiredis" /\ Misread => ~engaged /\ ~unknown
    /\ ~failed /\ engine = "hiredis" /\ ~Misread /\ ~engaged =>
          IF pending = <<>> THEN LinesHold ELSE HiredisLeft
    /\ ~failed /\ engine = "hiredis" /\ ~Misread /\ engaged => HiredisHolds

(* The inductive invariant. *)
IInv == TypeOK /\ AnswersExact /\ BuffersExact /\ ErrorsJustified /\ ReaderInv

(* What the client sends does not change. *)
LEMMA StreamKept ==
  ASSUME stream' = stream
  PROVE  End' = End /\ Units' = Units
<1>1. End' = End
  BY DEF End
<1>2. Units' = Units
  BY <1>1 DEF Units
<1> QED BY <1>1, <1>2

LEMMA EndFirst ==
  ASSUME stream \in Seq(Kind)
  PROVE  End[0] = 0
BY EndFacts DEF EndsRise

(* Messages answered are answers, and none of them is a stray one. *)
LEMMA KindsAnswer ==
  ASSUME NEW o \in Seq(Kind)
  PROVE  o \in Seq(Output) /\ \A i \in DOMAIN o : o[i] # "stray"
<1>1. \A x \in Kind : x \in Output /\ x # "stray"
  BY DEF Kind, Output
<1>2. \A i \in DOMAIN o : o[i] \in Kind
  OBVIOUS
<1> HIDE DEF Kind, Output
<1>3. o \in Seq(Output)
  BY <1>1
<1> QED BY <1>1, <1>2, <1>3

LEMMA InitHolds == Init => IInv
<1> SUFFICES ASSUME Init PROVE IInv
  OBVIOUS
<1>1. stream \in Seq(Kind)
  BY DEF Init
<1>2. Len(stream) \in Nat /\ End[0] = 0 /\ End[Len(stream)] \in Nat
  <2>1. Len(stream) \in 0 .. Len(stream) /\ Len(stream) \in Nat
    BY <1>1, EndNat
  <2> QED BY <2>1, <1>1, EndNat, EndFirst
<1>3. Units \in Seq(Unit) /\ Len(Units) = End[Len(stream)]
  BY <1>1, UnitsFacts DEF UnitsSpell
<1>4. TypeOK
  <2>1. pos \in 0 .. Len(Units) /\ before \in 0 .. Len(Units)
    BY <1>2, <1>3 DEF Init
  <2>2. out \in Seq(Output) /\ buffer \in Seq(Unit) /\ pending \in Seq(Unit)
    BY DEF Init
  <2>3. fed \in Nat /\ consumed \in Nat
    BY DEF Init
  <2> QED BY <1>1, <2>1, <2>2, <2>3 DEF Init, TypeOK
<1>5. Len(out) = 0 /\ out = SubSeq(stream, 1, 0)
  <2>1. SubSeq(stream, 1, 0) = <<>>
    BY SubSeqEmpty
  <2> QED BY <2>1 DEF Init
<1>6. AnswersExact
  <2>1. ASSUME 0 < Len(stream) PROVE 0 < End[0 + 1]
    <3>1. 0 \in 0 .. Len(stream) /\ 1 \in 0 .. Len(stream) /\ 0 < 1
      BY <2>1, <1>2
    <3>2. End[0] < End[1]
      BY <3>1, <1>1, EndFacts DEF EndsRise
    <3> QED BY <3>2, <1>2
  <2>2. pos = 0 /\ before = 0
    BY DEF Init
  <2>3. ~Misread
    BY DEF Init, Misread, Strayed
  <2> QED BY <1>2, <1>5, <2>1, <2>2, <2>3 DEF AnswersExact
<1>7. BuffersExact
  <2>1. BoundaryExact
    BY DEF BoundaryExact, Init
  <2>2. BufferCapped
    <3>1. Len(buffer) = 0 /\ Len(pending) = 0
      BY DEF Init
    <3> QED BY <3>1, FramingAssumption DEF FramingAssumption, BufferCapped
  <2> QED BY <2>1, <2>2 DEF BuffersExact
<1>8. ErrorsJustified
  BY DEF Init, ErrorsJustified
<1>9. ReaderInv
  <2>1. Slice(<<>>, 0, 0)
    <3>1. SubSeq(Units, End[0] + 1, 0) = <<>>
      BY <1>2, SubSeqEmpty
    <3> QED BY <1>2, <3>1 DEF Slice
  <2>2. Slice(buffer, Len(out), pos) /\ pending = <<>> /\ buffer = <<>>
    BY <2>1, <1>5 DEF Init
  <2> QED BY <2>2 DEF Init, ReaderInv, PythonHolds, LinesHold
<1> QED BY <1>4, <1>6, <1>7, <1>8, <1>9 DEF IInv

(* What a chunk of n units finds: k messages answered, p units arrived. *)
Given(n) ==
    LET k == Len(out)
    IN /\ stream \in Seq(Kind) /\ n \in Nat /\ 1 <= n /\ n <= MaxChunk
       /\ ~failed /\ pos \in Nat /\ pos + n <= End[Len(stream)]
       /\ Stands(k, pos) /\ out = SubSeq(stream, 1, k) /\ k \in Nat
       /\ out \in Seq(Kind) /\ ~Misread
       /\ before' = pos /\ pos' = pos + n /\ engine' = engine
       /\ stream' = stream /\ End' = End /\ Units' = Units

LEMMA ChunkGiven ==
  ASSUME IInv, NEW n \in 1 .. MaxChunk, Arrives(n), ~Misread
  PROVE  Given(n)
<1>1. stream \in Seq(Kind) /\ out \in Seq(Output) /\ pos \in 0 .. Len(Units)
  BY DEF IInv, TypeOK
<1>2. Len(Units) = End[Len(stream)] /\ End[Len(stream)] \in Nat /\ Len(stream) \in Nat
  <2>1. Len(Units) = End[Len(stream)]
    BY <1>1, UnitsFacts DEF UnitsSpell
  <2>2. Len(stream) \in Nat /\ Len(stream) \in 0 .. Len(stream)
    BY <1>1, EndNat
  <2> QED BY <2>1, <2>2, <1>1, EndNat
<1>3. ~failed /\ pos + n <= Len(Units) /\ before' = pos /\ pos' = pos + n /\ engine' = engine
      /\ stream' = stream
  BY DEF Arrives
<1>4. /\ Len(out) <= Len(stream) /\ out = SubSeq(stream, 1, Len(out)) /\ End[Len(out)] <= pos
      /\ Len(out) < Len(stream) => pos < End[Len(out) + 1]
  BY <1>3 DEF IInv, AnswersExact
<1>5. Len(out) \in Nat
  BY <1>1
<1>6. Stands(Len(out), pos)
  BY <1>1, <1>2, <1>4, <1>5 DEF Stands
<1>7. n \in Nat /\ 1 <= n /\ n <= MaxChunk
  BY FramingAssumption DEF FramingAssumption
<1>8. End' = End /\ Units' = Units
  BY <1>3, StreamKept
<1>9. out \in Seq(Kind)
  <2> DEFINE k == Len(out)
  <2>1. \A i \in 1 .. k : stream[i] \in Kind
    BY <1>1, <1>2, <1>4, <1>5
  <2> HIDE DEF k
  <2>2. k \in Int
    BY <1>5 DEF k
  <2>3. SubSeq(stream, 1, k) \in Seq(Kind)
    BY <2>1, <2>2, SubSeqProperties
  <2> QED BY <2>3, <1>4 DEF k
<1> QED BY <1>1, <1>2, <1>3, <1>4, <1>5, <1>6, <1>7, <1>8, <1>9 DEF Given

-----------------------------------------------------------------------------
(* A step of the reader *)

(* What a slice is as a sequence. *)
LEMMA SliceTyped ==
  ASSUME stream \in Seq(Kind), NEW b, NEW k, NEW p, Slice(b, k, p)
  PROVE  b \in Seq(Unit) /\ Len(b) \in Nat /\ Len(b) = p - End[k]
BY SliceFacts DEF SliceShape

(* The messages that stand at a later place are no fewer. *)
LEMMA StandsLater ==
  ASSUME NEW n, Given(n)
  PROVE  \E K \in Nat : Len(out) <= K /\ K <= Len(stream) /\ Stands(K, pos + n)
<1>1. /\ stream \in Seq(Kind) /\ n \in Nat /\ pos \in Nat /\ pos + n <= End[Len(stream)]
      /\ Stands(Len(out), pos)
  BY DEF Given
<1>2. StandsFacts(Len(out), pos)
  BY <1>1, StandsOpened
<1>3. /\ pos + n \in 0 .. End[Len(stream)] /\ Len(out) \in 0 .. Len(stream) /\ End[Len(out)] <= pos + n
      /\ Len(stream) \in Nat
  BY <1>1, <1>2 DEF StandsFacts
<1>4. PICK K \in Len(out) .. Len(stream) : Stands(K, pos + n)
  BY <1>1, <1>3, Located
<1>5. K \in Nat /\ Len(out) <= K /\ K <= Len(stream)
  BY <1>3
<1> QED BY <1>4, <1>5

(* The message that the next unit belongs to, if it begins it. *)
LEMMA FreshStart ==
  ASSUME NEW n, Given(n), NEW j \in Int, Len(out) <= j, j < Len(stream),
         j = Len(out) => pos = End[Len(out)]
  PROVE  pos <= End[j] /\ End[j] \in Nat
<1>1. stream \in Seq(Kind) /\ Stands(Len(out), pos)
  BY DEF Given
<1>2. StandsFacts(Len(out), pos)
  BY <1>1, StandsOpened
<1>3. CASE j = Len(out)
  BY <1>2, <1>3 DEF StandsFacts
<1>4. CASE j # Len(out)
  <2> DEFINE k == Len(out)
  <2>1. k + 1 \in 0 .. Len(stream) /\ j \in 0 .. Len(stream) /\ k + 1 <= j /\ k < Len(stream)
    BY <1>2, <1>4 DEF StandsFacts
  <2>2. End[k + 1] <= End[j] /\ End[k + 1] \in Nat /\ End[j] \in Nat
    BY <1>1, <2>1, EndMonotone
  <2>3. pos < End[k + 1] /\ pos \in Nat
    BY <2>1, <1>2 DEF StandsFacts
  <2> QED BY <2>2, <2>3
<1> QED BY <1>3, <1>4

(* More than the reader may buffer: a message that large was sent. *)
LEMMA TooLong ==
  ASSUME NEW n, Given(n), NEW b, Slice(b, Len(out), pos + n), Len(b) > MaxBuffer
  PROVE  Sent({"malformed", "huge"})
<1> DEFINE k == Len(out)
<1>1. /\ stream \in Seq(Kind) /\ n \in Nat /\ 1 <= n /\ n <= MaxChunk /\ pos \in Nat
      /\ pos + n <= End[Len(stream)] /\ Stands(k, pos)
  BY DEF Given
<1>2. StandsFacts(k, pos)
  BY <1>1, StandsOpened
<1>3. SliceShape(b, k, pos + n)
  BY <1>1, SliceFacts
<1>4. Len(b) = pos + n - End[k] /\ End[k] \in Nat
  <2>1. Len(b) = (pos + n) - End[k]
    BY <1>1, SliceTyped
  <2>2. End[k] \in Nat
    BY <1>2 DEF StandsFacts
  <2> QED BY <2>1, <2>2, <1>1
<1>5. k \in Nat /\ k < Len(stream) /\ pos < End[k + 1] /\ Len(stream) \in Nat
  <2>1. k # Len(stream)
    BY <1>1, <1>2 DEF StandsFacts
  <2> QED BY <2>1, <1>2 DEF StandsFacts
<1>6. /\ End[k + 1] = End[k] + Size[stream[k + 1]] /\ Size[stream[k + 1]] \in Nat
      /\ stream[k + 1] \in Kind /\ k + 1 \in 1 .. Len(stream)
  <2>1. k \in Int /\ 0 <= k
    BY <1>5
  <2> HIDE DEF k
  <2> QED BY <2>1, <1>1, <1>5, EndNext
<1>7. Len(b) <= Size[stream[k + 1]] - 1 + MaxChunk
  <2>1. MaxChunk \in Nat
    BY FramingAssumption DEF FramingAssumption
  <2> DEFINE e == End[k]
             f == End[k + 1]
             z == Size[stream[k + 1]]
             l == Len(b)
  <2>2. /\ e \in Nat /\ z \in Nat /\ f = e + z /\ l = pos + n - e /\ pos < f
        /\ pos \in Nat /\ n \in Nat /\ n <= MaxChunk
    BY <1>1, <1>4, <1>5, <1>6
  <2> HIDE DEF e, f, z, l
  <2>3. l <= z - 1 + MaxChunk
    BY <2>1, <2>2
  <2> QED BY <2>3 DEF z, l
<1>8. stream[k + 1] = "huge"
  <2> SUFFICES ASSUME stream[k + 1] # "huge" PROVE FALSE
    OBVIOUS
  <2>1. Size[stream[k + 1]] - 1 + MaxChunk <= MaxBuffer
    BY <1>6, FramingAssumption DEF FramingAssumption
  <2>2. MaxBuffer \in Nat /\ MaxChunk \in Nat /\ Len(b) \in Nat
    BY <1>3, FramingAssumption DEF FramingAssumption, SliceShape
  <2> QED BY <2>1, <2>2, <1>6, <1>7
<1>9. k + 1 \in DOMAIN stream
  BY <1>1, <1>6
<1> QED BY <1>8, <1>9 DEF Sent

(* A command line reaches hiredis in this chunk. *)
LineRefused(n) ==
    \E u \in pos + 1 .. pos + n :
      /\ Units[u].first /\ Units[u].kind = "inline"
      /\ pending # <<>> \/ unknown \/ \E v \in pos + 1 .. u - 1 : Marker(Units[v])

(* A protocol error leaves the reader as it was. *)
Cause(n) ==
    \/ Sent({"malformed", "huge"})
    \/ ~Straight
    \/ engine = "hiredis" /\ LineRefused(n)

(* With a cause, raising keeps the invariant. *)
LEMMA RaiseKeeps ==
  ASSUME IInv, NEW n, Given(n), Raise, Cause(n)
  PROVE  IInv'
<1>1. /\ before' = pos /\ pos' = pos + n /\ engine' = engine /\ stream' = stream
      /\ End' = End /\ Units' = Units /\ n \in Nat /\ pos \in Nat /\ pos + n <= End[Len(stream)]
      /\ stream \in Seq(Kind) /\ ~failed
  BY DEF Given
<1>2. /\ failed' = TRUE /\ out' = out /\ buffer' = buffer /\ pending' = pending
      /\ engaged' = engaged /\ unknown' = unknown /\ fed' = fed /\ consumed' = consumed
  BY DEF Raise
<1>3. Len(Units) = End[Len(stream)] /\ End[Len(stream)] \in Nat
  <2>1. Len(stream) \in 0 .. Len(stream)
    BY <1>1, EndNat
  <2> QED BY <2>1, <1>1, EndNat, UnitsFacts DEF UnitsSpell
<1>4. TypeOK'
  <2>1. pos' \in 0 .. Len(Units) /\ before' \in 0 .. Len(Units)
    BY <1>1, <1>3
  <2>2. TypeOK
    BY DEF IInv
  <2> QED BY <1>1, <1>2, <2>1, <2>2 DEF TypeOK
<1>5. AnswersExact'
  <2>1. AnswersExact
    BY DEF IInv
  <2>2. (Straight' <=> Straight) /\ (Misread' <=> Misread)
    BY <1>1, <1>2 DEF Straight, Misread, Strayed
  <2> QED BY <1>1, <1>2, <2>1, <2>2 DEF AnswersExact
<1>6. BuffersExact'
  BY <1>2 DEF BuffersExact, BoundaryExact, BufferCapped
<1>7. ErrorsJustified'
  <2>1. CASE Sent({"malformed", "huge"})
    <3>1. Sent({"malformed", "huge"})'
      BY <2>1, <1>1 DEF Sent
    <3> QED BY <3>1 DEF ErrorsJustified
  <2>2. CASE ~Straight
    <3>1. ~Straight'
      BY <2>2, <1>1, <1>2 DEF Straight
    <3> QED BY <3>1 DEF ErrorsJustified
  <2>3. CASE ~Sent({"malformed", "huge"}) /\ Straight
    <3>1. engine = "hiredis" /\ LineRefused(n)
      BY <2>3 DEF Cause, LineRefused
    <3>2. engine' = "hiredis"
      BY <3>1, <1>1
    <3>3. LineRefused(n) => (\E u \in before' + 1 .. pos' :
                /\ Units'[u].first /\ Units'[u].kind = "inline"
                /\ pending' # <<>> \/ unknown' \/ \E v \in before' + 1 .. u - 1 : Marker(Units'[v]))
      BY <1>1, <1>2 DEF LineRefused
    <3> QED BY <3>1, <3>2, <3>3 DEF ErrorsJustified, Marker
  <2> QED BY <2>1, <2>2, <2>3
<1>8. ReaderInv'
  BY <1>1, <1>2 DEF ReaderInv
<1> QED BY <1>4, <1>5, <1>6, <1>7, <1>8 DEF IInv

(* What answering the messages up to the K-th gives. *)
LEMMA AnswerKeeps ==
  ASSUME IInv, NEW n, Given(n), NEW K \in Nat, Len(out) <= K, K <= Len(stream), Stands(K, pos + n),
         out' = out \o SubSeq(stream, Len(out) + 1, K), failed' = failed,
         buffer' = <<>> \/ pending' = <<>>
  PROVE  /\ out' \in Seq(Kind) /\ Len(out') = K /\ out' = SubSeq(stream, 1, K)
         /\ out' \in Seq(Output) /\ ~Misread'
         /\ pos' \in 0 .. Len(Units') /\ before' \in 0 .. Len(Units') /\ before' <= pos'
         /\ AnswersExact' /\ ErrorsJustified'
<1> DEFINE k == Len(out)
<1>1. /\ before' = pos /\ pos' = pos + n /\ stream' = stream
      /\ End' = End /\ Units' = Units /\ n \in Nat /\ pos \in Nat /\ pos + n <= End[Len(stream)]
      /\ stream \in Seq(Kind) /\ ~failed /\ out = SubSeq(stream, 1, k) /\ k \in Nat
  BY DEF Given
<1>2. StandsFacts(K, pos + n)
  BY <1>1, StandsOpened
<1>3. Len(Units) = End[Len(stream)] /\ End[Len(stream)] \in Nat /\ Len(stream) \in Nat
  <2>1. Len(stream) \in 0 .. Len(stream) /\ Len(stream) \in Nat
    BY <1>1, EndNat
  <2> QED BY <2>1, <1>1, EndNat, UnitsFacts DEF UnitsSpell
<1>4. out' = SubSeq(stream, 1, K)
  <2>1. 1 \in 1 .. Len(stream) + 1 /\ k \in 1 - 1 .. Len(stream) /\ K \in k .. Len(stream)
    BY <1>1, <1>3
  <2> HIDE DEF k
  <2>2. SubSeq(stream, 1, k) \o SubSeq(stream, k + 1, K) = SubSeq(stream, 1, K)
    BY <2>1, <1>1, ConcatAdjacentSubSeq
  <2>3. out' = out \o SubSeq(stream, k + 1, K)
    BY DEF k
  <2> QED BY <2>2, <2>3, <1>1
<1>5. out' \in Seq(Kind) /\ Len(out') = K
  <2>1. \A i \in 1 .. K : stream[i] \in Kind
    BY <1>1, <1>3
  <2>2. SubSeq(stream, 1, K) \in Seq(Kind) /\ Len(SubSeq(stream, 1, K)) = IF 1 <= K THEN K - 1 + 1 ELSE 0
    BY <2>1, SubSeqProperties
  <2> DEFINE o == SubSeq(stream, 1, K)
  <2>3. o \in Seq(Kind) /\ Len(o) = K
    <3> HIDE DEF o
    <3>1. Len(o) = IF 1 <= K THEN K - 1 + 1 ELSE 0
      BY <2>2 DEF o
    <3> QED BY <2>2, <3>1 DEF o
  <2> HIDE DEF o
  <2> QED BY <2>3, <1>4 DEF o
<1>9. out' \in Seq(Output) /\ ~Misread'
  BY <1>5, KindsAnswer DEF Misread, Strayed
<1>6. AnswersExact'
  <2>1. failed' = FALSE
    BY <1>1 DEF IInv, TypeOK
  <2>2. K <= Len(stream) /\ End[K] <= pos + n /\ (K < Len(stream) => pos + n < End[K + 1])
    BY <1>2 DEF StandsFacts
  <2> QED BY <2>1, <2>2, <1>1, <1>4, <1>5, <1>9 DEF AnswersExact
<1>7. ErrorsJustified'
  BY <1>1 DEF ErrorsJustified
<1>8. pos' \in 0 .. Len(Units') /\ before' \in 0 .. Len(Units') /\ before' <= pos'
  BY <1>1, <1>3
<1> QED BY <1>4, <1>5, <1>6, <1>7, <1>8, <1>9

(* The python engine: the loop over the buffer and the chunk. *)
LEMMA FeedPythonKeeps ==
  ASSUME IInv, NEW n \in 1 .. MaxChunk, FeedPython(n)
  PROVE  IInv'
<1> DEFINE b == buffer \o Chunk(n)
           k == Len(out)
           p == pos + n
<1>1. engine = "python" /\ Arrives(n)
  BY DEF FeedPython
<1>2. Given(n)
  <2>1. Straight /\ (Straight => ~Misread)
    BY <1>1 DEF Straight, IInv, AnswersExact
  <2> QED BY <1>1, <2>1, ChunkGiven
<1>3. /\ engine' = engine /\ stream' = stream /\ End' = End /\ Units' = Units /\ pos' = p
      /\ stream \in Seq(Kind) /\ n \in Nat /\ pos + n <= End[Len(stream)] /\ ~failed /\ pos \in Nat
  BY <1>2 DEF Given
<1>4. PythonHolds
  BY <1>1, <1>3 DEF IInv, ReaderInv
<1>5. Slice(b, k, p)
  BY <1>3, <1>4, SliceGrows DEF PythonHolds, Chunk
<1> HIDE DEF b
<1>6. CASE Len(b) > MaxBuffer \/ Bad(b)
  <2>1. Raise
    BY <1>6 DEF FeedPython, b
  <2>2. Sent({"malformed", "huge"})
    <3>1. CASE Len(b) > MaxBuffer
      BY <1>2, <1>5, <3>1, TooLong
    <3>2. CASE Bad(b)
      <4>1. Sent({"malformed"})
        BY <1>3, <1>5, <3>2, BadSent
      <4> QED BY <4>1 DEF Sent
    <3> QED BY <1>6, <3>1, <3>2
  <2>3. Cause(n)
    BY <2>2 DEF Cause
  <2> QED BY <1>2, <2>1, <2>3, RaiseKeeps
<1>7. CASE ~(Len(b) > MaxBuffer \/ Bad(b))
  <2>1. /\ out' = out \o Messages(b) /\ buffer' = Rest(b)
        /\ failed' = failed /\ pending' = pending /\ engaged' = engaged /\ unknown' = unknown
        /\ fed' = fed /\ consumed' = consumed
    BY <1>7 DEF FeedPython, b
  <2>2. PICK K \in Nat : k <= K /\ K <= Len(stream) /\ Stands(K, p)
    BY <1>2, StandsLater
  <2>3. Messages(b) = SubSeq(stream, k + 1, K) /\ Slice(Rest(b), K, p)
    <3> HIDE DEF p, k
    <3> QED BY <1>3, <1>5, <2>2, MessagesFacts DEF MessagesStep
  <2>4. /\ out' \in Seq(Kind) /\ Len(out') = K /\ out' \in Seq(Output) /\ ~Misread'
        /\ pos' \in 0 .. Len(Units') /\ before' \in 0 .. Len(Units') /\ before' <= pos'
        /\ AnswersExact' /\ ErrorsJustified'
    <3>1. pending' = <<>>
      BY <1>4, <2>1 DEF PythonHolds
    <3> QED BY <1>2, <2>1, <2>2, <2>3, <3>1, AnswerKeeps
  <2>5. Rest(b) \in Seq(Unit) /\ Len(Rest(b)) \in Nat /\ Len(Rest(b)) <= Len(b)
    <3>1. Len(b) = p - End[k] /\ Len(b) \in Nat
      BY <1>3, <1>5, SliceTyped
    <3>2. Rest(b) \in Seq(Unit) /\ Len(Rest(b)) \in Nat /\ Len(Rest(b)) = p - End[K]
      BY <1>3, <2>3, SliceTyped
    <3>3. End[k] <= End[K] /\ End[k] \in Nat /\ End[K] \in Nat
      <4>1. k \in 0 .. Len(stream) /\ K \in 0 .. Len(stream)
        BY <1>2, <2>2 DEF Given, Stands
      <4> QED BY <4>1, <1>3, <2>2, EndMonotone
    <3> QED BY <3>1, <3>2, <3>3, <1>3
  <2>6. TypeOK'
    <3>1. TypeOK
      BY DEF IInv
    <3> QED BY <3>1, <1>3, <2>1, <2>4, <2>5 DEF TypeOK
  <2>7. pending' = <<>> /\ ~engaged' /\ ~unknown' /\ ~failed'
    BY <1>3, <1>4, <2>1 DEF PythonHolds
  <2>8. Slice(buffer, Len(out), pos)'
    <3>1. (Slice(buffer, Len(out), pos))' <=> Slice(Rest(b), K, p)
      BY <1>3, <2>1, <2>4 DEF Slice
    <3> QED BY <3>1, <2>3
  <2>9. ReaderInv'
    BY <1>1, <1>3, <2>4, <2>7, <2>8 DEF ReaderInv, PythonHolds
  <2>10. BuffersExact'
    <3>1. BoundaryExact'
      BY <1>1, <1>3 DEF BoundaryExact
    <3>2. BufferCapped'
      <4>1. Len(buffer') <= MaxBuffer /\ Len(buffer') \in Nat
        <5>1. Len(b) \in Nat /\ MaxBuffer \in Nat
          BY <1>3, <1>5, SliceTyped, FramingAssumption DEF FramingAssumption
        <5> QED BY <5>1, <1>7, <2>1, <2>5
      <4>2. Len(pending') = 0
        BY <2>7
      <4> QED BY <4>1, <4>2 DEF BufferCapped
    <3> QED BY <3>1, <3>2 DEF BuffersExact
  <2> QED BY <2>4, <2>6, <2>9, <2>10 DEF IInv
<1> QED BY <1>6, <1>7

(* The unit of a slice is a unit of the stream. *)
LEMMA SliceAt ==
  ASSUME stream \in Seq(Kind), NEW b, NEW k, NEW p, Slice(b, k, p), NEW i \in Nat, 1 <= i,
         i <= Len(b)
  PROVE  b[i] = Units[End[k] + i]
<1>1. SliceShape(b, k, p)
  BY SliceFacts
<1>2. i \in 1 .. Len(b)
  BY <1>1 DEF SliceShape
<1> QED BY <1>1, <1>2 DEF SliceShape

(* The same of what begins at a later message. *)
LEMMA TooLongLater ==
  ASSUME NEW n, Given(n), NEW j, Len(out) <= j, NEW h, Slice(h, j, pos + n), Len(h) > MaxBuffer
  PROVE  Sent({"malformed", "huge"})
<1> DEFINE k == Len(out)
           p == pos + n
           b == SubSeq(Units, End[k] + 1, p)
<1>1. /\ stream \in Seq(Kind) /\ Stands(k, pos) /\ k \in Nat
      /\ p \in Nat /\ pos <= p
  BY DEF Given
<1>2. SliceShape(h, j, p) /\ StandsFacts(k, pos) /\ j \in 0 .. Len(stream)
  <2> HIDE DEF p
  <2>1. Slice(h, j, p)
    BY DEF p
  <2> QED BY <1>1, <2>1, SliceFacts, StandsOpened DEF Slice
<1>3. End[k] <= End[j] /\ k \in 0 .. Len(stream) /\ End[k] \in Nat /\ End[j] \in Nat
  <2>1. k \in 0 .. Len(stream)
    BY <1>2 DEF StandsFacts
  <2> QED BY <2>1, <1>1, <1>2, EndMonotone
<1>4. Slice(b, k, p)
  <2>1. p \in 0 .. End[Len(stream)] /\ End[k] <= p
    <3> HIDE DEF p
    <3> QED BY <1>1, <1>2, <1>3 DEF SliceShape, StandsFacts
  <2> QED BY <2>1, <1>3 DEF Slice
<1>5. Len(b) = p - End[k] /\ Len(b) \in Nat
  <2> HIDE DEF b, p
  <2> QED BY <1>1, <1>4, SliceTyped
<1>6. Len(h) = p - End[j] /\ Len(h) \in Nat /\ MaxBuffer \in Nat
  BY <1>2, FramingAssumption DEF SliceShape, FramingAssumption
<1>7. Len(b) > MaxBuffer
  <2> HIDE DEF b, p
  <2> QED BY <1>1, <1>3, <1>5, <1>6
<1> QED BY <1>4, <1>7, TooLong

(* What hiredis is given: whole messages follow the j-th, and its account is right. *)
HiredisGiven(given, lines, j, n) ==
    /\ engine = "hiredis" /\ j \in Nat /\ Len(out) <= j /\ j <= Len(stream)
    /\ Slice(pending \o given, j, pos + n)
    /\ given \in Seq(Unit) /\ Len(given) > 0
    /\ lines = SubSeq(stream, Len(out) + 1, j)
    /\ ~unknown /\ Straight => fed - consumed = Len(pending)
    /\ \A i \in Starts(pending \o given) : ~Marker((pending \o given)[i]) => Cause(n)

(* When the messages answered up to the K-th are without a simple string,  *)
(* so are those answered before, and any stretch of them.                  *)
LEMMA StraightStays ==
  ASSUME stream \in Seq(Kind), NEW k \in Nat, NEW j \in Nat, NEW K \in Nat, k <= K, j <= K,
         K <= Len(stream), out = SubSeq(stream, 1, k), out' = SubSeq(stream, 1, K),
         engine = "hiredis", engine' = engine, Straight'
  PROVE  /\ Straight
         /\ \A i \in DOMAIN SubSeq(stream, j + 1, K) : SubSeq(stream, j + 1, K)[i] # "simple"
<1>1. \A m \in 1 .. Len(stream) : stream[m] \in Kind
  OBVIOUS
<1>2. ASSUME NEW a \in Nat, NEW b \in Nat, a <= b, b <= Len(stream)
      PROVE  /\ DOMAIN SubSeq(stream, a + 1, b) = 1 .. b - a
             /\ \A i \in 1 .. b - a : SubSeq(stream, a + 1, b)[i] = stream[a + i]
  OBVIOUS
<1>3. /\ DOMAIN SubSeq(stream, 1, K) = 1 .. K
      /\ \A i \in 1 .. K : SubSeq(stream, 1, K)[i] = stream[i]
  OBVIOUS
<1>4. \A i \in 1 .. K : stream[i] # "simple"
  BY <1>3 DEF Straight
<1>5. /\ DOMAIN SubSeq(stream, 1, k) = 1 .. k
      /\ \A i \in 1 .. k : SubSeq(stream, 1, k)[i] = stream[i]
  OBVIOUS
<1>6. Straight
  <2>1. \A i \in DOMAIN out : out[i] # "simple"
    BY <1>4, <1>5
  <2> QED BY <2>1 DEF Straight
<1>7. \A i \in 1 .. K - j : j + i \in 1 .. K
  OBVIOUS
<1> QED BY <1>2, <1>4, <1>6, <1>7

(* What hiredis is given, it parses and accounts for. *)
LEMMA HiredisKeeps ==
  ASSUME IInv, NEW n, Given(n), NEW given, NEW lines, NEW j, HiredisGiven(given, lines, j, n),
         Hiredis(given, lines)
  PROVE  IInv'
<1> DEFINE h == pending \o given
           k == Len(out)
           p == pos + n
           messages == Messages(h)
           lost == unknown \/ \E i \in DOMAIN messages : messages[i] = "null"
           f == fed + Len(given)
           c == consumed + WireLength(messages)
           home == ~lost /\ Boundary(f, c)
           refused == \/ ~unknown /\ f - consumed > MaxBuffer
                      \/ Bad(h)
                      \/ \E i \in Starts(h) : ~Marker(h[i])
<1>1. /\ engine' = engine /\ stream' = stream /\ End' = End /\ Units' = Units /\ pos' = p
      /\ stream \in Seq(Kind) /\ n \in Nat /\ pos + n <= End[Len(stream)] /\ ~failed /\ pos \in Nat
      /\ k \in Nat /\ out = SubSeq(stream, 1, k) /\ Stands(k, pos) /\ 1 <= n
  BY DEF Given
<1>2. /\ engine = "hiredis" /\ j \in Nat /\ k <= j /\ j <= Len(stream)
      /\ Slice(h, j, p)
      /\ given \in Seq(Unit) /\ Len(given) > 0
      /\ lines = SubSeq(stream, k + 1, j)
      /\ ~unknown /\ Straight => fed - consumed = Len(pending)
      /\ \A i \in Starts(h) : ~Marker(h[i]) => Cause(n)
  BY DEF HiredisGiven
<1>3. /\ pending \in Seq(Unit) /\ fed \in Nat /\ consumed \in Nat
      /\ engaged \in BOOLEAN /\ unknown \in BOOLEAN /\ out \in Seq(Kind)
  BY DEF IInv, TypeOK, Given
<1>4. /\ refused => Raise
      /\ ~refused => /\ out' = out \o lines \o messages
                     /\ pending' = Rest(h)
                     /\ unknown' = lost
                     /\ engaged' = ~home
                     /\ fed' = (IF home THEN 0 ELSE f) /\ consumed' = (IF home THEN 0 ELSE c)
                     /\ buffer' = <<>>
                     /\ failed' = failed
  BY Zenon DEF Hiredis
<1>5. /\ Len(h) = Len(pending) + Len(given) /\ Len(pending) \in Nat /\ Len(given) \in Nat
      /\ Len(h) = p - End[j] /\ End[j] \in Nat /\ h \in Seq(Unit) /\ MaxBuffer \in Nat
  <2>1. Len(h) = Len(pending) + Len(given) /\ Len(pending) \in Nat /\ Len(given) \in Nat
    BY <1>2, <1>3
  <2>2. h \in Seq(Unit) /\ Len(h) = p - End[j] /\ End[j] \in Nat
    <3> HIDE DEF h, p
    <3> QED BY <1>1, <1>2, SliceFacts DEF SliceShape
  <2>3. MaxBuffer \in Nat
    BY FramingAssumption DEF FramingAssumption
  <2> QED BY <2>1, <2>2, <2>3
<1>6. CASE refused
  <2>1. Raise
    BY <1>4, <1>6
  <2>5. CASE ~Straight
    BY <2>1, <2>5, RaiseKeeps DEF Cause
  <2>2. CASE Straight /\ ~unknown /\ f - consumed > MaxBuffer
    <3>1. Len(h) > MaxBuffer
      <4>1. f - consumed = Len(h)
        BY <2>2, <1>2, <1>3, <1>5
      <4> QED BY <4>1, <2>2
    <3>2. SliceShape(h, j, p)
      <4> HIDE DEF h, p
      <4> QED BY <1>1, <1>2, SliceFacts
    <3>3. Sent({"malformed", "huge"})
      BY <1>1, <1>2, <3>1, TooLongLater
    <3> QED BY <2>1, <3>3, RaiseKeeps DEF Cause
  <2>3. CASE Bad(h)
    <3>1. Sent({"malformed"})
      <4> HIDE DEF h, p
      <4> QED BY <1>1, <1>2, <2>3, BadSent
    <3>2. Sent({"malformed", "huge"})
      BY <3>1 DEF Sent
    <3> QED BY <2>1, <3>2, RaiseKeeps DEF Cause
  <2>4. CASE \E i \in Starts(h) : ~Marker(h[i])
    <3>1. Cause(n)
      <4> HIDE DEF h
      <4> QED BY <2>4, <1>2
    <3> QED BY <2>1, <3>1, RaiseKeeps
  <2> QED BY <1>6, <2>2, <2>3, <2>4, <2>5
<1>7. CASE ~refused
  <2>1. /\ out' = out \o lines \o messages
        /\ pending' = Rest(h)
        /\ unknown' = lost
        /\ engaged' = ~home
        /\ fed' = (IF home THEN 0 ELSE f) /\ consumed' = (IF home THEN 0 ELSE c)
        /\ buffer' = <<>>
        /\ failed' = failed
    <3> HIDE DEF refused, lost, home, f, c, messages
    <3> QED BY <1>4, <1>7
  <2>2. PICK K \in Nat : j <= K /\ K <= Len(stream) /\ Stands(K, p)
    <3>1. /\ p \in 0 .. End[Len(stream)] /\ j \in 0 .. Len(stream) /\ End[j] <= p
      BY <1>2 DEF Slice
    <3>2. Len(stream) \in Nat
      BY <1>1, EndNat
    <3> HIDE DEF p
    <3>3. PICK K \in j .. Len(stream) : Stands(K, p)
      BY <1>1, <3>1, Located
    <3>4. K \in Nat /\ j <= K /\ K <= Len(stream)
      BY <3>1, <3>2, <3>3
    <3> QED BY <3>3, <3>4
  <2>3. messages = SubSeq(stream, j + 1, K) /\ Slice(Rest(h), K, p)
    <3>1. MessagesStep(h, j, p, K)
      <4>1. stream \in Seq(Kind) /\ Slice(h, j, p) /\ j <= K /\ Stands(K, p)
        BY <1>1, <1>2, <2>2
      <4> HIDE DEF h, p
      <4> QED BY <4>1, MessagesFacts
    <3> QED BY <3>1 DEF MessagesStep
  <2>4. Rest(h) \in Seq(Unit) /\ Len(Rest(h)) \in Nat /\ Len(Rest(h)) = p - End[K] /\ End[K] \in Nat
    <3> HIDE DEF h, p
    <3> QED BY <1>1, <2>3, SliceFacts DEF SliceShape
  <2>5. /\ WireLength(messages) \in Nat
        /\ ~lost /\ (\A i \in DOMAIN messages : messages[i] # "simple") =>
              WireLength(messages) = End[K] - End[j]
    <3>1. WireStep(j, K)
      BY <1>1, <1>2, <2>2, WireFacts
    <3> DEFINE ms == SubSeq(stream, j + 1, K)
    <3> HIDE DEF ms
    <3>2. /\ WireLength(ms) \in Nat
          /\ (\A i \in DOMAIN ms : ms[i] # "null" /\ ms[i] # "simple") =>
                 WireLength(ms) = End[K] - End[j]
      BY <3>1 DEF WireStep, ms
    <3>3. messages = ms
      BY <2>3 DEF ms
    <3> HIDE DEF messages
    <3> QED BY <3>2, <3>3
  <2> HIDE DEF messages, lost
  <2>6. /\ f \in Nat /\ c \in Nat /\ f > 0
        /\ ~lost /\ ~unknown /\ Straight /\ (\A i \in DOMAIN messages : messages[i] # "simple") =>
              f - c = Len(Rest(h))
    <3>1. f \in Nat /\ c \in Nat /\ f > 0
      BY <1>2, <1>3, <1>5, <2>5
    <3> DEFINE w == WireLength(messages)
               r == Len(Rest(h))
               d == fed - consumed
               q == Len(pending)
               g == Len(given)
               x == End[K]
               y == End[j]
    <3>2. f - c = d + (g - w)
      BY <1>3, <1>5, <2>5
    <3>3. /\ w \in Nat /\ x \in Nat /\ y \in Nat /\ q \in Nat /\ g \in Nat /\ d \in Int
          /\ p \in Nat /\ r = p - x /\ g = (p - y) - q
      BY <1>1, <1>3, <1>5, <2>4, <2>5
    <3>4. ASSUME ~lost, ~unknown, Straight, \A i \in DOMAIN messages : messages[i] # "simple"
          PROVE  f - c = r
      <4>1. d = q /\ w = x - y
        BY <1>2, <2>5, <3>4
      <4>2. d + (g - w) = r
        <5> HIDE DEF d, q, g, p, w, r, x, y
        <5> QED BY <3>3, <4>1
      <4> QED BY <3>2, <4>2
    <3> QED BY <3>1, <3>4
  <2>7. unknown => lost
    BY DEF lost
  <2>8. lost \in BOOLEAN /\ home \in BOOLEAN
    BY <1>3 DEF lost
  <2>9. home <=> ~lost /\ f = c
    BY <2>6 DEF Boundary
  <2> HIDE DEF home, f, c
  <2>11. out' = out \o SubSeq(stream, k + 1, K)
    <3>1. /\ k + 1 \in 1 .. Len(stream) + 1
          /\ j \in (k + 1) - 1 .. Len(stream) /\ K \in j .. Len(stream)
      <4>1. Len(stream) \in Nat
        BY <1>1, EndNat
      <4> QED BY <4>1, <1>1, <1>2, <2>2
    <3>2. lines \o messages = SubSeq(stream, k + 1, K)
      <4> HIDE DEF k
      <4>1. SubSeq(stream, k + 1, j) \o SubSeq(stream, j + 1, K) = SubSeq(stream, k + 1, K)
        BY <1>1, <3>1, ConcatAdjacentSubSeq
      <4> QED BY <4>1, <1>2, <2>3
    <3>3. lines \in Seq(Kind) /\ messages \in Seq(Kind)
      <4>1. \A i \in 1 .. Len(stream) : stream[i] \in Kind
        BY <1>1
      <4>2. SubSeq(stream, k + 1, j) \in Seq(Kind)
        <5>1. \A i \in k + 1 .. j : stream[i] \in Kind
          BY <4>1, <3>1
        <5>2. k + 1 \in Int /\ j \in Int
          BY <1>1, <1>2
        <5> HIDE DEF k
        <5> QED BY <5>1, <5>2, SubSeqProperties
      <4>3. SubSeq(stream, j + 1, K) \in Seq(Kind)
        <5>1. \A i \in j + 1 .. K : stream[i] \in Kind
          BY <4>1, <3>1
        <5>2. j + 1 \in Int /\ K \in Int
          BY <1>2, <2>2
        <5> QED BY <5>1, <5>2, SubSeqProperties
      <4> QED BY <4>2, <4>3, <1>2, <2>3
    <3>4. (out \o lines) \o messages = out \o (lines \o messages)
      <4> HIDE DEF k
      <4>1. \A s1, s2, s3 \in Seq(Kind) : (s1 \o s2) \o s3 = s1 \o (s2 \o s3)
        BY ConcatAssociative
      <4>2. out \in Seq(Kind) /\ lines \in Seq(Kind) /\ messages \in Seq(Kind)
        BY <1>3, <3>3
      <4> QED BY <4>1, <4>2, Zenon
    <3> QED BY <2>1, <3>2, <3>4, Zenon
  <2>12. /\ out' \in Seq(Kind) /\ Len(out') = K /\ out' = SubSeq(stream, 1, K)
         /\ out' \in Seq(Output) /\ ~Misread'
         /\ pos' \in 0 .. Len(Units') /\ before' \in 0 .. Len(Units') /\ before' <= pos'
         /\ AnswersExact' /\ ErrorsJustified'
    <3>1. Len(out) <= K /\ out' = out \o SubSeq(stream, Len(out) + 1, K)
      BY <2>11, <2>2, <1>2, <1>1
    <3> QED BY <3>1, <2>1, <2>2, AnswerKeeps
  <2>13. fed' \in Nat /\ consumed' \in Nat
    BY <2>1, <2>6
  <2>20. Straight' => Straight /\ \A i \in DOMAIN messages : messages[i] # "simple"
    <3>1. ASSUME Straight'
          PROVE  Straight /\ \A i \in DOMAIN SubSeq(stream, j + 1, K) : SubSeq(stream, j + 1, K)[i] # "simple"
      <4> HIDE DEF k
      <4>1. k <= K /\ k \in Nat
        BY <1>1, <1>2, <2>2
      <4>2. out = SubSeq(stream, 1, k)
        BY <1>1
      <4> QED BY <4>1, <4>2, <3>1, <1>1, <1>2, <2>2, <2>12, StraightStays
    <3> QED BY <3>1, <2>3
  <2>21. ~lost /\ Straight' => f - c = Len(Rest(h))
    BY <2>6, <2>7, <2>20
  <2>10. home /\ Straight' => Rest(h) = <<>>
    <3>1. home /\ Straight' => Len(Rest(h)) = 0
      <4> HIDE DEF h
      <4> QED BY <2>4, <2>6, <2>9, <2>21
    <3> HIDE DEF h
    <3>2. Len(Rest(h)) = 0 => Rest(h) = <<>>
      BY <2>4, EmptySeq
    <3> QED BY <3>1, <3>2
  <2>14. TypeOK'
    <3>1. TypeOK
      BY DEF IInv
    <3>2. engaged' \in BOOLEAN /\ unknown' \in BOOLEAN
      BY <2>1, <2>8
    <3>3. buffer' \in Seq(Unit)
      BY <2>1
    <3>4. pending' \in Seq(Unit)
      BY <2>1, <2>4
    <3>5. engine' \in {"python", "hiredis"} /\ stream' \in Seq(Kind) /\ failed' \in BOOLEAN
      BY <3>1, <1>1, <2>1 DEF TypeOK
    <3> QED BY <3>2, <3>3, <3>4, <3>5, <2>12, <2>13 DEF TypeOK
  <2>15. Slice(pending, Len(out), pos)'
    <3>1. (Slice(pending, Len(out), pos))' <=> Slice(Rest(h), K, p)
      BY <1>1, <2>1, <2>12 DEF Slice
    <3> QED BY <3>1, <2>3
  <2>16. ~engaged' => IF pending' = <<>> THEN LinesHold' ELSE HiredisLeft'
    <3> SUFFICES ASSUME home PROVE IF pending' = <<>> THEN LinesHold' ELSE HiredisLeft'
      BY <2>1, <2>8
    <3>1. /\ buffer' = <<>> /\ fed' = 0 /\ consumed' = 0 /\ ~unknown'
          /\ pending' # <<>> => ~Straight'
      BY <2>1, <2>9, <2>10
    <3>2. CASE pending' = <<>>
      <4>1. Slice(buffer, Len(out), pos)'
        BY <2>15, <3>1, <3>2
      <4> QED BY <3>1, <3>2, <4>1 DEF LinesHold
    <3>3. CASE pending' # <<>>
      BY <2>15, <3>1, <3>3 DEF HiredisLeft
    <3> QED BY <3>2, <3>3
  <2>17. engaged' => HiredisHolds'
    <3> SUFFICES ASSUME ~home PROVE HiredisHolds'
      BY <2>1, <2>8
    <3>1. buffer' = <<>> /\ fed' = f /\ consumed' = c /\ pending' = Rest(h) /\ unknown' = lost
      BY <2>1
    <3>3. ASSUME ~unknown', Straight' PROVE fed' - consumed' = Len(pending') /\ pending' # <<>>
      <4>1. ~lost /\ ~unknown
        BY <3>1, <3>3, <2>7
      <4>2. f - c = Len(Rest(h)) /\ f # c
        BY <4>1, <3>3, <2>21, <2>9
      <4>3. Rest(h) # <<>>
        <5>1. Len(Rest(h)) # 0
          BY <4>2, <2>6
        <5> HIDE DEF h
        <5> QED BY <5>1, EmptySeq
      <4> QED BY <4>2, <4>3, <3>1
    <3>4. ASSUME pending' # <<>> PROVE ~NextIsLine'
      <4>1. PICK i \in Starts(h) : K < Len(stream) /\ h[i].kind = stream[K + 1]
        <5>1. Rest(h) # <<>>
          BY <3>1, <3>4
        <5> HIDE DEF h, p
        <5> QED BY <5>1, <1>1, <1>2, <2>2, RestBegins
      <4>2. Marker(h[i])
        <5> HIDE DEF h
        <5> QED BY <1>7, <4>1
      <4> QED BY <4>1, <4>2, <1>1, <2>12 DEF NextIsLine, Marker
    <3> QED BY <2>15, <3>1, <3>3, <3>4 DEF HiredisHolds
  <2>18. ReaderInv'
    BY <1>1, <1>2, <2>12, <2>16, <2>17 DEF ReaderInv
  <2>19. BuffersExact'
    <3>1. BoundaryExact'
      <4>1. ~engaged' /\ Straight' => pending' = <<>>
        BY <2>16 DEF HiredisLeft
      <4>2. engaged' /\ ~unknown' /\ Straight' => pending' # <<>>
        BY <2>17 DEF HiredisHolds
      <4> QED BY <4>1, <4>2, <2>1, <2>8 DEF BoundaryExact
    <3>2. BufferCapped'
      <4> SUFFICES ASSUME ~unknown', Straight' PROVE Len(buffer') + Len(pending') <= MaxBuffer
        BY DEF BufferCapped
      <4>1. ~unknown /\ Straight
        BY <2>1, <2>7, <2>20
      <4>2. fed + Len(given) - consumed <= MaxBuffer
        <5>1. ~(f - consumed > MaxBuffer)
          BY <1>7, <4>1
        <5> QED BY <5>1, <1>3, <1>5 DEF f
      <4>3. Len(Rest(h)) <= Len(h)
        <5>1. End[j] <= End[K]
          <6>1. j \in 0 .. Len(stream) /\ K \in 0 .. Len(stream)
            BY <1>2, <2>2 DEF Slice, Stands
          <6> QED BY <6>1, <1>1, <2>2, EndMonotone
        <5> QED BY <5>1, <1>1, <1>5, <2>4
      <4>4. fed + Len(given) - consumed = Len(h)
        BY <4>1, <1>2, <1>3, <1>5
      <4>5. Len(buffer') = 0
        BY <2>1
      <4> QED BY <4>2, <4>3, <4>4, <4>5, <2>1, <1>5, <2>4
    <3> QED BY <3>1, <3>2 DEF BuffersExact
  <2> QED BY <2>12, <2>14, <2>18, <2>19 DEF IInv
<1> QED BY <1>6, <1>7

(* A chunk of n units has n units. *)
LEMMA ChunkFacts ==
  ASSUME NEW n \in Nat, 1 <= n, stream \in Seq(Kind), pos \in Nat, pos + n <= End[Len(stream)]
  PROVE  Chunk(n) \in Seq(Unit) /\ Len(Chunk(n)) = n /\ Len(Chunk(n)) \in Nat
<1>1. /\ stream \in Seq(Kind) /\ n \in Nat /\ 1 <= n /\ pos \in Nat /\ pos + n <= End[Len(stream)]
  OBVIOUS
<1>2. Units \in Seq(Unit) /\ Len(Units) = End[Len(stream)]
  BY <1>1, UnitsFacts DEF UnitsSpell
<1>3. End[Len(stream)] \in Nat
  <2>1. Len(stream) \in Nat /\ Len(stream) \in 0 .. Len(stream)
    BY <1>1, EndNat
  <2> QED BY <2>1, <1>1, EndNat
<1>4. \A i \in pos + 1 .. pos + n : Units[i] \in Unit
  BY <1>1, <1>2, <1>3
<1>5. pos + 1 \in Int /\ pos + n \in Int
  BY <1>1
<1> DEFINE c == SubSeq(Units, pos + 1, pos + n)
<1>6. /\ c \in Seq(Unit)
      /\ Len(c) = IF pos + 1 <= pos + n THEN (pos + n) - (pos + 1) + 1 ELSE 0
  BY <1>4, <1>5, SubSeqProperties
<1>7. Len(c) = n
  <2> HIDE DEF c
  <2> QED BY <1>1, <1>6
<1>8. Chunk(n) = c
  BY DEF Chunk
<1> QED BY <1>1, <1>6, <1>7, <1>8

(* A message that begins at unit i of what follows the k-th, in this chunk. *)
LEMMA BeginsInChunk ==
  ASSUME NEW n, Given(n), NEW h, NEW m \in Nat, Slice(h, m, pos + n), NEW j, NEW i,
         Beginning(h, m, j, i), Len(out) <= m, j = Len(out) => pos = End[Len(out)]
  PROVE  /\ End[j] \in Nat /\ End[j] + 1 \in pos + 1 .. pos + n
         /\ Units[End[j] + 1] = h[i]
<1> DEFINE k == Len(out)
           p == pos + n
<1>1. /\ stream \in Seq(Kind) /\ n \in Nat /\ pos \in Nat /\ p \in Nat /\ k \in Nat
  BY DEF Given
<1>2. /\ j \in Nat /\ m <= j /\ j < Len(stream) /\ i = End[j] - End[m] + 1
      /\ i \in Nat /\ 1 <= i /\ i <= Len(h)
  BY DEF Beginning
<1>3. SliceShape(h, m, p)
  <2> HIDE DEF p
  <2>1. Slice(h, m, p)
    BY DEF p
  <2> QED BY <1>1, <2>1, SliceFacts
<1>4. End[m] \in Nat /\ Len(h) = p - End[m]
  BY <1>3 DEF SliceShape
<1>5. pos <= End[j] /\ End[j] \in Nat
  <2>1. j \in Int /\ k <= j
    BY <1>1, <1>2
  <2> QED BY <2>1, <1>2, FreshStart
<1>6. End[m] + i = End[j] + 1 /\ End[j] + 1 <= p
  <2> DEFINE e == End[m]
             f == End[j]
             l == Len(h)
  <2>1. e \in Nat /\ f \in Nat /\ p \in Nat /\ i \in Nat /\ l = p - e /\ i = f - e + 1 /\ i <= l
    BY <1>1, <1>2, <1>4, <1>5
  <2> HIDE DEF e, f, l, p
  <2>2. e + i = f + 1 /\ f + 1 <= p
    BY <2>1
  <2> QED BY <2>2 DEF e, f
<1>7. h[i] = Units[End[m] + i]
  <2> HIDE DEF p
  <2>1. Slice(h, m, p)
    BY DEF p
  <2> QED BY <1>1, <1>2, <2>1, SliceAt
<1> QED BY <1>1, <1>5, <1>6, <1>7

(* While hiredis is engaged, all that arrives goes to it. *)
LEMMA HiredisTakes ==
  ASSUME IInv, NEW n, Given(n), engine = "hiredis", engaged
  PROVE  HiredisGiven(Chunk(n), <<>>, Len(out), n)
<1> DEFINE k == Len(out)
           p == pos + n
           h == pending \o Chunk(n)
<1>1. /\ stream \in Seq(Kind) /\ n \in Nat /\ 1 <= n /\ pos \in Nat /\ p \in Nat /\ k \in Nat /\ ~failed
      /\ pos + n <= End[Len(stream)] /\ Stands(k, pos)
  BY DEF Given
<1>2. HiredisHolds
  BY <1>1 DEF IInv, ReaderInv, Given
<1>3. Slice(h, k, p)
  <2> HIDE DEF k
  <2>1. Slice(pending, k, pos)
    BY <1>2 DEF HiredisHolds, k
  <2> QED BY <2>1, <1>1, SliceGrows DEF Chunk
<1>4. StandsFacts(k, pos)
  BY <1>1, StandsOpened
<1>5. <<>> = SubSeq(stream, k + 1, k)
  <2> HIDE DEF k
  <2> QED BY <1>1, SubSeqEmpty
<1>6. Chunk(n) \in Seq(Unit) /\ Len(Chunk(n)) > 0
  BY <1>1, ChunkFacts
<1>7. ~unknown /\ Straight => fed - consumed = Len(pending)
  BY <1>2 DEF HiredisHolds
<1>8. ASSUME NEW i \in Starts(h), ~Marker(h[i])
      PROVE  Cause(n)
  <2> HIDE DEF h, p
  <2>1. PICK j \in Nat : Beginning(h, k, j, i)
    BY <1>1, <1>3, <1>8, StartsAreBeginnings
  <2>2. k <= j /\ j < Len(stream) /\ h[i].kind = stream[j + 1] /\ h[i].first
    BY <2>1 DEF Beginning
  <2>3. h[i].kind = "inline" /\ stream[j + 1] = "inline"
    BY <2>2, <1>8 DEF Marker
  <2>4. ASSUME j = k PROVE pos = End[k]
    <3>1. NextIsLine
      BY <2>3, <2>4 DEF NextIsLine
    <3>2. pending = <<>>
      BY <3>1, <1>2 DEF HiredisHolds
    <3>3. Len(pending) = pos - End[k]
      <4>1. Slice(pending, k, pos)
        BY <1>2 DEF HiredisHolds
      <4> QED BY <4>1, <1>1, SliceTyped
    <3>4. Len(pending) = 0
      BY <3>2
    <3>5. End[k] \in Nat
      BY <1>4 DEF StandsFacts
    <3> QED BY <3>3, <3>4, <3>5, <1>1
  <2>5. /\ End[j] + 1 \in pos + 1 .. pos + n
        /\ Units[End[j] + 1] = h[i]
    <3>1. Slice(h, k, pos + n)
      BY <1>3 DEF p
    <3>2. k <= k /\ k \in Nat
      BY <1>1
    <3> QED BY <3>1, <3>2, <2>1, <2>4, BeginsInChunk
  <2>6. CASE Straight
    <3>1. pending # <<>> \/ unknown
      BY <2>6, <1>2 DEF HiredisHolds
    <3>2. LineRefused(n)
      BY <3>1, <2>2, <2>3, <2>5 DEF LineRefused
    <3> QED BY <3>2 DEF Cause
  <2>7. CASE ~Straight
    BY <2>7 DEF Cause
  <2> QED BY <2>6, <2>7
<1>9. k \in Nat /\ k <= k /\ k <= Len(stream)
  BY <1>1, <1>4 DEF StandsFacts
<1> QED BY <1>3, <1>5, <1>6, <1>7, <1>8, <1>9 DEF HiredisGiven

(* hiredis gets what follows the part of a message it was left with. *)
LEMMA HiredisRejoins ==
  ASSUME IInv, NEW n, Given(n), engine = "hiredis", HiredisLeft
  PROVE  HiredisGiven(Chunk(n), <<>>, Len(out), n)
<1> DEFINE k == Len(out)
<1>1. /\ stream \in Seq(Kind) /\ n \in Nat /\ 1 <= n /\ pos \in Nat /\ k \in Nat
      /\ pos + n <= End[Len(stream)] /\ Stands(k, pos)
  BY DEF Given
<1>2. Slice(pending \o Chunk(n), k, pos + n)
  <2> HIDE DEF k
  <2>1. Slice(pending, k, pos)
    BY DEF HiredisLeft, k
  <2> QED BY <2>1, <1>1, SliceGrows DEF Chunk
<1>3. <<>> = SubSeq(stream, k + 1, k)
  <2> HIDE DEF k
  <2> QED BY <1>1, SubSeqEmpty
<1>4. Chunk(n) \in Seq(Unit) /\ Len(Chunk(n)) > 0
  BY <1>1, ChunkFacts
<1>5. ~Straight /\ Cause(n)
  BY DEF HiredisLeft, Cause
<1>6. k <= Len(stream)
  BY <1>1, StandsOpened DEF StandsFacts
<1> QED BY <1>1, <1>2, <1>3, <1>4, <1>5, <1>6 DEF HiredisGiven

(* At a boundary, hiredis gets what follows the command lines. *)
LEMMA LinesGive ==
  ASSUME IInv, NEW n, Given(n), engine = "hiredis", ~engaged, pending = <<>>,
         NEW b, b = buffer \o Chunk(n), InlineEnd(b) < Len(b)
  PROVE  \E j \in Nat : HiredisGiven(SubSeq(b, InlineEnd(b) + 1, Len(b)),
                                     Messages(SubSeq(b, 1, InlineEnd(b))), j, n)
<1> DEFINE k == Len(out)
           p == pos + n
<1>1. /\ stream \in Seq(Kind) /\ n \in Nat /\ 1 <= n /\ pos \in Nat /\ p \in Nat /\ k \in Nat /\ ~failed
      /\ pos + n <= End[Len(stream)] /\ Stands(k, pos)
  BY DEF Given
<1>2. LinesHold
  BY <1>1 DEF IInv, ReaderInv, Given
<1>3. Slice(b, k, p)
  <2> HIDE DEF k
  <2>1. Slice(buffer, k, pos)
    BY <1>2 DEF LinesHold, k
  <2> QED BY <2>1, <1>1, SliceGrows DEF Chunk
<1>4. StandsFacts(k, pos)
  BY <1>1, StandsOpened
<1>5. SliceShape(b, k, p)
  <2> HIDE DEF p
  <2> QED BY <1>1, <1>3, SliceFacts
<1>6. PICK j \in Nat : /\ k <= j /\ j < Len(stream) /\ End[j] < p
                       /\ InlineEnd(b) = End[j] - End[k]
                       /\ stream[j + 1] # "inline"
  <2> HIDE DEF p
  <2>1. InlineStep(b, k, p)
    BY <1>1, <1>3, InlineFacts
  <2>2. InlineEnd(b) # Len(b)
    BY <1>5, InlineEnd(b) < Len(b) DEF SliceShape
  <2> QED BY <2>1, <2>2 DEF InlineStep
<1> DEFINE e == End[j] - End[k]
           given == SubSeq(b, e + 1, Len(b))
           lines == SubSeq(b, 1, e)
<1>7. /\ End[k] \in Nat /\ End[j] \in Nat /\ End[j] <= End[Len(stream)] /\ End[k] <= End[j]
      /\ j \in Int /\ j <= Len(stream) /\ Len(b) = p - End[k] /\ k \in 0 .. Len(stream)
      /\ j \in 0 .. Len(stream) /\ End[j] <= p
  <2>1. k \in 0 .. Len(stream) /\ j \in 0 .. Len(stream) /\ Len(stream) \in 0 .. Len(stream)
        /\ j \in Int /\ j <= Len(stream) /\ k <= j
    BY <1>1, <1>4, <1>6 DEF StandsFacts
  <2>2. End[k] <= End[j] /\ End[k] \in Nat /\ End[j] \in Nat /\ End[j] <= End[Len(stream)]
    BY <1>1, <2>1, EndMonotone
  <2>3. End[j] <= p
    <3> HIDE DEF p
    <3> QED BY <2>2, <1>1, <1>6
  <2> QED BY <2>1, <2>2, <2>3, <1>5 DEF SliceShape
<1>8. Slice(given, j, p) /\ Slice(lines, k, End[j])
  <2> HIDE DEF p, k
  <2> QED BY <1>1, <1>3, <1>6, <1>7, SliceTail, SliceFront
<1>9. Messages(lines) = SubSeq(stream, k + 1, j)
  <2>1. Stands(j, End[j])
    <3>1. End[j] < End[j + 1]
      BY <1>1, <1>6, <1>7, EndNext
    <3> QED BY <3>1, <1>7 DEF Stands
  <2>2. MessagesStep(lines, k, End[j], j)
    <3> HIDE DEF lines, k
    <3> QED BY <2>1, <1>1, <1>6, <1>8, MessagesFacts
  <2> QED BY <2>2 DEF MessagesStep
<1>10. given \in Seq(Unit) /\ Len(given) > 0
  <2>1. given \in Seq(Unit) /\ Len(given) = p - End[j]
    <3> HIDE DEF given, p
    <3> QED BY <1>1, <1>8, SliceTyped
  <2>2. p - End[j] > 0
    <3> HIDE DEF p
    <3> QED BY <1>1, <1>6, <1>7
  <2> QED BY <2>1, <2>2
<1>11. pending = <<>> /\ pending \o given = given /\ fed = 0 /\ consumed = 0
  <2>1. pending = <<>> /\ fed = 0 /\ consumed = 0
    BY <1>2 DEF LinesHold
  <2> HIDE DEF given
  <2>2. <<>> \o given = given
    BY <1>10, ConcatEmptySeq
  <2> QED BY <2>1, <2>2
<1>12. ASSUME NEW i \in Starts(given), ~Marker(given[i])
       PROVE  Cause(n)
  <2> HIDE DEF given, p
  <2>1. PICK l \in Nat : Beginning(given, j, l, i)
    BY <1>1, <1>8, <1>12, StartsAreBeginnings
  <2>2. /\ j <= l /\ l < Len(stream) /\ given[i].kind = stream[l + 1] /\ given[i].first
    BY <2>1 DEF Beginning
  <2>3. given[i].kind = "inline" /\ stream[l + 1] = "inline"
    BY <2>2, <1>12 DEF Marker
  <2>4. j < l
    <3>1. j # l
      BY <2>3, <1>6
    <3> QED BY <3>1, <2>2, <1>7
  <2>5. Slice(given, j, pos + n)
    BY <1>8 DEF p
  <2>6. /\ End[l] + 1 \in pos + 1 .. pos + n /\ End[l] \in Nat
        /\ Units[End[l] + 1] = given[i]
    <3>1. k <= j /\ l # k
      BY <1>1, <1>6, <2>4
    <3> QED BY <3>1, <2>1, <2>5, BeginsInChunk
  <2>7. ASSUME j = k PROVE pos = End[k]
    <3>1. ~NextIsLine
      BY <2>7, <1>6 DEF NextIsLine
    <3>2. buffer = <<>>
      BY <3>1, <1>2 DEF LinesHold
    <3>3. Len(buffer) = pos - End[k]
      <4>1. Slice(buffer, k, pos)
        BY <1>2 DEF LinesHold
      <4> QED BY <4>1, <1>1, SliceTyped
    <3>4. Len(buffer) = 0
      BY <3>2
    <3>5. End[k] \in Nat /\ pos \in Nat
      BY <1>1, <1>7
    <3> QED BY <3>3, <3>4, <3>5
  <2>8. Beginning(given, j, j, 1) /\ 1 \in Starts(given)
    <3>1. /\ End[j] - End[j] + 1 \in Starts(given)
          /\ Beginning(given, j, j, End[j] - End[j] + 1)
      <4>1. j <= j /\ j \in Int
        BY <1>7
      <4> QED BY <4>1, <1>1, <1>6, <1>8, BeginningsAreStarts
    <3>2. End[j] - End[j] + 1 = 1
      BY <1>7
    <3> QED BY <3>1, <3>2
  <2>9. /\ End[j] + 1 \in pos + 1 .. pos + n
        /\ Units[End[j] + 1] = given[1]
    BY <2>5, <2>7, <2>8, <1>6, BeginsInChunk
  <2>10. Marker(Units[End[j] + 1])
    <3>1. given[1].kind = stream[j + 1] /\ given[1].first
      BY <2>8 DEF Beginning
    <3> QED BY <3>1, <2>9, <1>6 DEF Marker
  <2>11. End[j] < End[l]
    <3>1. j \in 0 .. Len(stream) /\ l \in 0 .. Len(stream)
      BY <1>7, <2>2
    <3> QED BY <3>1, <2>4, <1>1, EndFacts DEF EndsRise
  <2>12. End[j] + 1 \in pos + 1 .. (End[l] + 1) - 1
    <3> DEFINE x == End[j]
               y == End[l]
    <3>1. x \in Nat /\ y \in Nat /\ pos + 1 <= x + 1 /\ x < y /\ pos \in Nat
      BY <2>6, <2>9, <2>11, <1>1, <1>7
    <3>2. x + 1 \in pos + 1 .. (y + 1) - 1
      <4> HIDE DEF x, y
      <4> QED BY <3>1
    <3> QED BY <3>2
  <2>13. LineRefused(n)
    BY <2>2, <2>3, <2>6, <2>10, <2>12 DEF LineRefused
  <2> QED BY <2>13, engine = "hiredis" DEF Cause
<1>13. HiredisGiven(given, Messages(lines), j, n)
  <2>1. fed - consumed = Len(pending)
    BY <1>11
  <2>2. Slice(pending \o given, j, pos + n)
    BY <1>8, <1>11
  <2>3. \A i \in Starts(pending \o given) : ~Marker((pending \o given)[i]) => Cause(n)
    <3> HIDE DEF given
    <3> QED BY <1>11, <1>12
  <2> HIDE DEF given, lines
  <2> QED BY <2>1, <2>2, <2>3, <1>6, <1>7, <1>9, <1>10 DEF HiredisGiven
<1> QED BY <1>6, <1>13

(* Command lines and nothing else: they are answered where they arrive. *)
LEMMA LinesKeep ==
  ASSUME IInv, NEW n, Given(n), engine = "hiredis", ~engaged, pending = <<>>,
         NEW b, b = buffer \o Chunk(n), Len(b) <= MaxBuffer,
         \A i \in Starts(b) : ~Marker(b[i]),
         out' = out \o Messages(b), buffer' = Rest(b),
         UNCHANGED <<failed, pending, engaged, unknown, fed, consumed>>
  PROVE  IInv'
<1> DEFINE k == Len(out)
           p == pos + n
<1>1. /\ engine' = engine /\ stream' = stream /\ End' = End /\ Units' = Units /\ pos' = p
      /\ stream \in Seq(Kind) /\ n \in Nat /\ pos + n <= End[Len(stream)] /\ ~failed /\ pos \in Nat
      /\ p \in Nat /\ Stands(k, pos) /\ k \in Nat
  BY DEF Given
<1>2. LinesHold
  BY <1>1 DEF IInv, ReaderInv, Given
<1>3. Slice(b, k, p)
  <2> HIDE DEF k
  <2>1. Slice(buffer, k, pos)
    BY <1>2 DEF LinesHold, k
  <2> QED BY <2>1, <1>1, SliceGrows DEF Chunk
<1>4. /\ failed' = failed /\ pending' = pending /\ engaged' = engaged /\ unknown' = unknown
      /\ fed' = fed /\ consumed' = consumed
  OBVIOUS
<1>5. PICK K \in Nat : k <= K /\ K <= Len(stream) /\ Stands(K, p)
  BY StandsLater
<1>6. Messages(b) = SubSeq(stream, k + 1, K) /\ Slice(Rest(b), K, p)
  <2>1. MessagesStep(b, k, p, K)
    <3> HIDE DEF p, k
    <3> QED BY <1>1, <1>3, <1>5, MessagesFacts
  <2> QED BY <2>1 DEF MessagesStep
<1>7. /\ out' \in Seq(Kind) /\ Len(out') = K /\ out' \in Seq(Output) /\ ~Misread'
      /\ pos' \in 0 .. Len(Units') /\ before' \in 0 .. Len(Units') /\ before' <= pos'
      /\ AnswersExact' /\ ErrorsJustified'
  BY <1>4, <1>5, <1>6, AnswerKeeps
<1>8. Rest(b) \in Seq(Unit) /\ Len(Rest(b)) \in Nat /\ Len(Rest(b)) <= Len(b) /\ Len(b) \in Nat
  <2>1. Len(b) = p - End[k] /\ Len(b) \in Nat
    BY <1>1, <1>3, SliceTyped
  <2>2. Rest(b) \in Seq(Unit) /\ Len(Rest(b)) \in Nat /\ Len(Rest(b)) = p - End[K]
    BY <1>1, <1>6, SliceTyped
  <2>3. End[k] <= End[K] /\ End[k] \in Nat /\ End[K] \in Nat
    <3>1. k \in 0 .. Len(stream) /\ K \in 0 .. Len(stream)
      BY <1>1, <1>5 DEF Stands
    <3> QED BY <3>1, <1>1, <1>5, EndMonotone
  <2> QED BY <2>1, <2>2, <2>3, <1>1
<1>9. TypeOK'
  <2>1. TypeOK
    BY DEF IInv
  <2> QED BY <2>1, <1>1, <1>4, <1>7, <1>8 DEF TypeOK
<1>10. /\ ~failed' /\ engine' = "hiredis" /\ ~engaged'
       /\ pending' = <<>> /\ ~unknown' /\ fed' = 0 /\ consumed' = 0
  BY <1>1, <1>2, <1>4 DEF LinesHold
<1>11. Slice(buffer, Len(out), pos)'
  <2>1. (Slice(buffer, Len(out), pos))' <=> Slice(Rest(b), K, p)
    BY <1>1, <1>7 DEF Slice
  <2> QED BY <2>1, <1>6
<1>12. ASSUME buffer' # <<>> PROVE NextIsLine'
  <2>1. Rest(b) # <<>>
    BY <1>12
  <2>2. PICK i \in Starts(b) : b[i].kind = stream[K + 1] /\ b[i].first
    <3> HIDE DEF p, k
    <3> QED BY <2>1, <1>1, <1>3, <1>5, RestBegins
  <2>3. ~Marker(b[i])
    BY <2>2
  <2>4. stream[K + 1] = "inline"
    BY <2>2, <2>3 DEF Marker
  <2> QED BY <2>4, <1>1, <1>7 DEF NextIsLine
<1>13. LinesHold'
  BY <1>10, <1>11, <1>12 DEF LinesHold
<1>14. ReaderInv'
  BY <1>7, <1>10, <1>13 DEF ReaderInv
<1>15. BuffersExact'
  <2>1. BoundaryExact'
    BY <1>10 DEF BoundaryExact
  <2>2. BufferCapped'
    <3>1. MaxBuffer \in Nat
      BY FramingAssumption DEF FramingAssumption
    <3>2. Len(buffer') <= MaxBuffer /\ Len(buffer') \in Nat
      BY <3>1, <1>8
    <3>3. Len(pending') = 0
      BY <1>10
    <3> QED BY <3>2, <3>3 DEF BufferCapped
  <2> QED BY <2>1, <2>2 DEF BuffersExact
<1> QED BY <1>7, <1>9, <1>14, <1>15 DEF IInv

(* A step into, or within, misreading: the account had drifted before.     *)
LEMMA MisreadKeeps ==
  ASSUME IInv, NEW n \in 1 .. MaxChunk, Arrives(n), engine = "hiredis", ~Straight,
         ~engaged, ~unknown,
         out' = out \/ out' = Append(out, "stray"), Misread',
         buffer' \in Seq(Unit), UNCHANGED <<pending, engaged, unknown, fed, consumed>>,
         failed' \in BOOLEAN
  PROVE  IInv'
<1>1. TypeOK /\ AnswersExact
  BY DEF IInv
<1>2. /\ ~failed /\ pos + n <= Len(Units) /\ pos' = pos + n /\ before' = pos
      /\ engine' = engine /\ stream' = stream /\ n \in Nat /\ 1 <= n
  BY FramingAssumption DEF Arrives, FramingAssumption
<1>3. End' = End /\ Units' = Units
  BY <1>2, StreamKept
<1>4. pos \in Nat /\ Len(Units) \in Nat
  <2>1. stream \in Seq(Kind) /\ pos \in 0 .. Len(Units)
    BY <1>1 DEF TypeOK
  <2>2. Len(stream) \in 0 .. Len(stream)
    BY <2>1, EndNat
  <2> QED BY <2>1, <2>2, EndNat, UnitsFacts DEF UnitsSpell
<1>5. pos' \in 0 .. Len(Units') /\ before' \in 0 .. Len(Units') /\ before' <= pos'
  BY <1>2, <1>3, <1>4
<1>6. out \in Seq(Output) /\ out' \in Seq(Output) /\ \A i \in DOMAIN out : i \in DOMAIN out' /\ out'[i] = out[i]
  <2>1. out \in Seq(Output) /\ "stray" \in Output
    BY <1>1 DEF TypeOK, Output
  <2>2. Append(out, "stray") \in Seq(Output) /\ \A i \in DOMAIN out : i \in DOMAIN Append(out, "stray") /\ Append(out, "stray")[i] = out[i]
    <3> HIDE DEF Output
    <3> QED BY <2>1
  <2> QED BY <2>1, <2>2
<1>7. ~Straight'
  BY <1>2, <1>6 DEF Straight
<1>8. TypeOK'
  BY <1>1, <1>2, <1>5, <1>6 DEF TypeOK
<1>9. AnswersExact'
  BY <1>7 DEF AnswersExact
<1>10. BuffersExact' /\ ErrorsJustified'
  BY <1>7 DEF BuffersExact, BoundaryExact, BufferCapped, ErrorsJustified
<1>11. ReaderInv'
  BY <1>2, <1>5 DEF ReaderInv
<1> QED BY <1>8, <1>9, <1>10, <1>11 DEF IInv

(* The hiredis engine with bytes before it that are being misread. *)
LEMMA MisreadGoesOn ==
  ASSUME IInv, NEW n \in 1 .. MaxChunk, FeedHiredis(n), Misread
  PROVE  IInv'
<1> DEFINE b == buffer \o Chunk(n)
<1>1. engine = "hiredis" /\ Arrives(n) /\ ~Strayed /\ ~failed
  BY DEF FeedHiredis, Arrives
<1>2. ~engaged /\ ~unknown /\ ~Straight /\ buffer # <<>> /\ pending # <<>>
  BY <1>1 DEF IInv, ReaderInv, AnswersExact, Misread
<1>3. b \in Seq(Unit) /\ b # <<>> /\ buffer \in Seq(Unit) /\ failed \in BOOLEAN
  <2>1. stream \in Seq(Kind) /\ pos \in Nat /\ buffer \in Seq(Unit) /\ pos + n <= Len(Units)
        /\ n \in Nat /\ 1 <= n
    BY <1>1, FramingAssumption DEF IInv, TypeOK, Arrives, FramingAssumption
  <2>2. Len(Units) = End[Len(stream)]
    BY <2>1, UnitsFacts DEF UnitsSpell
  <2>3. Chunk(n) \in Seq(Unit)
    BY <2>1, <2>2, ChunkFacts
  <2> QED BY <2>1, <2>3, <1>2 DEF IInv, TypeOK
<1> HIDE DEF b
<1>4. \/ Raise
      \/ buffer' = b /\ UNCHANGED <<out, failed, pending, engaged, unknown, fed, consumed>>
      \/ /\ out' = Append(out, "stray")
         /\ UNCHANGED <<failed, buffer, pending, engaged, unknown, fed, consumed>>
  BY <1>2 DEF FeedHiredis, Misplaced, b
<1>5. CASE Raise
  <2>1. Misread'
    BY <1>5, <1>2 DEF Raise, Misread
  <2> QED BY <2>1, <1>1, <1>2, <1>3, <1>5, MisreadKeeps DEF Raise
<1>6. CASE buffer' = b /\ UNCHANGED <<out, failed, pending, engaged, unknown, fed, consumed>>
  <2>1. Misread'
    BY <1>6, <1>2, <1>3 DEF Misread
  <2> QED BY <2>1, <1>1, <1>2, <1>3, <1>6, MisreadKeeps
<1>7. CASE /\ out' = Append(out, "stray")
           /\ UNCHANGED <<failed, buffer, pending, engaged, unknown, fed, consumed>>
  <2>1. Misread'
    BY <1>7, <1>2 DEF Misread
  <2> QED BY <2>1, <1>1, <1>2, <1>3, <1>7, MisreadKeeps
<1> QED BY <1>4, <1>5, <1>6, <1>7

(* The hiredis engine: engaged, over the cap, left with part of a message, *)
(* at the end of the command lines, or among them.                         *)
LEMMA FeedHiredisKeeps ==
  ASSUME IInv, NEW n \in 1 .. MaxChunk, FeedHiredis(n), ~Misread
  PROVE  IInv'
<1> DEFINE b == buffer \o Chunk(n)
           e == InlineEnd(b)
           lines == SubSeq(b, 1, e)
<1>1. engine = "hiredis" /\ Arrives(n)
  BY DEF FeedHiredis
<1>2. Given(n)
  BY <1>1, ChunkGiven
<1>3. /\ stream \in Seq(Kind) /\ n \in Nat /\ pos + n <= End[Len(stream)] /\ ~failed /\ pos \in Nat
  BY <1>2 DEF Given
<1>4. /\ engaged \/ unknown => engaged
      /\ ~engaged => IF pending = <<>> THEN LinesHold ELSE HiredisLeft
  BY <1>1, <1>3 DEF IInv, ReaderInv, LinesHold, HiredisLeft
<1>5. CASE engaged \/ unknown
  <2>1. Hiredis(Chunk(n), <<>>)
    BY <1>5 DEF FeedHiredis
  <2>2. HiredisGiven(Chunk(n), <<>>, Len(out), n)
    BY <1>1, <1>2, <1>4, <1>5, HiredisTakes
  <2> QED BY <1>2, <2>1, <2>2, HiredisKeeps
<1>6. CASE ~engaged /\ ~unknown
  <2>1. /\ Len(b) > MaxBuffer => Raise
        /\ ~(Len(b) > MaxBuffer) /\ pending # <<>> => Misplaced(b)
        /\ ~(Len(b) > MaxBuffer) /\ pending = <<>> /\ e < Len(b) => Hiredis(SubSeq(b, e + 1, Len(b)), Messages(lines))
        /\ ~(Len(b) > MaxBuffer) /\ pending = <<>> /\ ~(e < Len(b)) =>
             /\ out' = out \o Messages(lines) /\ buffer' = Rest(lines)
             /\ UNCHANGED <<failed, pending, engaged, unknown, fed, consumed>>
    BY <1>6 DEF FeedHiredis
  <2>7. CASE pending # <<>>
    <3>1. HiredisLeft /\ buffer = <<>> /\ ~Straight
      BY <1>4, <1>6, <2>7 DEF HiredisLeft
    <3>2. b = Chunk(n) /\ b \in Seq(Unit) /\ b # <<>>
      <4>1. Chunk(n) \in Seq(Unit) /\ Len(Chunk(n)) = n /\ 1 <= n
        BY <1>2, <1>3, ChunkFacts DEF Given
      <4>2. <<>> \o Chunk(n) = Chunk(n)
        BY <4>1, ConcatEmptySeq
      <4> QED BY <3>1, <4>1, <4>2, <1>3
    <3>3. CASE Len(b) > MaxBuffer
      BY <1>2, <2>1, <3>1, <3>3, RaiseKeeps DEF Cause
    <3>4. CASE Hiredis(b, <<>>)
      <4>1. HiredisGiven(Chunk(n), <<>>, Len(out), n)
        BY <1>1, <1>2, <3>1, HiredisRejoins
      <4>2. Hiredis(Chunk(n), <<>>)
        BY <3>2, <3>4
      <4> QED BY <1>2, <4>1, <4>2, HiredisKeeps
    <3>5. CASE buffer' = b /\ UNCHANGED <<out, failed, pending, engaged, unknown, fed, consumed>>
      <4> HIDE DEF b
      <4>1. Misread' /\ failed' \in BOOLEAN
        BY <3>2, <3>5, <2>7, <1>3 DEF Misread, IInv, TypeOK
      <4> QED BY <4>1, <1>1, <1>6, <3>1, <3>2, <3>5, MisreadKeeps
    <3>6. CASE /\ out' = Append(out, "stray")
               /\ UNCHANGED <<failed, buffer, pending, engaged, unknown, fed, consumed>>
      <4> HIDE DEF b
      <4>1. Misread'
        <5>1. out \in Seq(Kind)
          BY <1>2 DEF Given
        <5>2. Len(out) + 1 \in DOMAIN out' /\ out'[Len(out) + 1] = "stray"
          <6> HIDE DEF Kind
          <6> QED BY <5>1, <3>6
        <5> QED BY <5>2 DEF Misread, Strayed
      <4>2. buffer' \in Seq(Unit) /\ failed' \in BOOLEAN
        BY <3>6 DEF IInv, TypeOK
      <4> QED BY <4>1, <4>2, <1>1, <1>6, <3>1, <3>6, MisreadKeeps
    <3>7. ~(Len(b) > MaxBuffer) => Misplaced(b)
      BY <2>1, <2>7
    <3> HIDE DEF b
    <3> QED BY <3>3, <3>4, <3>5, <3>6, <3>7 DEF Misplaced
  <2>8. CASE pending = <<>>
    <3>0. LinesHold
      BY <1>4, <1>6, <2>8
    <3>1. Slice(b, Len(out), pos + n)
      <4>1. Slice(buffer, Len(out), pos)
        BY <3>0 DEF LinesHold
      <4> QED BY <4>1, <1>3, SliceGrows DEF Chunk
    <3>2. b \in Seq(Unit) /\ Len(b) \in Nat /\ MaxBuffer \in Nat
      <4> HIDE DEF b
      <4> QED BY <1>3, <3>1, SliceTyped, FramingAssumption DEF FramingAssumption
    <3>3. CASE Len(b) > MaxBuffer
      <4>1. Cause(n)
        <5> HIDE DEF b
        <5> QED BY <1>2, <3>1, <3>3, TooLong DEF Cause
      <4> QED BY <1>2, <2>1, <3>3, <4>1, RaiseKeeps
    <3>4. CASE ~(Len(b) > MaxBuffer) /\ e < Len(b)
      <4>1. PICK j \in Nat : HiredisGiven(SubSeq(b, e + 1, Len(b)), Messages(lines), j, n)
        BY <1>1, <1>2, <1>6, <2>8, <3>4, LinesGive
      <4> QED BY <1>2, <2>1, <2>8, <3>4, <4>1, HiredisKeeps
    <3>5. CASE ~(Len(b) > MaxBuffer) /\ ~(e < Len(b))
      <4>1. InlineStep(b, Len(out), pos + n)
        <5> HIDE DEF b
        <5> QED BY <1>3, <3>1, InlineFacts
      <4>2. e = Len(b) /\ \A i \in Starts(b) : ~Marker(b[i])
        BY <3>5, <4>1 DEF InlineStep
      <4>3. lines = b
        <5> HIDE DEF b
        <5>1. SubSeq(b, 1, Len(b)) = b
          BY <3>2, SubSeqFull
        <5> QED BY <5>1, <4>2
      <4>4. /\ out' = out \o Messages(b) /\ buffer' = Rest(b)
            /\ UNCHANGED <<failed, pending, engaged, unknown, fed, consumed>>
        <5> HIDE DEF b, lines, e
        <5> QED BY <2>1, <2>8, <3>5, <4>3
      <4>5. Len(b) <= MaxBuffer
        <5> HIDE DEF b
        <5> QED BY <3>2, <3>5
      <4> QED BY <1>1, <1>2, <1>6, <2>8, <4>2, <4>4, <4>5, LinesKeep
    <3> QED BY <3>3, <3>4, <3>5
  <2> QED BY <2>7, <2>8
<1> QED BY <1>5, <1>6

(* Every step keeps the invariant. *)
LEMMA StepKeeps == IInv /\ [Next]_vars => IInv'
<1> SUFFICES ASSUME IInv, [Next]_vars PROVE IInv'
  OBVIOUS
<1>1. ASSUME NEW n \in 1 .. MaxChunk, FeedPython(n) PROVE IInv'
  BY <1>1, FeedPythonKeeps
<1>2. ASSUME NEW n \in 1 .. MaxChunk, FeedHiredis(n) PROVE IInv'
  BY <1>2, FeedHiredisKeeps, MisreadGoesOn
<1>3. CASE UNCHANGED vars
  <2>1. /\ engine' = engine /\ stream' = stream /\ pos' = pos /\ before' = before /\ out' = out
        /\ failed' = failed /\ buffer' = buffer /\ pending' = pending /\ engaged' = engaged
        /\ unknown' = unknown /\ fed' = fed /\ consumed' = consumed
    BY <1>3 DEF vars
  <2>2. End' = End /\ Units' = Units
    BY <2>1, StreamKept
  <2>6. (Straight' <=> Straight) /\ (Misread' <=> Misread)
    BY <2>1 DEF Straight, Misread, Strayed
  <2>3. TypeOK' /\ AnswersExact' /\ BuffersExact'
    BY <2>1, <2>2, <2>6 DEF IInv, TypeOK, AnswersExact, BuffersExact, BoundaryExact, BufferCapped
  <2>4. ErrorsJustified'
    BY <2>1, <2>2, <2>6 DEF IInv, ErrorsJustified, Sent, Marker
  <2>5. ReaderInv'
    BY <2>1, <2>2, <2>6 DEF IInv, ReaderInv, PythonHolds, LinesHold, HiredisHolds, HiredisLeft,
                            Slice, NextIsLine
  <2> QED BY <2>3, <2>4, <2>5 DEF IInv
<1> QED BY <1>1, <1>2, <1>3 DEF Next

(* What the reader keeps at every chunk: the four invariants, and what its *)
(* buffers hold of the stream; also where a simple string has made the     *)
(* account of hiredis drift, as long as no byte has been misread.          *)
THEOREM ReaderKeepsItsPlace == Spec => []IInv
BY InitHolds, StepKeeps, PTL DEF Spec

(* The reader's buffers and counters are well formed, whatever is sent and *)
(* however the network cuts it.  The two counters are only natural numbers *)
(* here: more can be counted as parsed than was fed.                       *)
THEOREM FramingTypeCorrect == Spec => []TypeOK
<1>1. IInv => TypeOK
  BY DEF IInv
<1> QED BY <1>1, ReaderKeepsItsPlace, PTL

(* feed() answers exactly the messages that are complete, in order, for    *)
(* streams, message sizes and chunks of any length, on both engines.  On   *)
(* the hiredis engine a byte is misread only after a simple string has     *)
(* been parsed, whose length the code counts wrong.                        *)
THEOREM AnswersAreExact == Spec => []AnswersExact
<1>1. IInv => AnswersExact
  BY DEF IInv
<1> QED BY <1>1, ReaderKeepsItsPlace, PTL

(* No byte waits on the wrong side of the hand-over between feed() and     *)
(* hiredis, and no more of them wait than MAX_BUFFER, until hiredis has    *)
(* parsed a null or a simple string.                                       *)
THEOREM BuffersAreExact == Spec => []BuffersExact
<1>1. IInv => BuffersExact
  BY DEF IInv
<1> QED BY <1>1, ReaderKeepsItsPlace, PTL

(* A ProtocolError has one of the named causes in what was sent; the drift *)
(* after a simple string is one of them.                                   *)
THEOREM ErrorsHaveCauses == Spec => []ErrorsJustified
<1>1. IInv => ErrorsJustified
  BY DEF IInv
<1> QED BY <1>1, ReaderKeepsItsPlace, PTL

(* f is made of c by n of the steps. *)
Made(f, n, S, c, step) ==
    /\ f \in [0 .. n -> S] /\ f[0] = c
    /\ \A m \in 1 .. n : f[m] = step[m][f[m - 1]]

(* A value that each step makes of the one before exists after N steps:    *)
(* what every recursive function of the model needs.                       *)
LEMMA Recursion ==
  ASSUME NEW N \in Nat, NEW S, NEW c \in S, NEW step \in [1 .. N -> [S -> S]]
  PROVE  \E f : Made(f, N, S, c, step)
<1> DEFINE T == {n \in Nat : \E f : Made(f, n, S, c, step)}
<1>1. 0 \in T
  <2>1. Made([n \in 0 .. 0 |-> c], 0, S, c, step)
    BY DEF Made
  <2> QED BY <2>1
<1>2. \A n \in 0 .. N - 1 : n \in T => n + 1 \in T
  <2> TAKE n \in 0 .. N - 1
  <2> HAVE n \in T
  <2>1. PICK f : Made(f, n, S, c, step)
    OBVIOUS
  <2> DEFINE v == step[n + 1][f[n]]
             g == [m \in 0 .. n + 1 |-> IF m = n + 1 THEN v ELSE f[m]]
  <2>0. f \in [0 .. n -> S] /\ f[0] = c /\ \A m \in 1 .. n : f[m] = step[m][f[m - 1]]
    BY <2>1, Zenon DEF Made
  <2>2. n \in Nat /\ f[n] \in S /\ n + 1 \in 1 .. N
    BY <2>0
  <2>3. v \in S
    BY <2>2
  <2> HIDE DEF v
  <2>4. g \in [0 .. n + 1 -> S]
    <3>1. \A m \in 0 .. n + 1 : (IF m = n + 1 THEN v ELSE f[m]) \in S
      BY <2>0, <2>2, <2>3
    <3> QED BY <3>1
  <2>5. g[0] = c
    BY <2>0, <2>2
  <2>6. \A m \in 1 .. n + 1 : g[m] = step[m][g[m - 1]]
    <3> TAKE m \in 1 .. n + 1
    <3>1. m - 1 \in 0 .. n /\ m - 1 # n + 1 /\ m \in 0 .. n + 1 /\ m - 1 \in 0 .. n + 1
      OBVIOUS
    <3>2. g[m - 1] = f[m - 1]
      BY <3>1
    <3>3. CASE m = n + 1
      <4>1. g[m] = v /\ m - 1 = n
        BY <3>1, <3>3
      <4> QED BY <4>1, <3>2, <3>3 DEF v
    <3>4. CASE m # n + 1
      <4>1. m \in 1 .. n
        BY <3>4
      <4>2. g[m] = f[m]
        BY <3>1, <3>4
      <4> QED BY <4>1, <4>2, <3>2, <2>0
    <3> QED BY <3>3, <3>4
  <2>7. Made(g, n + 1, S, c, step)
    <3> HIDE DEF g
    <3> QED BY <2>4, <2>5, <2>6 DEF Made
  <2>8. \E h : Made(h, n + 1, S, c, step)
    BY <2>7
  <2>9. n + 1 \in Nat
    OBVIOUS
  <2> QED BY <2>8, <2>9
<1>3. N \in T
  <2> HIDE DEF T
  <2>1. 0 .. N \subseteq T
    BY <1>1, <1>2, InductionUpTo
  <2> QED BY <2>1
<1> QED BY <1>3

-----------------------------------------------------------------------------
(* Counting positions *)

(* How many of the first n positions are in P. *)
Count(P, n) == Cardinality(P \cap (1 .. n))

(* How counting goes on: one more at each position of P. *)
LEMMA CountFacts ==
  ASSUME NEW P
  PROVE  /\ Count(P, 0) = 0
         /\ \A n \in Nat : Count(P, n) \in Nat
         /\ \A n \in Nat : n + 1 \in P => Count(P, n + 1) = Count(P, n) + 1
         /\ \A n \in Nat : n + 1 \notin P => Count(P, n + 1) = Count(P, n)
<1>1. Count(P, 0) = 0
  <2>1. P \cap (1 .. 0) = {}
    OBVIOUS
  <2> QED BY <2>1, FS_EmptySet DEF Count
<1>2. \A n \in Nat : IsFiniteSet(P \cap (1 .. n))
  <2> TAKE n \in Nat
  <2>1. IsFiniteSet(1 .. n)
    BY FS_Interval
  <2>2. P \cap (1 .. n) \in SUBSET (1 .. n)
    OBVIOUS
  <2> QED BY <2>1, <2>2, FS_Subset
<1>3. \A n \in Nat : Count(P, n) \in Nat
  BY <1>2, FS_CardinalityType DEF Count
<1>4. ASSUME NEW n \in Nat, n + 1 \in P PROVE Count(P, n + 1) = Count(P, n) + 1
  <2>1. P \cap (1 .. n + 1) = (P \cap (1 .. n)) \cup {n + 1}
    BY <1>4
  <2>2. n + 1 \notin P \cap (1 .. n)
    OBVIOUS
  <2>3. Cardinality((P \cap (1 .. n)) \cup {n + 1}) = Cardinality(P \cap (1 .. n)) + 1
    BY <1>2, <2>2, FS_AddElement
  <2> QED BY <2>1, <2>3 DEF Count
<1>5. ASSUME NEW n \in Nat, n + 1 \notin P PROVE Count(P, n + 1) = Count(P, n)
  <2>1. P \cap (1 .. n + 1) = P \cap (1 .. n)
    BY <1>5
  <2> QED BY <2>1 DEF Count
<1> QED BY <1>1, <1>3, <1>4, <1>5

(* The count never falls, never outruns the positions, and rises at those  *)
(* of P.                                                                   *)
LEMMA CountGrows ==
  ASSUME NEW P, NEW n \in Nat, NEW m \in 0 .. n
  PROVE  /\ Count(P, m) <= Count(P, n) /\ Count(P, n) - Count(P, m) <= n - m
         /\ n \in P /\ m < n => Count(P, m) < Count(P, n)
<1> DEFINE d == n - m
           T == {i \in Nat : /\ Count(P, m) <= Count(P, m + i)
                             /\ Count(P, m + i) - Count(P, m) <= i}
<1>1. m \in Nat /\ d \in Nat /\ m + d = n
  OBVIOUS
<1>2. 0 \in T
  <2>1. m + 0 = m /\ Count(P, m) \in Nat
    BY <1>1, CountFacts
  <2> QED BY <2>1
<1>3. \A i \in 0 .. d - 1 : i \in T => i + 1 \in T
  <2> TAKE i \in 0 .. d - 1
  <2> HAVE i \in T
  <2> DEFINE k == m + i
  <2>1. k \in Nat /\ i \in Nat /\ m + (i + 1) = k + 1 /\ i + 1 \in Nat
    BY <1>1
  <2>2. Count(P, k) \in Nat /\ Count(P, m) \in Nat
        /\ (Count(P, k + 1) = Count(P, k) \/ Count(P, k + 1) = Count(P, k) + 1)
    BY <1>1, <2>1, CountFacts
  <2>3. Count(P, m) <= Count(P, k) /\ Count(P, k) - Count(P, m) <= i
    OBVIOUS
  <2> HIDE DEF k
  <2>4. Count(P, m) <= Count(P, k + 1) /\ Count(P, k + 1) - Count(P, m) <= i + 1
    BY <2>1, <2>2, <2>3
  <2> QED BY <2>1, <2>4
<1>4. \A i \in 0 .. d : i \in T
  <2> HIDE DEF T, d
  <2> QED BY <1>1, <1>2, <1>3, InductionUpTo
<1>5. Count(P, m) <= Count(P, n) /\ Count(P, n) - Count(P, m) <= n - m
  <2>1. d \in T
    BY <1>1, <1>4
  <2> QED BY <2>1, <1>1
<1>6. ASSUME n \in P, m < n PROVE Count(P, m) < Count(P, n)
  <2> DEFINE e == n - 1
             U == {i \in Nat : Count(P, m) <= Count(P, m + i)}
  <2>1. e \in Nat /\ e + 1 = n /\ e - m \in 0 .. d /\ m + (e - m) = e
    BY <1>6
  <2>2. e - m \in T
    BY <2>1, <1>4
  <2>3. Count(P, m) <= Count(P, e)
    BY <2>1, <2>2
  <2>4. Count(P, n) = Count(P, e) + 1 /\ Count(P, e) \in Nat /\ Count(P, m) \in Nat
    <3> HIDE DEF e
    <3> QED BY <1>1, <1>6, <2>1, CountFacts
  <2> QED BY <2>3, <2>4
<1> QED BY <1>5, <1>6

(* The k-th of the positions. *)
LEMMA CountOnto ==
  ASSUME NEW P, NEW n \in Nat, NEW k \in 1 .. Count(P, n)
  PROVE  \E p \in P \cap (1 .. n) : Count(P, p) = k
<1> DEFINE T == {m \in 0 .. n : Count(P, m) >= k}
<1>1. T \subseteq Nat /\ n \in T
  BY CountFacts
<1>2. PICK m \in T : \A l \in T : m <= l
  <2> HIDE DEF T
  <2> QED BY <1>1, LeastNatural
<1>3. m # 0
  BY <1>2, CountFacts
<1> DEFINE l == m - 1
<1>4. l \in Nat /\ l + 1 = m /\ m \in 1 .. n /\ l \in 0 .. n /\ l < m
  BY <1>2, <1>3
<1>5. Count(P, l) < k
  <2>1. l \notin T
    BY <1>2, <1>4
  <2>2. Count(P, l) \in Nat
    BY <1>4, CountFacts
  <2> HIDE DEF l
  <2> QED BY <2>1, <2>2, <1>4
<1>6. m \in P /\ Count(P, m) = Count(P, l) + 1 /\ Count(P, l) \in Nat
  <2> HIDE DEF l
  <2>1. Count(P, m) >= k
    BY <1>2
  <2>2. Count(P, l) \in Nat
    BY <1>4, CountFacts
  <2>3. CASE m \notin P
    <3>1. Count(P, m) = Count(P, l)
      BY <2>3, <1>4, CountFacts
    <3> QED BY <3>1, <2>1, <2>2, <1>5
  <2>4. CASE m \in P
    BY <2>4, <2>2, <1>4, CountFacts
  <2> QED BY <2>3, <2>4
<1>7. Count(P, m) = k
  <2> HIDE DEF l
  <2>1. Count(P, m) >= k
    BY <1>2
  <2> QED BY <2>1, <1>5, <1>6
<1> QED BY <1>4, <1>6, <1>7

-----------------------------------------------------------------------------
(* What the walks pick *)

(* y holds the elements of x at those of its first n positions in P. *)
Kept(y, x, P, n, S) ==
    /\ y \in Seq(S) /\ Len(y) = Count(P, n)
    /\ \A p \in P \cap (1 .. n) : y[Count(P, p)] = x[p]

(* The walk goes on: it keeps the next element exactly when its position   *)
(* is in P.                                                                *)
LEMMA KeptNext ==
  ASSUME NEW S, NEW x \in Seq(S), NEW P, NEW n \in Nat, n + 1 <= Len(x), NEW y, Kept(y, x, P, n, S)
  PROVE  Kept(IF n + 1 \in P THEN Append(y, x[n + 1]) ELSE y, x, P, n + 1, S)
<1> DEFINE e == x[n + 1]
           k == Count(P, n)
<1>1. y \in Seq(S) /\ Len(y) = k /\ k \in Nat /\ \A p \in P \cap (1 .. n) : y[Count(P, p)] = x[p]
  BY CountFacts DEF Kept
<1>2. e \in S
  <2>1. n + 1 \in 1 .. Len(x)
    OBVIOUS
  <2> QED BY <2>1
<1>3. \A p \in P \cap (1 .. n) : Count(P, p) \in 1 .. k
  <2> TAKE p \in P \cap (1 .. n)
  <2>1. p \in Nat /\ 0 \in 0 .. p /\ p \in 0 .. n /\ 0 < p
    OBVIOUS
  <2>2. Count(P, p) <= k
    BY <2>1, CountGrows
  <2>3. Count(P, 0) < Count(P, p)
    BY <2>1, CountGrows
  <2> QED BY <2>1, <2>2, <2>3, <1>1, CountFacts
<1>4. CASE n + 1 \in P
  <2> DEFINE z == Append(y, e)
  <2>1. Count(P, n + 1) = k + 1
    BY <1>4, CountFacts
  <2>2. z \in Seq(S) /\ Len(z) = k + 1 /\ z[k + 1] = e /\ \A i \in 1 .. k : z[i] = y[i]
    <3> HIDE DEF e, k
    <3> QED BY <1>1, <1>2
  <2>3. \A p \in P \cap (1 .. n + 1) : z[Count(P, p)] = x[p]
    <3> TAKE p \in P \cap (1 .. n + 1)
    <3>1. CASE p = n + 1
      BY <2>1, <2>2, <3>1
    <3>2. CASE p # n + 1
      <4>1. p \in P \cap (1 .. n)
        BY <3>2
      <4> HIDE DEF z, k
      <4> QED BY <4>1, <1>1, <1>3, <2>2
    <3> QED BY <3>1, <3>2
  <2>4. Kept(z, x, P, n + 1, S)
    <3> HIDE DEF z
    <3> QED BY <2>1, <2>2, <2>3 DEF Kept
  <2> QED BY <2>4, <1>4
<1>5. CASE n + 1 \notin P
  <2>1. P \cap (1 .. n + 1) = P \cap (1 .. n)
    BY <1>5
  <2>2. Count(P, n + 1) = k
    BY <1>5, CountFacts
  <2> HIDE DEF k
  <2>3. Kept(y, x, P, n + 1, S)
    BY <2>1, <2>2, <1>1 DEF Kept
  <2> QED BY <2>3, <1>5
<1> QED BY <1>4, <1>5

(* There is such a walk. *)
LEMMA PickedKept ==
  ASSUME NEW S, NEW x \in Seq(S), NEW P
  PROVE  Kept(Picked(x, P), x, P, Len(x), S)
<1> DEFINE N == Len(x)
           Rec(f) == f = [n \in 0 .. N |-> IF n = 0 THEN <<>>
                                           ELSE IF n \in P THEN Append(f[n - 1], x[n]) ELSE f[n - 1]]
           step == [n \in 1 .. N |-> [y \in Seq(S) |-> IF n \in P THEN Append(y, x[n]) ELSE y]]
           fc == CHOOSE f : Rec(f)
<1>1. N \in Nat /\ \A n \in 1 .. N : x[n] \in S
  OBVIOUS
<1>2. step \in [1 .. N -> [Seq(S) -> Seq(S)]]
  <2> HIDE DEF N
  <2>1. \A n \in 1 .. N : \A y \in Seq(S) : (IF n \in P THEN Append(y, x[n]) ELSE y) \in Seq(S)
    BY <1>1
  <2> QED BY <2>1
<1>3. <<>> \in Seq(S)
  OBVIOUS
<1>4. PICK g : Made(g, N, Seq(S), <<>>, step)
  <2> HIDE DEF N, step
  <2> QED BY <1>1, <1>2, <1>3, Recursion
<1>5. /\ g \in [0 .. N -> Seq(S)] /\ g[0] = <<>>
      /\ \A m \in 1 .. N : g[m] = step[m][g[m - 1]]
  <2> HIDE DEF N, step
  <2> QED BY <1>4 DEF Made
<1>6. \A m \in 1 .. N : g[m] = IF m \in P THEN Append(g[m - 1], x[m]) ELSE g[m - 1]
  <2> TAKE m \in 1 .. N
  <2>1. g[m - 1] \in Seq(S)
    <3> HIDE DEF N, step
    <3>1. m - 1 \in 0 .. N
      BY <1>1
    <3> QED BY <3>1, <1>5
  <2>2. g[m] = step[m][g[m - 1]]
    <3> HIDE DEF N, step
    <3> QED BY <1>5
  <2>3. step[m][g[m - 1]] = IF m \in P THEN Append(g[m - 1], x[m]) ELSE g[m - 1]
    <3> HIDE DEF N
    <3> QED BY <2>1
  <2> HIDE DEF step
  <2> QED BY <2>2, <2>3
<1>7. Rec(g)
  <2> HIDE DEF N, step
  <2>1. g = [n \in 0 .. N |-> g[n]]
    BY <1>5
  <2>2. \A n \in 0 .. N : g[n] = IF n = 0 THEN <<>>
                                 ELSE IF n \in P THEN Append(g[n - 1], x[n]) ELSE g[n - 1]
    <3> TAKE n \in 0 .. N
    <3>1. CASE n = 0
      BY <3>1, <1>5
    <3>2. CASE n # 0
      <4>1. n \in 1 .. N
        BY <3>2, <1>1
      <4> QED BY <4>1, <3>2, <1>6
    <3> QED BY <3>1, <3>2
  <2> QED BY <2>1, <2>2, Zenon
<1>8. Rec(fc)
  <2> HIDE DEF Rec
  <2> QED BY <1>7
<1>9. Picked(x, P) = fc[N]
  BY DEF Picked
<1>10. /\ fc[0] = <<>>
       /\ \A n \in 0 .. N - 1 : fc[n + 1] = IF n + 1 \in P THEN Append(fc[n], x[n + 1]) ELSE fc[n]
  <2> HIDE DEF fc, N
  <2>1. \A n \in 0 .. N : fc[n] = IF n = 0 THEN <<>>
                                  ELSE IF n \in P THEN Append(fc[n - 1], x[n]) ELSE fc[n - 1]
    BY <1>8, Zenon
  <2>2. ASSUME NEW n \in 0 .. N - 1
        PROVE  fc[n + 1] = IF n + 1 \in P THEN Append(fc[n], x[n + 1]) ELSE fc[n]
    <3>1. n + 1 \in 0 .. N /\ n + 1 # 0 /\ (n + 1) - 1 = n
      BY <1>1
    <3> QED BY <2>1, <3>1
  <2>3. 0 \in 0 .. N
    BY <1>1
  <2> QED BY <2>1, <2>2, <2>3
<1> DEFINE T == {n \in Nat : Kept(fc[n], x, P, n, S)}
<1> HIDE DEF fc
<1>11. 0 \in T
  <2>1. Len(<<>>) = 0 /\ P \cap (1 .. 0) = {}
    OBVIOUS
  <2>2. Kept(<<>>, x, P, 0, S)
    BY <1>3, <2>1, CountFacts DEF Kept
  <2> QED BY <2>2, <1>10
<1>12. \A n \in 0 .. N - 1 : n \in T => n + 1 \in T
  <2> TAKE n \in 0 .. N - 1
  <2> HAVE n \in T
  <2>1. n \in Nat /\ n + 1 \in Nat /\ n + 1 <= Len(x)
    OBVIOUS
  <2>2. Kept(fc[n], x, P, n, S)
    OBVIOUS
  <2>3. Kept(IF n + 1 \in P THEN Append(fc[n], x[n + 1]) ELSE fc[n], x, P, n + 1, S)
    BY <2>1, <2>2, KeptNext
  <2>4. Kept(fc[n + 1], x, P, n + 1, S)
    BY <2>3, <1>10
  <2> QED BY <2>1, <2>4
<1>13. N \in T
  <2> HIDE DEF T, N
  <2>1. 0 .. N \subseteq T
    BY <1>1, <1>11, <1>12, InductionUpTo
  <2> QED BY <2>1, <1>1
<1> QED BY <1>9, <1>13

(* What was picked, and where each element kept has come to stand. *)
LEMMA PickedFacts ==
  ASSUME NEW S, NEW x \in Seq(S), NEW P
  PROVE  /\ Picked(x, P) \in Seq(S) /\ Len(Picked(x, P)) = Count(P, Len(x))
         /\ Count(P, Len(x)) \in Nat
         /\ \A p \in P \cap (1 .. Len(x)) : /\ Count(P, p) \in 1 .. Count(P, Len(x))
                                            /\ Picked(x, P)[Count(P, p)] = x[p]
<1>1. Kept(Picked(x, P), x, P, Len(x), S)
  BY PickedKept
<1>2. Len(x) \in Nat
  OBVIOUS
<1>3. ASSUME NEW p \in P \cap (1 .. Len(x)) PROVE Count(P, p) \in 1 .. Count(P, Len(x))
  <2>1. p \in Nat /\ p \in 0 .. Len(x) /\ 0 \in 0 .. p /\ 0 < p
    BY <1>2
  <2>2. Count(P, p) <= Count(P, Len(x))
    BY <1>2, <2>1, CountGrows
  <2>3. Count(P, 0) < Count(P, p)
    BY <2>1, CountGrows
  <2> QED BY <2>1, <2>2, <2>3, <1>2, CountFacts
<1> QED BY <1>1, <1>2, <1>3, CountFacts DEF Kept

(* What is as long as the positions, with each element in its place, is    *)
(* what was picked.                                                        *)
LEMMA PickedUnique ==
  ASSUME NEW S, NEW x \in Seq(S), NEW P, NEW y \in Seq(S), Len(y) = Count(P, Len(x)),
         \A p \in P \cap (1 .. Len(x)) : y[Count(P, p)] = x[p]
  PROVE  y = Picked(x, P)
<1> DEFINE z == Picked(x, P)
<1>1. z \in Seq(S) /\ Len(z) = Count(P, Len(x)) /\ \A p \in P \cap (1 .. Len(x)) : z[Count(P, p)] = x[p]
  BY PickedFacts
<1> HIDE DEF z
<1>2. \A k \in 1 .. Len(y) : y[k] = z[k]
  <2> TAKE k \in 1 .. Len(y)
  <2>1. k \in 1 .. Count(P, Len(x)) /\ Len(x) \in Nat
    OBVIOUS
  <2>2. PICK p \in P \cap (1 .. Len(x)) : Count(P, p) = k
    BY <2>1, CountOnto
  <2> QED BY <2>2, <1>1
<1>3. y = z
  BY <1>1, <1>2, SeqEqual
<1> QED BY <1>3 DEF z

(* Counting depends on the positions counted only. *)
LEMMA CountSame ==
  ASSUME NEW P, NEW Q, NEW n \in Nat, \A i \in 1 .. n : i \in P <=> i \in Q
  PROVE  \A m \in 0 .. n : Count(P, m) = Count(Q, m)
<1> TAKE m \in 0 .. n
<1>1. P \cap (1 .. m) = Q \cap (1 .. m)
  OBVIOUS
<1> QED BY <1>1 DEF Count

(* What is picked depends on the positions only. *)
LEMMA PickedSame ==
  ASSUME NEW S, NEW x \in Seq(S), NEW P, NEW Q, \A i \in 1 .. Len(x) : i \in P <=> i \in Q
  PROVE  Picked(x, P) = Picked(x, Q)
<1> DEFINE y == Picked(x, P)
<1>1. Len(x) \in Nat /\ Len(x) \in 0 .. Len(x) /\ \A i \in 1 .. Len(x) : i \in 0 .. Len(x)
  OBVIOUS
<1>2. \A m \in 0 .. Len(x) : Count(P, m) = Count(Q, m)
  BY <1>1, CountSame
<1>3. y \in Seq(S) /\ Len(y) = Count(P, Len(x)) /\ \A p \in P \cap (1 .. Len(x)) : y[Count(P, p)] = x[p]
  BY PickedFacts
<1> HIDE DEF y
<1>4. Len(y) = Count(Q, Len(x)) /\ \A p \in Q \cap (1 .. Len(x)) : y[Count(Q, p)] = x[p]
  BY <1>1, <1>2, <1>3
<1>5. y = Picked(x, Q)
  BY <1>3, <1>4, PickedUnique
<1> QED BY <1>5 DEF y

(* Up to N, the positions P are those from lo to hi; and their count. *)
Spans(P, N, lo, hi) ==
    /\ 1 <= lo /\ lo - 1 <= hi /\ hi <= N
    /\ \A i \in 1 .. N : i \in P <=> lo <= i /\ i <= hi

SpanCount(P, N, lo, hi) ==
    \A n \in 0 .. N : Count(P, n) = IF n < lo THEN 0
                                    ELSE IF n <= hi THEN n - lo + 1 ELSE hi - lo + 1

(* Positions without a gap are counted by their distance from the first. *)
LEMMA CountInterval ==
  ASSUME NEW P, NEW N \in Nat, NEW lo \in Nat, NEW hi \in Int, Spans(P, N, lo, hi)
  PROVE  SpanCount(P, N, lo, hi)
<1> USE DEF Spans
<1> DEFINE value(n) == IF n < lo THEN 0 ELSE IF n <= hi THEN n - lo + 1 ELSE hi - lo + 1
           T == {n \in Nat : Count(P, n) = value(n)}
<1>1. 0 \in T
  BY CountFacts
<1>2. \A n \in 0 .. N - 1 : n \in T => n + 1 \in T
  <2> TAKE n \in 0 .. N - 1
  <2> HAVE n \in T
  <2>1. n \in Nat /\ n + 1 \in Nat /\ n + 1 \in 1 .. N
    OBVIOUS
  <2>2. Count(P, n) = value(n)
    OBVIOUS
  <2>3. Count(P, n + 1) = IF n + 1 \in P THEN Count(P, n) + 1 ELSE Count(P, n)
    BY <2>1, CountFacts
  <2>4. n + 1 \in P <=> lo <= n + 1 /\ n + 1 <= hi
    BY <2>1
  <2>5. Count(P, n + 1) = value(n + 1)
    BY <2>1, <2>2, <2>3, <2>4
  <2> HIDE DEF value
  <2> QED BY <2>1, <2>5
<1>3. 0 .. N \subseteq T
  <2> HIDE DEF T
  <2> QED BY <1>1, <1>2, InductionUpTo
<1> QED BY <1>3 DEF SpanCount

(* What is picked between two bounds is the stretch between them. *)
LEMMA PickedInterval ==
  ASSUME NEW S, NEW x \in Seq(S), NEW P, NEW lo \in Nat, NEW hi \in Int, Spans(P, Len(x), lo, hi)
  PROVE  Picked(x, P) = SubSeq(x, lo, hi)
<1> USE DEF Spans
<1> DEFINE y == SubSeq(x, lo, hi)
           N == Len(x)
<1>1. N \in Nat /\ N \in 0 .. N /\ \A i \in 1 .. N : x[i] \in S
  OBVIOUS
<1>2. \A n \in 0 .. N : Count(P, n) = IF n < lo THEN 0
                                      ELSE IF n <= hi THEN n - lo + 1 ELSE hi - lo + 1
  <2> HIDE DEF N
  <2>1. Spans(P, N, lo, hi)
    BY DEF N, Spans
  <2>2. SpanCount(P, N, lo, hi)
    BY <1>1, <2>1, CountInterval
  <2> QED BY <2>2 DEF SpanCount
<1>3. /\ y \in Seq(S) /\ Len(y) = IF lo <= hi THEN hi - lo + 1 ELSE 0
      /\ \A i \in 1 .. hi - lo + 1 : y[i] = x[lo + i - 1]
  <2>1. \A i \in lo .. hi : x[i] \in S
    BY <1>1
  <2> QED BY <2>1, SubSeqProperties
<1> HIDE DEF y
<1>4. Len(y) = Count(P, N)
  BY <1>1, <1>2, <1>3
<1>5. \A p \in P \cap (1 .. N) : y[Count(P, p)] = x[p]
  <2> TAKE p \in P \cap (1 .. N)
  <2>1. lo <= p /\ p <= hi /\ p \in Nat /\ p \in 0 .. N
    BY <1>1
  <2> DEFINE k == Count(P, p)
  <2>2. k = p - lo + 1
    BY <1>2, <2>1
  <2> HIDE DEF k
  <2>3. k \in 1 .. hi - lo + 1 /\ lo + k - 1 = p
    BY <2>1, <2>2
  <2> QED BY <1>3, <2>3 DEF k
<1>6. y = Picked(x, P)
  BY <1>3, <1>4, <1>5, PickedUnique
<1> QED BY <1>6 DEF y

(* Up to N, the positions Q are the u-th to the v-th of P; and their count.*)
Within(Q, P, N, u, v) ==
    \A i \in 1 .. N : i \in Q <=> i \in P /\ u <= Count(P, i) /\ Count(P, i) <= v

WithinCount(Q, P, N, u, v) ==
    \A n \in 0 .. N : Count(Q, n) = IF Count(P, n) < u THEN 0
                                    ELSE IF Count(P, n) <= v THEN Count(P, n) - u + 1
                                    ELSE v - u + 1

(* The positions of a window are counted from its u-th on. *)
LEMMA CountWindow ==
  ASSUME NEW P, NEW Q, NEW N \in Nat, NEW u \in Nat, NEW v \in Int, 1 <= u, u - 1 <= v,
         Within(Q, P, N, u, v)
  PROVE  WithinCount(Q, P, N, u, v)
<1> USE DEF Within
<1> DEFINE value(c) == IF c < u THEN 0 ELSE IF c <= v THEN c - u + 1 ELSE v - u + 1
           T == {n \in Nat : Count(Q, n) = value(Count(P, n))}
<1>1. 0 \in T
  BY CountFacts
<1>2. \A n \in 0 .. N - 1 : n \in T => n + 1 \in T
  <2> TAKE n \in 0 .. N - 1
  <2> HAVE n \in T
  <2> DEFINE c == Count(P, n)
             d == Count(P, n + 1)
  <2>1. n \in Nat /\ n + 1 \in Nat /\ n + 1 \in 1 .. N /\ c \in Nat
    BY CountFacts
  <2>2. Count(Q, n) = value(c)
    OBVIOUS
  <2>3. Count(Q, n + 1) = IF n + 1 \in Q THEN Count(Q, n) + 1 ELSE Count(Q, n)
    BY <2>1, CountFacts
  <2>4. d = IF n + 1 \in P THEN c + 1 ELSE c
    BY <2>1, CountFacts
  <2>5. n + 1 \in Q <=> n + 1 \in P /\ u <= d /\ d <= v
    BY <2>1
  <2>6. Count(Q, n + 1) = value(d)
    <3> HIDE DEF c, d
    <3> QED BY <2>1, <2>2, <2>3, <2>4, <2>5
  <2> HIDE DEF value
  <2> QED BY <2>1, <2>6
<1>3. 0 .. N \subseteq T
  <2> HIDE DEF T
  <2> QED BY <1>1, <1>2, InductionUpTo
<1> QED BY <1>3 DEF WithinCount

(* A stretch of what is picked is what is picked from the u-th position to *)
(* the v-th.                                                               *)
LEMMA PickedWindow ==
  ASSUME NEW S, NEW x \in Seq(S), NEW P, NEW Q, NEW u \in Nat, NEW v \in Int,
         1 <= u, u - 1 <= v, v <= Count(P, Len(x)), Within(Q, P, Len(x), u, v)
  PROVE  SubSeq(Picked(x, P), u, v) = Picked(x, Q)
<1> DEFINE z == Picked(x, P)
           y == SubSeq(z, u, v)
           N == Len(x)
           K == Count(P, N)
<1> USE DEF Within
<1>1. N \in Nat /\ N \in 0 .. N
  OBVIOUS
<1>2. /\ z \in Seq(S) /\ Len(z) = K /\ K \in Nat
      /\ \A p \in P \cap (1 .. N) : Count(P, p) \in 1 .. K /\ z[Count(P, p)] = x[p]
  BY PickedFacts
<1>3. \A n \in 0 .. N : Count(Q, n) = IF Count(P, n) < u THEN 0
                                      ELSE IF Count(P, n) <= v THEN Count(P, n) - u + 1
                                      ELSE v - u + 1
  <2> HIDE DEF N
  <2>1. Within(Q, P, N, u, v)
    BY DEF N, Within
  <2>2. WithinCount(Q, P, N, u, v)
    BY <1>1, <2>1, CountWindow
  <2> QED BY <2>2 DEF WithinCount
<1>4. /\ y \in Seq(S) /\ Len(y) = IF u <= v THEN v - u + 1 ELSE 0
      /\ \A i \in 1 .. v - u + 1 : y[i] = z[u + i - 1]
  <2> HIDE DEF z, K
  <2>1. \A i \in u .. v : z[i] \in S
    BY <1>2 DEF K
  <2> QED BY <2>1, SubSeqProperties
<1> HIDE DEF y, z
<1>5. Len(y) = Count(Q, N)
  <2>1. Count(Q, N) = IF K < u THEN 0 ELSE IF K <= v THEN K - u + 1 ELSE v - u + 1
    BY <1>1, <1>3
  <2>2. v <= K
    OBVIOUS
  <2> HIDE DEF K, N
  <2> QED BY <1>2, <1>4, <2>1, <2>2
<1>6. \A p \in Q \cap (1 .. N) : y[Count(Q, p)] = x[p]
  <2> TAKE p \in Q \cap (1 .. N)
  <2> DEFINE k == Count(P, p)
             l == Count(Q, p)
  <2>1. p \in P \cap (1 .. N) /\ u <= k /\ k <= v /\ p \in 0 .. N
    OBVIOUS
  <2>2. k \in 1 .. K /\ z[k] = x[p]
    <3> HIDE DEF K, N
    <3> QED BY <1>2, <2>1
  <2>3. l = IF k < u THEN 0 ELSE IF k <= v THEN k - u + 1 ELSE v - u + 1
    BY <1>3, <2>1
  <2> HIDE DEF k, l, K, N
  <2>4. l \in 1 .. v - u + 1 /\ u + l - 1 = k
    BY <2>1, <2>2, <2>3, <1>2
  <2>5. y[l] = x[p]
    BY <2>4, <1>4, <2>2
  <2> QED BY <2>5 DEF l
<1>7. y = Picked(x, Q)
  BY <1>4, <1>5, <1>6, PickedUnique
<1> QED BY <1>7 DEF y, z

(* What the library means by the reverse. *)
LEMMA ReverseFacts ==
  ASSUME NEW S, NEW x \in Seq(S)
  PROVE  /\ SX!Reverse(x) \in Seq(S) /\ Len(SX!Reverse(x)) = Len(x)
         /\ \A i \in 1 .. Len(x) : SX!Reverse(x)[i] = x[Len(x) - i + 1]
<1> DEFINE N == Len(x)
           r == [i \in 1 .. N |-> x[N - i + 1]]
<1>1. N \in Nat
  OBVIOUS
<1>2. SX!Reverse(x) = r
  BY DEF SX!Reverse
<1>3. \A i \in 1 .. N : x[N - i + 1] \in S
  OBVIOUS
<1> HIDE DEF N
<1>4. r \in Seq(S) /\ Len(r) = N
  BY <1>1, <1>3
<1>5. \A i \in 1 .. N : r[i] = x[N - i + 1]
  OBVIOUS
<1> QED BY <1>2, <1>4, <1>5 DEF N

(* A stretch of the reverse is the reverse of the stretch that far from    *)
(* the other end.                                                          *)
LEMMA SubSeqOfReverse ==
  ASSUME NEW S, NEW x \in Seq(S), NEW u \in Nat, NEW v \in Int, 1 <= u, u - 1 <= v, v <= Len(x)
  PROVE  SubSeq(SX!Reverse(x), u, v) = SX!Reverse(SubSeq(x, Len(x) + 1 - v, Len(x) + 1 - u))
<1> DEFINE N == Len(x)
           r == SX!Reverse(x)
           lo == N + 1 - v
           hi == N + 1 - u
           s == SubSeq(x, lo, hi)
           y == SubSeq(r, u, v)
           z == SX!Reverse(s)
           L == v - u + 1
<1>1. N \in Nat /\ lo \in Int /\ hi \in Int /\ 1 <= lo /\ hi <= N /\ L \in Nat /\ hi - lo + 1 = L
      /\ \A i \in 1 .. N : x[i] \in S
  OBVIOUS
<1>2. r \in Seq(S) /\ Len(r) = N /\ \A i \in 1 .. N : r[i] = x[N - i + 1]
  BY ReverseFacts
<1> HIDE DEF r
<1>3. y \in Seq(S) /\ Len(y) = L /\ \A i \in 1 .. L : y[i] = r[u + i - 1]
  <2>1. \A i \in u .. v : r[i] \in S
    BY <1>2
  <2>2. /\ y \in Seq(S) /\ Len(y) = IF u <= v THEN v - u + 1 ELSE 0
        /\ \A i \in 1 .. v - u + 1 : y[i] = r[u + i - 1]
    BY <2>1, SubSeqProperties
  <2> HIDE DEF y
  <2> QED BY <2>2
<1> HIDE DEF y
<1>4. s \in Seq(S) /\ Len(s) = L /\ \A i \in 1 .. L : s[i] = x[lo + i - 1]
  <2> HIDE DEF lo, hi, L
  <2>1. \A i \in lo .. hi : x[i] \in S
    BY <1>1
  <2>2. /\ s \in Seq(S) /\ Len(s) = IF lo <= hi THEN hi - lo + 1 ELSE 0
        /\ \A i \in 1 .. hi - lo + 1 : s[i] = x[lo + i - 1]
    BY <2>1, <1>1, SubSeqProperties
  <2> HIDE DEF s
  <2> QED BY <2>2, <1>1
<1> HIDE DEF s
<1>5. z \in Seq(S) /\ Len(z) = L /\ \A i \in 1 .. L : z[i] = s[L - i + 1]
  <2> HIDE DEF L
  <2>1. /\ z \in Seq(S) /\ Len(z) = Len(s)
        /\ \A i \in 1 .. Len(s) : z[i] = s[Len(s) - i + 1]
    BY <1>4, ReverseFacts
  <2> HIDE DEF z
  <2> QED BY <2>1, <1>4
<1> HIDE DEF z
<1>6. \A i \in 1 .. Len(y) : y[i] = z[i]
  <2> TAKE i \in 1 .. Len(y)
  <2> DEFINE j == L - i + 1
             k == u + i - 1
  <2>1. i \in 1 .. L
    BY <1>3
  <2>2. j \in 1 .. L /\ k \in 1 .. N /\ N - k + 1 = lo + j - 1
    BY <2>1, <1>1
  <2>3. y[i] = r[k] /\ z[i] = s[j]
    BY <2>1, <1>3, <1>5
  <2> HIDE DEF j, k, lo, L
  <2>4. r[k] = x[N - k + 1] /\ s[j] = x[lo + j - 1]
    BY <2>2, <1>2, <1>4
  <2> QED BY <2>2, <2>3, <2>4
<1>7. y = z
  BY <1>3, <1>5, <1>6, SeqEqual
<1> QED BY <1>7 DEF y, z, s, r

-----------------------------------------------------------------------------
(* Ranges of positions *)

(* As Spans, but lo and hi may be any distance apart. *)
Stretch(P, N, lo, hi) ==
    /\ 1 <= lo /\ hi <= N
    /\ \A i \in 1 .. N : i \in P <=> lo <= i /\ i <= hi

(* What is picked between two bounds, also when they cross. *)
LEMMA PickedStretch ==
  ASSUME NEW S, NEW x \in Seq(S), NEW P, NEW lo \in Int, NEW hi \in Int, Stretch(P, Len(x), lo, hi)
  PROVE  Picked(x, P) = SubSeq(x, lo, hi)
<1>1. CASE lo - 1 <= hi
  <2>1. Spans(P, Len(x), lo, hi) /\ lo \in Nat
    BY <1>1 DEF Stretch, Spans
  <2> QED BY <2>1, PickedInterval
<1>2. CASE ~(lo - 1 <= hi)
  <2>1. Spans(P, Len(x), 1, 0)
    BY <1>2 DEF Stretch, Spans
  <2>2. Picked(x, P) = SubSeq(x, 1, 0)
    BY <2>1, PickedInterval
  <2>3. SubSeq(x, 1, 0) = <<>> /\ SubSeq(x, lo, hi) = <<>>
    BY <1>2, SubSeqEmpty
  <2> QED BY <2>2, <2>3
<1> QED BY <1>1, <1>2

(* A bound is cut off at 0. *)
LEMMA GreatestOfTwo ==
  ASSUME NEW x \in Int
  PROVE  Greatest({0, x}) = IF x < 0 THEN 0 ELSE x
<1> DEFINE m == IF x < 0 THEN 0 ELSE x
<1>1. m \in {0, x} /\ \A y \in {0, x} : y <= m
  OBVIOUS
<1>2. \A z \in {0, x} : (\A y \in {0, x} : y <= z) => z = m
  OBVIOUS
<1> QED BY <1>1, <1>2 DEF Greatest

(* Where a bound of a range lies, counted from the start. *)
At(val, x) == IF x < 0 THEN Len(val) + x ELSE x

(* The elements between two bounds are a stretch of the value. *)
LEMMA BetweenStretch ==
  ASSUME NEW S, NEW val \in Seq(S), NEW start, NEW end, NEW lo \in Int, NEW hi \in Int,
         Stretch({i \in 1 .. Len(val) : At(val, start) <= i - 1 /\ i - 1 <= At(val, end)},
                 Len(val), lo, hi)
  PROVE  Between(val, start, end) = SubSeq(val, lo, hi)
<1> DEFINE P == {i \in 1 .. Len(val) : At(val, start) <= i - 1 /\ i - 1 <= At(val, end)}
<1>1. Between(val, start, end) = Picked(val, P)
  <2>1. DOMAIN val = 1 .. Len(val)
    OBVIOUS
  <2> QED BY <2>1 DEF Between, At
<1> HIDE DEF P
<1>2. Picked(val, P) = SubSeq(val, lo, hi)
  BY PickedStretch DEF P
<1> QED BY <1>1, <1>2

(* _slice_ranks and LRANGE answer the elements between their bounds. *)
LEMMA WindowBetween ==
  ASSUME NEW S, NEW val \in Seq(S), NEW start \in Int, NEW end \in Int
  PROVE  Window(val, start, end) = Between(val, start, end)
<1> DEFINE n == Len(val)
           s == At(val, start)
           to == At(val, end)
           from == IF s < 0 THEN 0 ELSE s
           P == {i \in 1 .. n : s <= i - 1 /\ i - 1 <= to}
<1>1. n \in Nat /\ s \in Int /\ to \in Int
  BY DEF At
<1>2. Greatest({0, s}) = from
  BY <1>1, GreatestOfTwo
<1>3. Window(val, start, end) = IF from > to \/ from >= n THEN <<>>
                                ELSE SubSeq(val, from + 1, Least(to, n - 1) + 1)
  <2>1. s = (IF start < 0 THEN start + n ELSE start) /\ to = (IF end < 0 THEN end + n ELSE end)
    BY <1>1 DEF At
  <2> HIDE DEF s, to, from
  <2> QED BY <1>2, <2>1 DEF Window
<1>4. CASE from > to \/ from >= n
  <2> HIDE DEF s, to, n
  <2>1. \A i \in 1 .. n : i \notin P
    BY <1>1, <1>4
  <2> HIDE DEF P
  <2>2. Stretch(P, n, 1, 0)
    BY <1>1, <2>1 DEF Stretch
  <2>3. Between(val, start, end) = SubSeq(val, 1, 0)
    BY <2>2, BetweenStretch DEF P, s, to, n
  <2> QED BY <2>3, <1>3, <1>4, SubSeqEmpty
<1>5. CASE ~(from > to \/ from >= n)
  <2> DEFINE lo == from + 1
             hi == Least(to, n - 1) + 1
  <2> HIDE DEF s, to, n
  <2>1. Stretch(P, n, lo, hi) /\ lo \in Int /\ hi \in Int
    BY <1>1, <1>5 DEF Stretch, Least
  <2> HIDE DEF lo, hi, P
  <2>2. Between(val, start, end) = SubSeq(val, lo, hi)
    BY <2>1, BetweenStretch DEF P, s, to, n
  <2> QED BY <2>2, <1>3, <1>5 DEF lo, hi
<1> QED BY <1>4, <1>5

(* What a slice of a python sequence holds. *)
Clip(n, x) == IF x < 0 THEN (IF n + x < 0 THEN 0 ELSE n + x) ELSE Least(x, n)

(* A python slice is the stretch between its bounds, once they are         *)
(* clipped.                                                                *)
LEMMA PySliceIs ==
  ASSUME NEW S, NEW val \in Seq(S), NEW lo \in Int, NEW hi \in Int
  PROVE  PySlice(val, lo, hi) = SubSeq(val, Clip(Len(val), lo) + 1, Clip(Len(val), hi))
<1> DEFINE n == Len(val)
           clip(x) == IF x < 0 THEN Greatest({0, n + x}) ELSE Least(x, n)
<1>1. n \in Nat
  OBVIOUS
<1>2. \A x \in Int : clip(x) = Clip(n, x)
  <2> TAKE x \in Int
  <2>1. n + x \in Int
    BY <1>1
  <2>2. Greatest({0, n + x}) = IF n + x < 0 THEN 0 ELSE n + x
    BY <2>1, GreatestOfTwo
  <2> QED BY <2>2 DEF Clip
<1>3. PySlice(val, lo, hi) = SubSeq(val, clip(lo) + 1, clip(hi))
  BY DEF PySlice
<1> QED BY <1>2, <1>3

(* GETRANGE answers the elements between its bounds. *)
LEMMA GetrangeBetween ==
  ASSUME NEW q, q.val \in Seq(Value), q.start \in Int, q.end \in Int, q.end >= -(Len(q.val) + 1)
  PROVE  GETRANGE(q) = Between(q.val, q.start, q.end)
<1> DEFINE val == q.val
           n == Len(val)
           start == q.start
           end == q.end
           stop == IF end >= 0 THEN end + 1 ELSE n + end + 1
           lo == Clip(n, start) + 1
           hi == Clip(n, stop)
           s == At(val, start)
           to == At(val, end)
           P == {i \in 1 .. n : s <= i - 1 /\ i - 1 <= to}
<1>1. n \in Nat /\ start \in Int /\ end \in Int /\ end >= -(n + 1) /\ val \in Seq(Value)
  OBVIOUS
<1>2. GETRANGE(q) = PySlice(val, start, stop)
  BY DEF GETRANGE
<1> HIDE DEF n, start, end, val
<1>3. s = (IF start < 0 THEN n + start ELSE start) /\ to = (IF end < 0 THEN n + end ELSE end)
  BY DEF At, n
<1>4. stop \in Int
  BY <1>1
<1>5. PySlice(val, start, stop) = SubSeq(val, lo, hi)
  <2> HIDE DEF stop
  <2> QED BY <1>1, <1>4, PySliceIs DEF n
<1>6. Stretch(P, n, lo, hi) /\ lo \in Int /\ hi \in Int
  <2> HIDE DEF s, to
  <2> QED BY <1>1, <1>3 DEF Stretch, Clip, Least
<1>7. Between(val, start, end) = SubSeq(val, lo, hi)
  <2> HIDE DEF lo, hi, P
  <2> QED BY <1>1, <1>6, BetweenStretch DEF P, s, to, n
<1> QED BY <1>2, <1>5, <1>7 DEF val, start, end

-----------------------------------------------------------------------------
(* Ranges of scores and members *)

(* A set of positions without gaps is as long as it reaches. *)
LEMMA PrefixCount ==
  ASSUME NEW N \in Nat, NEW P, P \subseteq 1 .. N,
         \A i, j \in 1 .. N : i < j /\ j \in P => i \in P
  PROVE  Cardinality(P) \in 0 .. N /\ P = 1 .. Cardinality(P)
<1> DEFINE T == {k \in 0 .. N : k + 1 \notin P}
<1>1. N \in T /\ T \subseteq Nat
  OBVIOUS
<1>2. PICK k \in T : \A l \in T : k <= l
  <2> HIDE DEF T
  <2> QED BY <1>1, LeastNatural
<1>3. k \in 0 .. N /\ k + 1 \notin P
  BY <1>2
<1>4. \A i \in 1 .. k : i \in P
  <2> TAKE i \in 1 .. k
  <2> DEFINE l == i - 1
  <2>1. l \in 0 .. N /\ ~(k <= l) /\ l + 1 = i
    BY <1>3
  <2> HIDE DEF l
  <2>2. l \notin T
    <3> HIDE DEF T
    <3> QED BY <1>2, <2>1
  <2>3. l + 1 \in P
    BY <2>1, <2>2
  <2> QED BY <2>1, <2>3
<1>5. \A i \in P : i <= k
  <2> SUFFICES ASSUME NEW i \in P, ~(i <= k) PROVE FALSE
    OBVIOUS
  <2>1. i \in 1 .. N /\ k + 1 \in 1 .. N /\ (i = k + 1 \/ k + 1 < i)
    BY <1>3
  <2> QED BY <2>1, <1>3
<1>6. P = 1 .. k
  <2>1. \A i \in P : i \in 1 .. k
    BY <1>3, <1>5
  <2> QED BY <1>4, <2>1
<1>7. Cardinality(P) = k
  BY <1>3, <1>6, FS_Interval
<1> QED BY <1>3, <1>6, <1>7

(* A zset's pairs come by rising score. *)
LEMMA ScoresSorted ==
  ASSUME NEW pairs \in Sorted
  PROVE  /\ pairs \in Seq(Int \X Int)
         /\ \A i \in 1 .. Len(pairs) : pairs[i][1] \in Int /\ pairs[i][2] \in Int
         /\ \A i, j \in 1 .. Len(pairs) : i < j => pairs[i][1] <= pairs[j][1]
<1>1. pairs \in Seq(Int \X Int) /\ DOMAIN pairs = 1 .. Len(pairs)
  BY DEF Sorted
<1>2. \A i \in 1 .. Len(pairs) : pairs[i][1] \in Int /\ pairs[i][2] \in Int
  <2> TAKE i \in 1 .. Len(pairs)
  <2>1. pairs[i] \in Int \X Int
    BY <1>1
  <2> QED BY <2>1
<1>3. \A i, j \in 1 .. Len(pairs) : i < j => \/ pairs[i][1] < pairs[j][1]
                                             \/ pairs[i][1] = pairs[j][1] /\ pairs[i][2] < pairs[j][2]
  BY <1>1 DEF Sorted
<1>4. \A i, j \in 1 .. Len(pairs) : i < j => pairs[i][1] <= pairs[j][1]
  BY <1>2, <1>3
<1> QED BY <1>1, <1>2, <1>4

(* The bisections cut the list where the scores pass the bound. *)
LEMMA BisectLeftCuts ==
  ASSUME NEW pairs \in Sorted, NEW score \in Int
  PROVE  /\ BisectLeft(pairs, score) \in 0 .. Len(pairs)
         /\ \A i \in 1 .. Len(pairs) : i <= BisectLeft(pairs, score) <=> pairs[i][1] < score
<1> DEFINE P == {i \in 1 .. Len(pairs) : pairs[i][1] < score}
           N == Len(pairs)
<1>1. DOMAIN pairs = 1 .. N /\ N \in Nat
  BY ScoresSorted
<1>2. BisectLeft(pairs, score) = Cardinality(P)
  BY <1>1 DEF BisectLeft
<1>3. P \subseteq 1 .. N /\ \A i, j \in 1 .. N : i < j /\ j \in P => i \in P
  <2>1. \A i, j \in 1 .. N : i < j /\ j \in P => i \in P
    <3> SUFFICES ASSUME NEW i \in 1 .. N, NEW j \in 1 .. N, i < j, j \in P
                 PROVE  i \in P
      OBVIOUS
    <3> DEFINE x == pairs[i][1]
               y == pairs[j][1]
    <3>1. x \in Int /\ y \in Int /\ x <= y
      BY ScoresSorted
    <3>2. y < score
      OBVIOUS
    <3>3. x < score
      <4> HIDE DEF x, y
      <4> QED BY <3>1, <3>2
    <3> QED BY <3>3
  <2> QED BY <2>1
<1>4. Cardinality(P) \in 0 .. N /\ P = 1 .. Cardinality(P)
  <2> HIDE DEF P, N
  <2> QED BY <1>1, <1>3, PrefixCount
<1>5. \A i \in 1 .. N : i \in P <=> pairs[i][1] < score
  OBVIOUS
<1> HIDE DEF P
<1> QED BY <1>1, <1>2, <1>4, <1>5

LEMMA BisectRightCuts ==
  ASSUME NEW pairs \in Sorted, NEW score \in Int
  PROVE  /\ BisectRight(pairs, score) \in 0 .. Len(pairs)
         /\ \A i \in 1 .. Len(pairs) : i <= BisectRight(pairs, score) <=> pairs[i][1] <= score
<1> DEFINE P == {i \in 1 .. Len(pairs) : pairs[i][1] <= score}
           N == Len(pairs)
<1>1. DOMAIN pairs = 1 .. N /\ N \in Nat
  BY ScoresSorted
<1>2. BisectRight(pairs, score) = Cardinality(P)
  BY <1>1 DEF BisectRight
<1>3. P \subseteq 1 .. N /\ \A i, j \in 1 .. N : i < j /\ j \in P => i \in P
  <2>1. \A i, j \in 1 .. N : i < j /\ j \in P => i \in P
    <3> SUFFICES ASSUME NEW i \in 1 .. N, NEW j \in 1 .. N, i < j, j \in P
                 PROVE  i \in P
      OBVIOUS
    <3> DEFINE x == pairs[i][1]
               y == pairs[j][1]
    <3>1. x \in Int /\ y \in Int /\ x <= y
      BY ScoresSorted
    <3>2. y <= score
      OBVIOUS
    <3>3. x <= score
      <4> HIDE DEF x, y
      <4> QED BY <3>1, <3>2
    <3> QED BY <3>3
  <2> QED BY <2>1
<1>4. Cardinality(P) \in 0 .. N /\ P = 1 .. Cardinality(P)
  <2> HIDE DEF P, N
  <2> QED BY <1>1, <1>3, PrefixCount
<1>5. \A i \in 1 .. N : i \in P <=> pairs[i][1] <= score
  OBVIOUS
<1> HIDE DEF P
<1> QED BY <1>1, <1>2, <1>4, <1>5

-----------------------------------------------------------------------------
(* The positions of the pairs within both bounds. *)
Inside(q, c) ==
    {i \in 1 .. Len(q.pairs) : /\ Above(q.pairs[i][c], q.lo, q.lo_open)
                               /\ Below(q.pairs[i][c], q.hi, q.hi_open)}

(* A range of scores answers the pairs whose score satisfies both bounds. *)
LEMMA ScorePairsPicked ==
  ASSUME NEW q, q.pairs \in Sorted, q.lo \in Int, q.hi \in Int, None \notin Int
  PROVE  ScorePairs(q.pairs, q) = Picked(q.pairs, Inside(q, 1))
<1> DEFINE pairs == q.pairs
           N == Len(pairs)
           from == IF q.lo_open THEN BisectRight(pairs, q.lo) ELSE BisectLeft(pairs, q.lo)
           to == IF q.hi_open THEN BisectLeft(pairs, q.hi) ELSE BisectRight(pairs, q.hi)
           P == Inside(q, 1)
<1>1. N \in Nat /\ pairs \in Seq(Int \X Int) /\ \A i \in 1 .. N : pairs[i][1] \in Int
  BY ScoresSorted
<1>2. from \in 0 .. N /\ \A i \in 1 .. N : from < i <=> Above(pairs[i][1], q.lo, q.lo_open)
  <2>1. q.lo # None
    OBVIOUS
  <2>2. CASE q.lo_open
    <3>1. from = BisectRight(pairs, q.lo)
      BY <2>2
    <3> HIDE DEF from
    <3>2. from \in 0 .. N /\ \A i \in 1 .. N : i <= from <=> pairs[i][1] <= q.lo
      BY <3>1, BisectRightCuts
    <3>3. ASSUME NEW i \in 1 .. N PROVE from < i <=> Above(pairs[i][1], q.lo, q.lo_open)
      <4> DEFINE score == pairs[i][1]
                 bound == q.lo
      <4>1. score \in Int /\ bound \in Int /\ bound # None /\ from \in Int /\ i \in Int
            /\ (i <= from <=> score <= bound)
        BY <1>1, <2>1, <3>2
      <4> HIDE DEF score, bound, N
      <4>2. from < i <=> Above(score, bound, q.lo_open)
        BY <4>1, <2>2 DEF Above
      <4> QED BY <4>2 DEF score, bound
    <3> QED BY <3>2, <3>3
  <2>3. CASE ~q.lo_open
    <3>1. from = BisectLeft(pairs, q.lo)
      BY <2>3
    <3> HIDE DEF from
    <3>2. from \in 0 .. N /\ \A i \in 1 .. N : i <= from <=> pairs[i][1] < q.lo
      BY <3>1, BisectLeftCuts
    <3>3. ASSUME NEW i \in 1 .. N PROVE from < i <=> Above(pairs[i][1], q.lo, q.lo_open)
      <4> DEFINE score == pairs[i][1]
                 bound == q.lo
      <4>1. score \in Int /\ bound \in Int /\ bound # None /\ from \in Int /\ i \in Int
            /\ (i <= from <=> score < bound)
        BY <1>1, <2>1, <3>2
      <4> HIDE DEF score, bound, N
      <4>2. from < i <=> Above(score, bound, q.lo_open)
        BY <4>1, <2>3 DEF Above
      <4> QED BY <4>2 DEF score, bound
    <3> QED BY <3>2, <3>3
  <2> QED BY <2>2, <2>3
<1>3. to \in 0 .. N /\ \A i \in 1 .. N : i <= to <=> Below(pairs[i][1], q.hi, q.hi_open)
  <2>1. q.hi # None
    OBVIOUS
  <2>2. CASE q.hi_open
    <3>1. to = BisectLeft(pairs, q.hi)
      BY <2>2
    <3> HIDE DEF to
    <3>2. to \in 0 .. N /\ \A i \in 1 .. N : i <= to <=> pairs[i][1] < q.hi
      BY <3>1, BisectLeftCuts
    <3>3. ASSUME NEW i \in 1 .. N PROVE i <= to <=> Below(pairs[i][1], q.hi, q.hi_open)
      <4> DEFINE score == pairs[i][1]
                 bound == q.hi
      <4>1. score \in Int /\ bound \in Int /\ bound # None /\ to \in Int /\ i \in Int
            /\ (i <= to <=> score < bound)
        BY <1>1, <2>1, <3>2
      <4> HIDE DEF score, bound, N
      <4>2. i <= to <=> Below(score, bound, q.hi_open)
        BY <4>1, <2>2 DEF Below
      <4> QED BY <4>2 DEF score, bound
    <3> QED BY <3>2, <3>3
  <2>3. CASE ~q.hi_open
    <3>1. to = BisectRight(pairs, q.hi)
      BY <2>3
    <3> HIDE DEF to
    <3>2. to \in 0 .. N /\ \A i \in 1 .. N : i <= to <=> pairs[i][1] <= q.hi
      BY <3>1, BisectRightCuts
    <3>3. ASSUME NEW i \in 1 .. N PROVE i <= to <=> Below(pairs[i][1], q.hi, q.hi_open)
      <4> DEFINE score == pairs[i][1]
                 bound == q.hi
      <4>1. score \in Int /\ bound \in Int /\ bound # None /\ to \in Int /\ i \in Int
            /\ (i <= to <=> score <= bound)
        BY <1>1, <2>1, <3>2
      <4> HIDE DEF score, bound, N
      <4>2. i <= to <=> Below(score, bound, q.hi_open)
        BY <4>1, <2>3 DEF Below
      <4> QED BY <4>2 DEF score, bound
    <3> QED BY <3>2, <3>3
  <2> QED BY <2>2, <2>3
<1>4. ScorePairs(pairs, q) = PySlice(pairs, from, to)
  BY DEF ScorePairs
<1> HIDE DEF from, to
<1>5. ScorePairs(pairs, q) = SubSeq(pairs, from + 1, to)
  <2>1. Clip(N, from) = from /\ Clip(N, to) = to /\ from \in Int /\ to \in Int
    <3> HIDE DEF N
    <3> QED BY <1>1, <1>2, <1>3 DEF Clip, Least
  <2> HIDE DEF pairs
  <2> QED BY <1>1, <1>4, <2>1, PySliceIs
<1>6. Stretch(P, N, from + 1, to)
  <2>1. \A i \in 1 .. N : i \in P <=> from < i /\ i <= to
    BY <1>2, <1>3 DEF Inside
  <2> HIDE DEF P, N, pairs
  <2> QED BY <1>1, <1>2, <1>3, <2>1 DEF Stretch
<1>7. Picked(pairs, P) = SubSeq(pairs, from + 1, to)
  <2>1. from + 1 \in Int /\ to \in Int
    <3> HIDE DEF N
    <3> QED BY <1>1, <1>2, <1>3
  <2> HIDE DEF P, pairs
  <2> QED BY <1>1, <1>6, <2>1, PickedStretch
<1> QED BY <1>5, <1>7

(* A range of members answers the pairs whose member satisfies both        *)
(* bounds.                                                                 *)
LEMMA MemberPairsPicked ==
  ASSUME NEW q, q.pairs \in Sorted, q.lo \in Int \cup {None}, q.hi \in Int \cup {None}
  PROVE  MemberPairs(q.pairs, q) = Picked(q.pairs, Inside(q, 2))
<1> DEFINE pairs == q.pairs
           skipped(m) ==
             \/ q.lo # None /\ (m < q.lo \/ (q.lo_open /\ m = q.lo))
             \/ q.hi # None /\ (m > q.hi \/ (q.hi_open /\ m = q.hi))
           P == {i \in DOMAIN pairs : ~skipped(pairs[i][2])}
<1>1. /\ pairs \in Seq(Int \X Int) /\ DOMAIN pairs = 1 .. Len(pairs)
      /\ \A i \in 1 .. Len(pairs) : pairs[i][2] \in Int
  BY ScoresSorted
<1>2. MemberPairs(pairs, q) = Picked(pairs, P)
  BY DEF MemberPairs
<1>3. \A m \in Int : ~skipped(m) <=> Above(m, q.lo, q.lo_open) /\ Below(m, q.hi, q.hi_open)
  <2> TAKE m \in Int
  <2>1. (q.lo # None /\ (m < q.lo \/ (q.lo_open /\ m = q.lo))) <=> ~Above(m, q.lo, q.lo_open)
    <3>1. CASE q.lo = None
      BY <3>1 DEF Above
    <3>2. CASE q.lo # None
      <4>1. q.lo \in Int
        BY <3>2
      <4> QED BY <4>1, <3>2 DEF Above
    <3> QED BY <3>1, <3>2
  <2>2. (q.hi # None /\ (m > q.hi \/ (q.hi_open /\ m = q.hi))) <=> ~Below(m, q.hi, q.hi_open)
    <3>1. CASE q.hi = None
      BY <3>1 DEF Below
    <3>2. CASE q.hi # None
      <4>1. q.hi \in Int
        BY <3>2
      <4> QED BY <4>1, <3>2 DEF Below
    <3> QED BY <3>1, <3>2
  <2> QED BY <2>1, <2>2
<1>4. P = Inside(q, 2)
  <2> HIDE DEF skipped
  <2> QED BY <1>1, <1>3 DEF Inside
<1> QED BY <1>2, <1>4

(* How many of the positions P come before i, from either end. *)
Placed(P, rev, i) == Cardinality({j \in P : IF rev THEN j > i ELSE j < i})

(* The place of a position among those of P, counted from the start. *)
LEMMA PlacedForward ==
  ASSUME NEW n \in Nat, NEW P, P \subseteq 1 .. n, NEW i \in P
  PROVE  Placed(P, FALSE, i) = Count(P, i) - 1
<1> DEFINE l == i - 1
<1>1. l \in Nat /\ l + 1 = i
  OBVIOUS
<1>2. {j \in P : IF FALSE THEN j > i ELSE j < i} = P \cap (1 .. l)
  <2>1. \A j \in P : j < i <=> j \in 1 .. l
    <3> TAKE j \in P
    <3>1. j \in 1 .. n /\ i \in 1 .. n
      OBVIOUS
    <3> QED BY <3>1
  <2> QED BY <2>1
<1>3. Placed(P, FALSE, i) = Count(P, l)
  BY <1>2 DEF Placed, Count
<1>4. l + 1 \in P => Count(P, l + 1) = Count(P, l) + 1
  <2> HIDE DEF l
  <2> QED BY <1>1, CountFacts
<1>5. Count(P, l) \in Nat
  <2> HIDE DEF l
  <2> QED BY <1>1, CountFacts
<1> HIDE DEF l
<1>6. Count(P, i) = Count(P, l) + 1
  BY <1>1, <1>4
<1> DEFINE p == Placed(P, FALSE, i)
<1>7. p = Count(P, l)
  BY <1>3
<1> HIDE DEF p
<1>8. p = Count(P, i) - 1
  BY <1>5, <1>6, <1>7
<1> QED BY <1>8 DEF p

(* The same, counted from the end. *)
LEMMA PlacedBackward ==
  ASSUME NEW n \in Nat, NEW P, P \subseteq 1 .. n, NEW i \in P
  PROVE  Placed(P, TRUE, i) = Count(P, n) - Count(P, i)
<1> DEFINE A == P \cap (1 .. i)
           B == {j \in P : j > i}
<1>1. i \in 1 .. n
  OBVIOUS
<1>2. IsFiniteSet(P)
  <2>1. P \in SUBSET (1 .. n) /\ IsFiniteSet(1 .. n)
    BY FS_Interval
  <2> QED BY <2>1, FS_Subset
<1>3. P \cap (1 .. n) = P /\ B = P \ A /\ P \cap A = A
  <2>1. \A j \in P : j \in 1 .. n /\ (j > i <=> ~(j \in 1 .. i))
    BY <1>1
  <2> QED BY <2>1
<1>4. Cardinality(P \ A) = Cardinality(P) - Cardinality(P \cap A)
  <2> HIDE DEF A
  <2> QED BY <1>2, FS_Difference
<1>5. {j \in P : IF TRUE THEN j > i ELSE j < i} = B
  OBVIOUS
<1>6. Cardinality(B) = Cardinality(P) - Cardinality(A)
  <2> HIDE DEF A, B
  <2> QED BY <1>3, <1>4
<1> QED BY <1>3, <1>5, <1>6 DEF Placed, Count

(* The positions that LIMIT's window keeps. *)
Limited(P, rev, limit) ==
    {i \in P : \/ limit = <<>>
               \/ /\ limit[1] >= 0 /\ Placed(P, rev, i) >= limit[1]
                  /\ limit[2] < 0 \/ Placed(P, rev, i) < limit[1] + limit[2]}

(* LIMIT keeps the pairs whose place lies in its window. *)
LEMMA LimitPairsForward ==
  ASSUME NEW S, NEW x \in Seq(S), NEW P, P \subseteq 1 .. Len(x),
         NEW limit, limit # <<>>, limit[1] \in Nat, limit[2] \in Int
  PROVE  LimitPairs(Picked(x, P), limit) = Picked(x, Limited(P, FALSE, limit))
<1> DEFINE z == Picked(x, P)
           n == Len(x)
           K == Count(P, n)
           a == limit[1]
           c == limit[2]
           stop == a + (IF c < 0 THEN K ELSE c)
           u == Least(a, K) + 1
           v == Least(stop, K)
           Q == Limited(P, FALSE, limit)
<1>1. n \in Nat /\ a \in Nat /\ c \in Int
  OBVIOUS
<1>2. z \in Seq(S) /\ Len(z) = K /\ K \in Nat /\ \A p \in P \cap (1 .. n) : Count(P, p) \in 1 .. K
  BY PickedFacts
<1>3. LimitPairs(z, limit) = PySlice(z, a, stop)
  <2> HIDE DEF z
  <2>1. ~(limit[1] < 0)
    OBVIOUS
  <2> QED BY <1>2, <2>1 DEF LimitPairs
<1>4. stop \in Int /\ Clip(K, a) + 1 = u /\ Clip(K, stop) = v
  <2> HIDE DEF K, a, c
  <2> QED BY <1>1, <1>2 DEF Clip, Least
<1>5. PySlice(z, a, stop) = SubSeq(z, u, v)
  <2> HIDE DEF z, K, stop, u, v
  <2> QED BY <1>1, <1>2, <1>4, PySliceIs
<1>6. u \in Nat /\ v \in Int /\ 1 <= u /\ u - 1 <= v /\ v <= K
  <2> HIDE DEF K, a, c
  <2> QED BY <1>1, <1>2 DEF Least
<1>7. Within(Q, P, n, u, v)
  <2>1. ASSUME NEW i \in 1 .. n PROVE i \in Q <=> i \in P /\ u <= Count(P, i) /\ Count(P, i) <= v
    <3>1. CASE i \notin P
      BY <3>1 DEF Limited
    <3>2. CASE i \in P
      <4> DEFINE k == Count(P, i)
                 l == Placed(P, FALSE, i)
      <4>1. l = k - 1
        <5> HIDE DEF l, k, n
        <5> QED BY <1>1, <3>2, PlacedForward DEF l, k, n
      <4>2. k \in 1 .. K
        BY <1>2, <3>2
      <4>3. i \in Q <=> l >= a /\ (c < 0 \/ l < a + c)
        <5>1. i \in Q <=> limit = <<>> \/ (a >= 0 /\ l >= a /\ (c < 0 \/ l < a + c))
          BY <3>2, Zenon DEF Limited
        <5> HIDE DEF l, a, c, Q
        <5> QED BY <5>1, <1>1
      <4> HIDE DEF k, l, K, a, c, Q
      <4>4. i \in Q <=> u <= k /\ k <= v
        BY <1>1, <1>2, <4>1, <4>2, <4>3 DEF Least
      <4> QED BY <4>4, <3>2 DEF k
    <3> QED BY <3>1, <3>2
  <2> HIDE DEF Q, u, v
  <2> QED BY <2>1 DEF Within
<1>8. SubSeq(z, u, v) = Picked(x, Q)
  <2> HIDE DEF Q, u, v
  <2> QED BY <1>6, <1>7, PickedWindow
<1> QED BY <1>3, <1>5, <1>8

(* LIMIT counts from the end when the range is reversed. *)
LEMMA LimitPairsBackward ==
  ASSUME NEW S, NEW x \in Seq(S), NEW P, P \subseteq 1 .. Len(x),
         NEW limit, limit # <<>>, limit[1] \in Nat, limit[2] \in Int
  PROVE  LimitPairs(SX!Reverse(Picked(x, P)), limit) = SX!Reverse(Picked(x, Limited(P, TRUE, limit)))
<1> DEFINE y == Picked(x, P)
           z == SX!Reverse(y)
           n == Len(x)
           K == Count(P, n)
           a == limit[1]
           c == limit[2]
           stop == a + (IF c < 0 THEN K ELSE c)
           u == Least(a, K) + 1
           v == Least(stop, K)
           lo == K + 1 - v
           hi == K + 1 - u
           Q == Limited(P, TRUE, limit)
<1>1. n \in Nat /\ a \in Nat /\ c \in Int
  OBVIOUS
<1>2. y \in Seq(S) /\ Len(y) = K /\ K \in Nat /\ \A p \in P \cap (1 .. n) : Count(P, p) \in 1 .. K
  BY PickedFacts
<1>3. z \in Seq(S) /\ Len(z) = K
  <2> HIDE DEF y
  <2> QED BY <1>2, ReverseFacts
<1>4. LimitPairs(z, limit) = PySlice(z, a, stop)
  <2> HIDE DEF z
  <2>1. ~(limit[1] < 0)
    OBVIOUS
  <2> QED BY <1>3, <2>1 DEF LimitPairs
<1>5. stop \in Int /\ Clip(K, a) + 1 = u /\ Clip(K, stop) = v
  <2> HIDE DEF K, a, c
  <2> QED BY <1>1, <1>2 DEF Clip, Least
<1>6. PySlice(z, a, stop) = SubSeq(z, u, v)
  <2> HIDE DEF z, K, stop, u, v
  <2> QED BY <1>1, <1>3, <1>5, PySliceIs
<1>7. /\ u \in Nat /\ v \in Int /\ 1 <= u /\ u - 1 <= v /\ v <= K
      /\ lo \in Nat /\ hi \in Int /\ 1 <= lo /\ lo - 1 <= hi /\ hi <= K
  <2> HIDE DEF K, a, c
  <2> QED BY <1>1, <1>2 DEF Least
<1>8. SubSeq(z, u, v) = SX!Reverse(SubSeq(y, lo, hi))
  <2> HIDE DEF y, K, u, v
  <2> QED BY <1>2, <1>7, SubSeqOfReverse
<1>9. Within(Q, P, n, lo, hi)
  <2>1. ASSUME NEW i \in 1 .. n PROVE i \in Q <=> i \in P /\ lo <= Count(P, i) /\ Count(P, i) <= hi
    <3>1. CASE i \notin P
      BY <3>1 DEF Limited
    <3>2. CASE i \in P
      <4> DEFINE k == Count(P, i)
                 l == Placed(P, TRUE, i)
      <4>1. l = K - k
        <5> HIDE DEF l, k, n, K
        <5> QED BY <1>1, <3>2, PlacedBackward DEF l, k, n, K
      <4>2. k \in 1 .. K
        BY <1>2, <3>2
      <4>3. i \in Q <=> l >= a /\ (c < 0 \/ l < a + c)
        <5>1. i \in Q <=> limit = <<>> \/ (a >= 0 /\ l >= a /\ (c < 0 \/ l < a + c))
          BY <3>2, Zenon DEF Limited
        <5> HIDE DEF l, a, c, Q
        <5> QED BY <5>1, <1>1
      <4> HIDE DEF k, l, K, a, c, Q
      <4>4. i \in Q <=> lo <= k /\ k <= hi
        BY <1>1, <1>2, <4>1, <4>2, <4>3 DEF Least
      <4> QED BY <4>4, <3>2 DEF k
    <3> QED BY <3>1, <3>2
  <2> HIDE DEF Q, lo, hi
  <2> QED BY <2>1 DEF Within
<1>10. SubSeq(y, lo, hi) = Picked(x, Q)
  <2> HIDE DEF Q, lo, hi
  <2> QED BY <1>7, <1>9, PickedWindow
<1> QED BY <1>4, <1>6, <1>8, <1>10

(* ZRANGE by score or member: both bounds and LIMIT's window, in either    *)
(* direction.                                                              *)
LEMMA ZRangeBounds ==
  ASSUME NEW q, NEW c,
         \/ q \in BoundsQuery("byscore", Int) /\ c = 1
         \/ q \in BoundsQuery("bylex", Int \cup {None}) /\ c = 2,
         None \notin Int
  PROVE  ZRANGE(q) = LET chosen == Picked(q.pairs, Limited(Inside(q, c), q.rev, q.limit))
                     IN IF q.rev THEN SX!Reverse(chosen) ELSE chosen
<1> DEFINE x == q.pairs
           P == Inside(q, c)
           base == Picked(x, P)
           turned == IF q.rev THEN SX!Reverse(base) ELSE base
           chosen == Picked(x, Limited(P, q.rev, q.limit))
<1>1. /\ x \in Sorted /\ q.rev \in BOOLEAN /\ q.limit \in {<<>>} \cup (Int \X Int)
      /\ \/ q.mode = "byscore" /\ c = 1 /\ q.lo \in Int /\ q.hi \in Int
         \/ q.mode = "bylex" /\ c = 2 /\ q.lo \in Int \cup {None} /\ q.hi \in Int \cup {None}
  BY DEF BoundsQuery
<1>2. x \in Seq(Int \X Int) /\ P \subseteq 1 .. Len(x)
  BY <1>1, ScoresSorted DEF Inside
<1>3. RangePairs(q) = turned
  <2>1. CASE q.mode = "byscore" /\ c = 1 /\ q.lo \in Int /\ q.hi \in Int
    <3>1. ScorePairs(x, q) = base
      BY <1>1, <2>1, ScorePairsPicked
    <3>2. RangePairs(q) = IF q.rev THEN SX!Reverse(ScorePairs(x, q)) ELSE ScorePairs(x, q)
      BY <2>1 DEF RangePairs
    <3> QED BY <3>1, <3>2
  <2>2. CASE q.mode = "bylex" /\ c = 2 /\ q.lo \in Int \cup {None} /\ q.hi \in Int \cup {None}
    <3>1. MemberPairs(x, q) = base
      BY <1>1, <2>2, MemberPairsPicked
    <3>2. RangePairs(q) = IF q.rev THEN SX!Reverse(MemberPairs(x, q)) ELSE MemberPairs(x, q)
      BY <2>2 DEF RangePairs
    <3> QED BY <3>1, <3>2
  <2> QED BY <1>1, <2>1, <2>2
<1> HIDE DEF x, P
<1>4. ZRANGE(q) = LimitPairs(turned, q.limit)
  BY <1>3 DEF ZRANGE
<1>5. CASE q.limit = <<>>
  <2>1. Limited(P, q.rev, q.limit) = P
    BY <1>5, Zenon DEF Limited
  <2>2. LimitPairs(turned, q.limit) = turned
    BY <1>5, Zenon DEF LimitPairs
  <2> QED BY <1>4, <2>1, <2>2 DEF x, P
<1>6. CASE q.limit # <<>> /\ q.limit[1] < 0
  <2>1. q.limit[1] \in Int /\ ~(q.limit[1] >= 0)
    BY <1>1, <1>6
  <2>2. Limited(P, q.rev, q.limit) = {}
    BY <1>6, <2>1, Zenon DEF Limited
  <2>3. LimitPairs(turned, q.limit) = <<>>
    BY <1>6, Zenon DEF LimitPairs
  <2>4. Spans({}, Len(x), 1, 0)
    BY <1>2 DEF Spans
  <2>5. Picked(x, {}) = SubSeq(x, 1, 0)
    BY <1>2, <2>4, PickedInterval
  <2>6. Picked(x, {}) = <<>>
    BY <2>5, SubSeqEmpty
  <2>7. SX!Reverse(<<>>) = <<>>
    <3>1. <<>> \in Seq(Int) /\ Len(<<>>) = 0
      OBVIOUS
    <3>2. SX!Reverse(<<>>) \in Seq(Int) /\ Len(SX!Reverse(<<>>)) = 0
      BY <3>1, ReverseFacts
    <3> DEFINE r == SX!Reverse(<<>>)
    <3>3. r \in Seq(Int) /\ Len(r) = 0
      BY <3>2
    <3> HIDE DEF r
    <3>4. r = <<>>
      BY <3>3
    <3> QED BY <3>4 DEF r
  <2>8. chosen = <<>>
    BY <2>2, <2>6
  <2> QED BY <1>4, <2>3, <2>7, <2>8 DEF x, P
<1>7. CASE q.limit # <<>> /\ ~(q.limit[1] < 0)
  <2>1. q.limit[1] \in Nat /\ q.limit[2] \in Int
    BY <1>1, <1>7
  <2>2. CASE q.rev = TRUE
    <3>1. LimitPairs(SX!Reverse(base), q.limit) = SX!Reverse(Picked(x, Limited(P, TRUE, q.limit)))
      BY <1>2, <1>7, <2>1, LimitPairsBackward
    <3> QED BY <1>4, <2>2, <3>1 DEF x, P
  <2>3. CASE q.rev = FALSE
    <3>1. LimitPairs(base, q.limit) = Picked(x, Limited(P, FALSE, q.limit))
      BY <1>2, <1>7, <2>1, LimitPairsForward
    <3> QED BY <1>4, <2>3, <3>1 DEF x, P
  <2> QED BY <1>1, <2>2, <2>3
<1> QED BY <1>5, <1>6, <1>7

(* ZRANGE by rank, in either direction. *)
LEMMA ZRangeRank ==
  ASSUME NEW q, q \in RankQuery
  PROVE  ZRANGE(q) = Between(IF q.rev THEN SX!Reverse(q.pairs) ELSE q.pairs, q.lo, q.hi)
<1> DEFINE x == q.pairs
           turned == IF q.rev THEN SX!Reverse(x) ELSE x
<1>1. q.pairs \in Sorted /\ q.limit = <<>> /\ q.mode = "rank" /\ q.lo \in Int /\ q.hi \in Int
  BY DEF RankQuery
<1>2. turned \in Seq(Int \X Int)
  <2>1. x \in Seq(Int \X Int)
    BY <1>1, ScoresSorted
  <2> HIDE DEF x
  <2>2. SX!Reverse(x) \in Seq(Int \X Int)
    BY <2>1, ReverseFacts
  <2> QED BY <2>1, <2>2
<1>3. RangePairs(q) = Window(turned, q.lo, q.hi)
  BY <1>1 DEF RangePairs
<1>4. ZRANGE(q) = RangePairs(q)
  BY <1>1, Zenon DEF ZRANGE, LimitPairs
<1> HIDE DEF turned
<1>5. Window(turned, q.lo, q.hi) = Between(turned, q.lo, q.hi)
  BY <1>1, <1>2, WindowBetween
<1> QED BY <1>3, <1>4, <1>5 DEF turned

-----------------------------------------------------------------------------
(* LPOS *)

(* As PickedWindow, but u and v may be any distance apart. *)
LEMMA PickedPart ==
  ASSUME NEW S, NEW x \in Seq(S), NEW P, NEW Q, NEW u \in Nat, NEW v \in Int,
         1 <= u, v <= Count(P, Len(x)), Within(Q, P, Len(x), u, v)
  PROVE  SubSeq(Picked(x, P), u, v) = Picked(x, Q)
<1>1. CASE u - 1 <= v
  BY <1>1, PickedWindow
<1>2. CASE ~(u - 1 <= v)
  <2>1. ASSUME NEW i \in 1 .. Len(x) PROVE Count(P, i) \in Nat
    <3>1. i \in Nat
      OBVIOUS
    <3> QED BY <3>1, CountFacts
  <2>2. Len(x) \in Nat /\ \A i \in 1 .. Len(x) : i \notin Q
    BY <1>2, <2>1 DEF Within
  <2>3. Spans(Q, Len(x), 1, 0)
    BY <2>2 DEF Spans
  <2>4. Picked(x, Q) = SubSeq(x, 1, 0)
    BY <2>3, PickedInterval
  <2>5. SubSeq(x, 1, 0) = <<>> /\ SubSeq(Picked(x, P), u, v) = <<>>
    BY <1>2, SubSeqEmpty
  <2> QED BY <2>4, <2>5
<1> QED BY <1>1, <1>2

(* The elements picked are those at the positions, in their order. *)
LEMMA PickedInOrder ==
  ASSUME NEW S, NEW x \in Seq(S), NEW P
  PROVE  \A i \in 1 .. Len(Picked(x, P)) :
           \E p \in P \cap (1 .. Len(x)) :
             /\ Count(P, p) = i /\ Picked(x, P)[i] = x[p]
             /\ i > 1 => \E o \in P \cap (1 .. Len(x)) :
                           Count(P, o) = i - 1 /\ o < p /\ Picked(x, P)[i - 1] = x[o]
<1> DEFINE y == Picked(x, P)
           n == Len(x)
           K == Count(P, n)
<1>1. n \in Nat /\ K \in Nat /\ Len(y) = K /\ \A p \in P \cap (1 .. n) : y[Count(P, p)] = x[p]
  BY PickedFacts
<1> HIDE DEF y, n
<1>2. \A i \in 1 .. K : \E p \in P \cap (1 .. n) : Count(P, p) = i /\ y[i] = x[p]
  <2> TAKE i \in 1 .. K
  <2>1. PICK p \in P \cap (1 .. n) : Count(P, p) = i
    BY <1>1, CountOnto
  <2> QED BY <2>1, <1>1
<1>3. ASSUME NEW i \in 1 .. K
      PROVE  \E p \in P \cap (1 .. n) :
               /\ Count(P, p) = i /\ y[i] = x[p]
               /\ i > 1 => \E o \in P \cap (1 .. n) : Count(P, o) = i - 1 /\ o < p /\ y[i - 1] = x[o]
  <2>1. PICK p \in P \cap (1 .. n) : Count(P, p) = i /\ y[i] = x[p]
    BY <1>2
  <2>2. ASSUME i > 1
        PROVE  \E o \in P \cap (1 .. n) : Count(P, o) = i - 1 /\ o < p /\ y[i - 1] = x[o]
    <3> DEFINE l == i - 1
    <3>1. l \in 1 .. K /\ l < i
      BY <2>2, <1>1
    <3> HIDE DEF l
    <3>2. PICK o \in P \cap (1 .. n) : Count(P, o) = l /\ y[l] = x[o]
      BY <3>1, <1>2
    <3>3. o < p
      <4> SUFFICES ASSUME ~(o < p) PROVE FALSE
        OBVIOUS
      <4>1. o \in Nat /\ p \in 0 .. o
        OBVIOUS
      <4>2. Count(P, p) <= Count(P, o)
        BY <4>1, CountGrows
      <4> HIDE DEF K
      <4> QED BY <4>2, <3>1, <3>2, <2>1, <1>1
    <3> QED BY <3>2, <3>3 DEF l
  <2> QED BY <2>1, <2>2
<1> QED BY <1>1, <1>3 DEF y, n

-----------------------------------------------------------------------------
(* Where the i-th step of LPOS' walk looks. *)
Looks(tail, n, i) == IF tail THEN n - i ELSE i - 1

(* How far from the end it starts at a position lies. *)
Far(tail, n, p) == IF tail THEN n - 1 - p ELSE p

(* Steps and positions correspond: the i-th step looks at distance i - 1. *)
LEMMA LooksFar ==
  ASSUME NEW tail \in BOOLEAN, NEW n \in Nat
  PROVE  /\ \A i \in 1 .. n : /\ Looks(tail, n, i) \in 0 .. n - 1
                              /\ Far(tail, n, Looks(tail, n, i)) = i - 1
         /\ \A p \in 0 .. n - 1 : /\ Far(tail, n, p) + 1 \in 1 .. n
                                  /\ Looks(tail, n, Far(tail, n, p) + 1) = p
<1>1. CASE tail
  BY <1>1 DEF Looks, Far
<1>2. CASE ~tail
  BY <1>2 DEF Looks, Far
<1> QED BY <1>1, <1>2

(* What of H is found in i steps. *)
Near(tail, n, H, i) == {o \in 0 .. n - 1 : o \in H /\ Far(tail, n, o) <= i - 1}

(* The matches no further than a position are those of the steps up to it. *)
LEMMA MatchesCounted ==
  ASSUME NEW tail \in BOOLEAN, NEW n \in Nat, NEW H, NEW M, NEW i \in 1 .. n,
         \A j \in 1 .. i : j \in M <=> Looks(tail, n, j) \in H
  PROVE  Cardinality(Near(tail, n, H, i)) = Count(M, i)
<1> DEFINE A == M \cap (1 .. i)
           B == {o \in 0 .. n - 1 : o \in H /\ Far(tail, n, o) <= i - 1}
           f == [j \in A |-> Looks(tail, n, j)]
<1>1. IsFiniteSet(A)
  <2>1. IsFiniteSet(1 .. i) /\ A \in SUBSET (1 .. i)
    BY FS_Interval
  <2> HIDE DEF A
  <2> QED BY <2>1, FS_Subset
<1>2. \A j \in A : Looks(tail, n, j) \in B /\ Far(tail, n, Looks(tail, n, j)) = j - 1
  <2> TAKE j \in A
  <2> DEFINE o == Looks(tail, n, j)
  <2>1. j \in 1 .. n /\ j \in 1 .. i /\ o \in H
    OBVIOUS
  <2>2. o \in 0 .. n - 1 /\ Far(tail, n, o) = j - 1
    BY <2>1, LooksFar
  <2> HIDE DEF o
  <2>3. Far(tail, n, o) <= i - 1
    BY <2>1, <2>2
  <2>4. o \in B
    BY <2>1, <2>2, <2>3
  <2> QED BY <2>2, <2>4 DEF o
<1>3. \A o \in B : Far(tail, n, o) + 1 \in A /\ Looks(tail, n, Far(tail, n, o) + 1) = o
  <2> TAKE o \in B
  <2> DEFINE j == Far(tail, n, o) + 1
  <2>1. j \in 1 .. n /\ Looks(tail, n, j) = o
    BY LooksFar
  <2>2. j \in 1 .. i
    <3> DEFINE far == Far(tail, n, o)
    <3>1. far <= i - 1 /\ far + 1 \in 1 .. n
      BY <2>1
    <3>2. far \in Int
      BY DEF Far
    <3> HIDE DEF far
    <3>3. far + 1 \in 1 .. i
      BY <3>1, <3>2
    <3> QED BY <3>3 DEF far
  <2> HIDE DEF j
  <2>3. j \in M
    BY <2>1, <2>2
  <2>4. j \in A
    BY <2>2, <2>3
  <2> QED BY <2>1, <2>4 DEF j
<1> HIDE DEF A, B
<1>4. f \in [A -> B] /\ \A j \in A : f[j] = Looks(tail, n, j)
  BY <1>2
<1> HIDE DEF f
<1>5. \A j, k \in A : f[j] = f[k] => j = k
  <2> TAKE j, k \in A
  <2> HAVE f[j] = f[k]
  <2>1. j \in Int /\ k \in Int
    BY DEF A
  <2>2. j - 1 = k - 1
    BY <1>2, <1>4
  <2> QED BY <2>1, <2>2
<1>6. \A o \in B : \E j \in A : f[j] = o
  BY <1>3, <1>4
<1>7. f \in Bijection(A, B)
  BY <1>4, <1>5, <1>6 DEF Bijection, Injection, Surjection, IsInjective
<1>8. Cardinality(B) = Cardinality(A)
  <2>1. ExistsBijection(A, B)
    BY <1>7 DEF ExistsBijection
  <2> QED BY <1>1, <2>1, FS_Bijection
<1> QED BY <1>8 DEF A, B, Count, Near

(* The matches LPOS steps on, and those of them it answers. *)
LposRank(q) == IF q.rank < 0 THEN -q.rank ELSE q.rank
LposMany(q) == IF q.count = -1 THEN 1 ELSE IF q.count = 0 THEN Len(q.val) ELSE q.count
LposScanned(q) == IF q.maxlen = 0 THEN Len(q.val) ELSE Least(q.maxlen, Len(q.val))
LposWalk(q) == [i \in 1 .. LposScanned(q) |-> Looks(q.rank < 0, Len(q.val), i)]
LposMatches(q) == {i \in 1 .. LposScanned(q) : q.val[LposWalk(q)[i] + 1] = q.element}
LposAnswered(q) ==
    {i \in LposMatches(q) : /\ LposRank(q) <= Count(LposMatches(q), i)
                            /\ Count(LposMatches(q), i) <= LposRank(q) + LposMany(q) - 1}

(* The arguments of LPOS, and its walk. *)
LEMMA LposTyped ==
  ASSUME NEW q, q \in LposQuery
  PROVE  /\ q.val \in Seq(Value) /\ Len(q.val) \in Nat /\ q.rank \in Int /\ (q.rank < 0) \in BOOLEAN
         /\ q.maxlen \in Nat /\ q.count \in Nat \cup {-1}
         /\ LposRank(q) \in Nat /\ 1 <= LposRank(q)
         /\ LposMany(q) \in Nat /\ LposScanned(q) \in 0 .. Len(q.val)
         /\ LposWalk(q) \in Seq(Nat) /\ Len(LposWalk(q)) = LposScanned(q)
         /\ \A i \in 1 .. LposScanned(q) : LposWalk(q)[i] = Looks(q.rank < 0, Len(q.val), i)
<1>1. /\ q.val \in Seq(Value) /\ Len(q.val) \in Nat /\ q.rank \in Int \ {0}
      /\ q.maxlen \in Nat /\ q.count \in Nat \cup {-1}
  BY DEF LposQuery
<1> DEFINE n == Len(q.val)
           m == LposScanned(q)
           w == LposWalk(q)
<1>2. LposRank(q) \in Nat /\ 1 <= LposRank(q) /\ LposMany(q) \in Nat
  BY <1>1 DEF LposRank, LposMany
<1>3. m \in 0 .. n
  BY <1>1 DEF LposScanned, Least
<1>4. (q.rank < 0) \in BOOLEAN
  OBVIOUS
<1>5. \A i \in 1 .. n : Looks(q.rank < 0, n, i) \in 0 .. n - 1
  <2> HIDE DEF n
  <2> QED BY <1>1, <1>4, LooksFar DEF n
<1>6. w \in Seq(Nat) /\ Len(w) = m /\ \A i \in 1 .. m : w[i] = Looks(q.rank < 0, n, i)
  <2>1. \A i \in 1 .. m : Looks(q.rank < 0, n, i) \in Nat
    <3> HIDE DEF n, m
    <3>1. ASSUME NEW i \in 1 .. m PROVE Looks(q.rank < 0, n, i) \in Nat
      <4>1. i \in 1 .. n
        BY <1>1, <1>3 DEF n
      <4>2. Looks(q.rank < 0, n, i) \in 0 .. n - 1
        BY <4>1, <1>5
      <4> QED BY <4>2
    <3> QED BY <3>1
  <2>2. w = [i \in 1 .. m |-> Looks(q.rank < 0, n, i)]
    BY DEF LposWalk
  <2> HIDE DEF n, m, w
  <2> QED BY <2>1, <2>2, <1>3
<1> QED BY <1>1, <1>2, <1>3, <1>4, <1>6

(* LPOS answers the places of the matches from the RANK-th on, COUNT of    *)
(* them.                                                                   *)
LEMMA LposPicked ==
  ASSUME NEW q, q \in LposQuery
  PROVE  LPOS(q) = Picked(LposWalk(q), LposAnswered(q))
<1> DEFINE n == Len(q.val)
           w == LposWalk(q)
           m == LposScanned(q)
           M == LposMatches(q)
           Q == LposAnswered(q)
           K == Count(M, m)
           y == Picked(w, M)
           rank == LposRank(q)
           many == LposMany(q)
           found == SubSeq(y, rank, K)
           v == Least(rank - 1 + many, K)
           some == IF q.count = -1 THEN 1 ELSE q.count
<1>1. /\ n \in Nat /\ q.count \in Nat \cup {-1} /\ rank \in Nat /\ 1 <= rank /\ many \in Nat
      /\ m \in 0 .. n /\ w \in Seq(Nat) /\ Len(w) = m
  BY LposTyped
<1>2. y \in Seq(Nat) /\ Len(y) = K /\ K \in Nat
  <2> HIDE DEF w, M, m
  <2> QED BY <1>1, PickedFacts
<1>3. K <= m /\ K <= n
  <2>1. K <= m
    <3>1. 0 \in 0 .. m /\ m \in Nat
      BY <1>1
    <3>2. Count(M, m) - Count(M, 0) <= m - 0
      <4> HIDE DEF M, m
      <4> QED BY <3>1, CountGrows
    <3>3. Count(M, 0) = 0
      BY CountFacts
    <3> HIDE DEF M, m
    <3> QED BY <3>1, <3>2, <3>3, <1>2
  <2> HIDE DEF K, m, n
  <2> QED BY <2>1, <1>1, <1>2
<1>4. LPOS(q) = IF q.count = -1 THEN SubSeq(found, 1, Least(1, Len(found)))
                ELSE IF q.count = 0 THEN found
                ELSE SubSeq(found, 1, Least(q.count, Len(found)))
  <2> DEFINE skip == (IF q.rank < 0 THEN -q.rank ELSE q.rank) - 1
             walk == [i \in 1 .. m |-> IF q.rank < 0 THEN n - i ELSE i - 1]
             matches == Picked(walk, {i \in DOMAIN walk : q.val[walk[i] + 1] = q.element})
             f == SubSeq(matches, skip + 1, Len(matches))
  <2>1. walk = w
    BY DEF LposWalk, Looks
  <2>2. DOMAIN walk = 1 .. m
    OBVIOUS
  <2>3. {i \in DOMAIN walk : q.val[walk[i] + 1] = q.element} = M
    BY <2>1, <2>2 DEF LposMatches
  <2>4. matches = y
    BY <2>1, <2>3
  <2>5. skip + 1 = rank
    <3>1. skip = rank - 1
      BY DEF LposRank
    <3> HIDE DEF skip, rank
    <3> QED BY <3>1, <1>1
  <2>6. f = found
    <3> HIDE DEF matches, skip, y, rank, K
    <3> QED BY <2>4, <2>5, <1>2
  <2>7. LPOS(q) = IF q.count = -1 THEN SubSeq(f, 1, Least(1, Len(f)))
                  ELSE IF q.count = 0 THEN f
                  ELSE SubSeq(f, 1, Least(q.count, Len(f)))
    BY DEF LPOS, LposScanned
  <2> HIDE DEF f, found
  <2> QED BY <2>6, <2>7
<1>5. v \in Int /\ v <= K
  <2> HIDE DEF K, rank, many
  <2> QED BY <1>1, <1>2 DEF Least
<1>6. LPOS(q) = SubSeq(y, rank, v)
  <2>1. CASE rank > K
    <3>1. v < rank /\ K < rank
      <4> HIDE DEF K, rank, many
      <4> QED BY <1>1, <1>2, <2>1 DEF Least
    <3>2. SubSeq(y, rank, v) = <<>> /\ found = <<>>
      <4> HIDE DEF y, rank, K, v
      <4> QED BY <1>1, <1>2, <1>5, <3>1, SubSeqEmpty
    <3>3. Len(found) = 0 /\ Least(1, Len(found)) = 0
      <4> HIDE DEF found
      <4> QED BY <3>2 DEF Least
    <3>4. q.count \in Nat => Least(q.count, Len(found)) = 0
      <4> HIDE DEF found
      <4> QED BY <3>3 DEF Least
    <3>5. SubSeq(found, 1, 0) = <<>>
      <4> HIDE DEF found
      <4> QED BY SubSeqEmpty
    <3> HIDE DEF found, y, v, rank
    <3> QED BY <1>1, <1>4, <3>2, <3>3, <3>4, <3>5
  <2>2. CASE ~(rank > K)
    <3> DEFINE l == K - rank + 1
    <3>1. Len(found) = l /\ l \in Nat
      <4> HIDE DEF y, K, rank
      <4>1. \A i \in rank .. K : y[i] \in Nat
        BY <1>1, <1>2
      <4>2. Len(SubSeq(y, rank, K)) = IF rank <= K THEN K - rank + 1 ELSE 0
        BY <1>1, <1>2, <4>1, SubSeqProperties
      <4> QED BY <4>2, <2>2, <1>1, <1>2
    <3>2. CASE q.count = 0
      <4>1. v = K
        <5>1. many = n
          BY <3>2 DEF LposMany
        <5> HIDE DEF K, rank, many, n
        <5> QED BY <5>1, <1>1, <1>2, <1>3 DEF Least
      <4>2. LPOS(q) = found
        BY <1>4, <3>2
      <4> HIDE DEF y, rank, K, v
      <4> QED BY <4>1, <4>2
    <3>3. CASE q.count # 0
      <4> DEFINE e == Least(many, l)
      <4>1. LPOS(q) = SubSeq(found, 1, e)
        <5>1. (q.count = -1 => many = 1) /\ (q.count # -1 => many = q.count)
          BY <3>3 DEF LposMany
        <5> HIDE DEF found, many, l
        <5> QED BY <1>4, <3>1, <3>3, <5>1
      <4>2. many >= 1
        BY <3>3, <1>1 DEF LposMany
      <4>3. e \in Int /\ 1 - 1 <= e /\ e <= K - rank + 1 /\ rank + e - 1 = v
        <5> HIDE DEF K, rank, many
        <5> QED BY <1>1, <1>2, <2>2, <4>2 DEF Least
      <4>4. SubSeq(found, 1, e) = SubSeq(y, rank + 1 - 1, rank + e - 1)
        <5>1. rank \in Int /\ K \in Int /\ 1 \in Int /\ 1 <= 1 /\ rank - 1 <= K /\ K <= Len(y)
          <6> HIDE DEF K, rank, y
          <6> QED BY <1>1, <1>2, <2>2
        <5> HIDE DEF K, rank, y, e
        <5> QED BY <1>1, <1>2, <4>3, <5>1, SubOfSub
      <4>5. rank + 1 - 1 = rank
        BY <1>1
      <4> HIDE DEF found, y, e, rank, v
      <4> QED BY <4>1, <4>3, <4>4, <4>5
    <3> QED BY <3>2, <3>3
  <2> QED BY <2>1, <2>2
<1>7. Within(Q, M, m, rank, v)
  <2>1. ASSUME NEW i \in 1 .. m PROVE i \in Q <=> i \in M /\ rank <= Count(M, i) /\ Count(M, i) <= v
    <3> DEFINE k == Count(M, i)
    <3>1. k \in Nat /\ k <= K
      <4>1. i \in Nat /\ m \in Nat /\ i \in 0 .. m
        BY <1>1
      <4> HIDE DEF M, m
      <4> QED BY <4>1, CountGrows, CountFacts
    <3>2. i \in Q <=> i \in M /\ rank <= k /\ k <= rank + many - 1
      BY DEF LposAnswered
    <3> HIDE DEF k, K, rank, many, Q, M
    <3>3. k <= rank + many - 1 <=> k <= v
      BY <1>1, <1>2, <3>1 DEF Least
    <3> QED BY <3>2, <3>3 DEF k
  <2> HIDE DEF Q, M, m, rank, v
  <2> QED BY <2>1 DEF Within
<1>8. SubSeq(y, rank, v) = Picked(w, Q)
  <2> HIDE DEF Q, M, m, rank, v, w
  <2>1. v <= Count(M, Len(w)) /\ Within(Q, M, Len(w), rank, v)
    BY <1>1, <1>5, <1>7
  <2> QED BY <1>1, <1>5, <2>1, PickedPart
<1> QED BY <1>6, <1>8

(* The positions LPOS owes. *)
LposOwed(q) ==
    LET n == Len(q.val)
        tail == q.rank < 0
        number(p) == Cardinality({o \in 0 .. n - 1 : /\ q.val[o + 1] = q.element
                                                     /\ Far(tail, n, o) <= Far(tail, n, p)})
    IN {p \in 0 .. n - 1 :
          /\ q.val[p + 1] = q.element
          /\ q.maxlen = 0 \/ Far(tail, n, p) < q.maxlen
          /\ number(p) \in LposRank(q) .. LposRank(q) + LposMany(q) - 1}

(* A position is owed exactly when the step that looks there answers it. *)
LEMMA OwedAnswered ==
  ASSUME NEW q, q \in LposQuery, NEW i \in 1 .. Len(q.val)
  PROVE  Looks(q.rank < 0, Len(q.val), i) \in LposOwed(q)
           <=> i \in 1 .. LposScanned(q) /\ i \in LposAnswered(q)
<1> DEFINE n == Len(q.val)
           tail == q.rank < 0
           m == LposScanned(q)
           M == LposMatches(q)
           p == Looks(tail, n, i)
           H == {o \in 0 .. n - 1 : q.val[o + 1] = q.element}
           N == {o \in 0 .. n - 1 : o \in H /\ Far(tail, n, o) <= i - 1}
           rank == LposRank(q)
           many == LposMany(q)
           number(o) == Cardinality({x \in 0 .. n - 1 : /\ q.val[x + 1] = q.element
                                                        /\ Far(tail, n, x) <= Far(tail, n, o)})
<1>1. /\ n \in Nat /\ tail \in BOOLEAN /\ m \in 0 .. n /\ q.maxlen \in Nat
      /\ rank \in Nat /\ many \in Nat
      /\ \A j \in 1 .. m : LposWalk(q)[j] = Looks(tail, n, j)
  BY LposTyped
<1>2. p \in 0 .. n - 1 /\ Far(tail, n, p) = i - 1
  <2> HIDE DEF p, n, tail
  <2>1. i \in 1 .. n
    BY DEF n
  <2> QED BY <1>1, <2>1, LooksFar DEF p
<1>3. i \in 1 .. m <=> q.maxlen = 0 \/ i - 1 < q.maxlen
  <2>1. m = IF q.maxlen = 0 THEN n ELSE Least(q.maxlen, n)
    BY DEF LposScanned
  <2>2. i \in 1 .. n
    OBVIOUS
  <2> HIDE DEF m, n
  <2> QED BY <1>1, <2>1, <2>2 DEF Least
<1>4. \A j \in 1 .. m : j \in M <=> Looks(tail, n, j) \in H
  <2> TAKE j \in 1 .. m
  <2>1. j \in M <=> q.val[Looks(tail, n, j) + 1] = q.element
    BY <1>1 DEF LposMatches
  <2>2. j \in 1 .. n
    <3> HIDE DEF m, n
    <3> QED BY <1>1
  <2>3. Looks(tail, n, j) \in 0 .. n - 1
    <3> HIDE DEF n, tail
    <3> QED BY <1>1, <2>2, LooksFar
  <2> HIDE DEF n, tail, M
  <2> QED BY <2>1, <2>3
<1>5. p \in LposOwed(q) <=> /\ p \in H
                            /\ q.maxlen = 0 \/ i - 1 < q.maxlen
                            /\ Cardinality(N) \in rank .. rank + many - 1
  <2>1. number(p) = Cardinality(N)
    <3>1. {x \in 0 .. n - 1 : q.val[x + 1] = q.element /\ Far(tail, n, x) <= Far(tail, n, p)} = N
      <4>1. \A x \in 0 .. n - 1 : x \in H <=> q.val[x + 1] = q.element
        OBVIOUS
      <4> HIDE DEF H, p, n, tail
      <4> QED BY <4>1, <1>2
    <3> QED BY <3>1
  <2>2. p \in LposOwed(q) <=> /\ p \in 0 .. n - 1
                              /\ q.val[p + 1] = q.element
                              /\ q.maxlen = 0 \/ Far(tail, n, p) < q.maxlen
                              /\ number(p) \in rank .. rank + many - 1
    BY Zenon DEF LposOwed
  <2>3. p \in H <=> p \in 0 .. n - 1 /\ q.val[p + 1] = q.element
    BY Zenon
  <2> HIDE DEF number, N, rank, many, p, H, n, tail
  <2> QED BY <2>1, <2>2, <2>3, <1>2
<1>6. CASE i \in 1 .. m
  <2>1. Cardinality(N) = Count(M, i)
    <3>1. \A j \in 1 .. i : j \in M <=> Looks(tail, n, j) \in H
      <4>1. \A j \in 1 .. i : j \in 1 .. m
        <5> HIDE DEF m
        <5> QED BY <1>1, <1>6
      <4> HIDE DEF M, H, n, tail, m
      <4> QED BY <4>1, <1>4
    <3>2. i \in 1 .. n
      OBVIOUS
    <3>3. N = Near(tail, n, H, i)
      BY DEF Near
    <3> HIDE DEF M, H, n, tail, N
    <3>4. Cardinality(Near(tail, n, H, i)) = Count(M, i)
      BY <1>1, <3>1, <3>2, MatchesCounted
    <3> QED BY <3>3, <3>4
  <2>2. i \in LposAnswered(q) <=> i \in M /\ rank <= Count(M, i) /\ Count(M, i) <= rank + many - 1
    BY DEF LposAnswered
  <2>3. i \in M <=> p \in H
    BY <1>4, <1>6
  <2>4. Count(M, i) \in Nat
    <3>1. i \in Nat
      OBVIOUS
    <3> HIDE DEF M
    <3> QED BY <3>1, CountFacts
  <2> DEFINE k == Count(M, i)
  <2>5. k \in rank .. rank + many - 1 <=> rank <= k /\ k <= rank + many - 1
    <3> HIDE DEF k, rank, many
    <3>1. k \in Nat
      BY <2>4 DEF k
    <3> QED BY <3>1, <1>1
  <2>6. Cardinality(N) = k
    BY <2>1
  <2> HIDE DEF N, k, rank, many, H, p, m
  <2>7. i \in LposAnswered(q) <=> i \in M /\ rank <= k /\ k <= rank + many - 1
    BY <2>2 DEF k
  <2>8. p \in LposOwed(q) <=> p \in H /\ k \in rank .. rank + many - 1
    BY <1>3, <1>5, <1>6, <2>6
  <2> HIDE DEF M
  <2> QED BY <1>6, <2>3, <2>5, <2>7, <2>8 DEF p, m, n, tail
<1>7. CASE i \notin 1 .. m
  BY <1>3, <1>5, <1>7
<1> QED BY <1>6, <1>7

(* LPOS answers the positions it owes, from the end it starts at. *)
LEMMA LposAnswersOwed ==
  ASSUME NEW q, q \in LposQuery
  PROVE  /\ {LPOS(q)[i] : i \in DOMAIN LPOS(q)} = LposOwed(q)
         /\ \A i \in 2 .. Len(LPOS(q)) : Far(q.rank < 0, Len(q.val), LPOS(q)[i - 1])
                                           < Far(q.rank < 0, Len(q.val), LPOS(q)[i])
<1> DEFINE n == Len(q.val)
           tail == q.rank < 0
           m == LposScanned(q)
           w == LposWalk(q)
           Q == LposAnswered(q)
           r == Picked(w, Q)
<1>1. /\ n \in Nat /\ tail \in BOOLEAN /\ m \in 0 .. n /\ w \in Seq(Nat) /\ Len(w) = m
      /\ \A j \in 1 .. m : w[j] = Looks(tail, n, j)
  BY LposTyped
<1>2. LPOS(q) = r
  BY LposPicked
<1>3. /\ r \in Seq(Nat) /\ Len(r) = Count(Q, m)
      /\ \A j \in Q \cap (1 .. m) : Count(Q, j) \in 1 .. Count(Q, m) /\ r[Count(Q, j)] = w[j]
  <2> HIDE DEF w, Q
  <2> QED BY <1>1, PickedFacts
<1>4. \A i \in 1 .. Len(r) :
        \E j \in Q \cap (1 .. m) :
          /\ Count(Q, j) = i /\ r[i] = w[j]
          /\ i > 1 => \E k \in Q \cap (1 .. m) : Count(Q, k) = i - 1 /\ k < j /\ r[i - 1] = w[k]
  <2> HIDE DEF w, Q
  <2> QED BY <1>1, PickedInOrder
<1>5. DOMAIN r = 1 .. Len(r)
  BY <1>3
<1>6. \A j \in 1 .. n : Looks(tail, n, j) \in LposOwed(q) <=> j \in 1 .. m /\ j \in Q
  BY OwedAnswered
<1>7. \A p \in LposOwed(q) : p \in 0 .. n - 1
  BY DEF LposOwed
<1> HIDE DEF r, w, Q, m, n, tail
<1>8. \A p \in LposOwed(q) : \E i \in DOMAIN r : r[i] = p
  <2> TAKE p \in LposOwed(q)
  <2> DEFINE j == Far(tail, n, p) + 1
  <2>1. j \in 1 .. n /\ Looks(tail, n, j) = p
    BY <1>1, <1>7, LooksFar
  <2> HIDE DEF j
  <2>2. j \in Q \cap (1 .. m)
    BY <1>6, <2>1
  <2>3. w[j] = p
    BY <1>1, <2>1, <2>2
  <2> QED BY <1>3, <1>5, <2>2, <2>3
<1>9. \A i \in DOMAIN r : r[i] \in LposOwed(q)
  <2> TAKE i \in DOMAIN r
  <2>1. PICK j \in Q \cap (1 .. m) : r[i] = w[j]
    BY <1>4, <1>5
  <2>2. j \in 1 .. n
    BY <1>1
  <2>3. Looks(tail, n, j) \in LposOwed(q)
    BY <1>6, <2>2
  <2>4. w[j] = Looks(tail, n, j)
    BY <1>1
  <2> QED BY <2>1, <2>3, <2>4
<1>10. \A i \in 2 .. Len(r) : Far(tail, n, r[i - 1]) < Far(tail, n, r[i])
  <2> TAKE i \in 2 .. Len(r)
  <2>1. i \in 1 .. Len(r) /\ i > 1
    BY <1>3
  <2>2. PICK j \in Q \cap (1 .. m) :
          /\ r[i] = w[j]
          /\ \E k \in Q \cap (1 .. m) : k < j /\ r[i - 1] = w[k]
    BY <1>4, <2>1
  <2>3. PICK k \in Q \cap (1 .. m) : k < j /\ r[i - 1] = w[k]
    BY <2>2
  <2>4. j \in 1 .. n /\ k \in 1 .. n
    BY <1>1
  <2>5. r[i] = Looks(tail, n, j) /\ r[i - 1] = Looks(tail, n, k)
    BY <1>1, <2>2, <2>3
  <2>6. Far(tail, n, Looks(tail, n, j)) = j - 1 /\ Far(tail, n, Looks(tail, n, k)) = k - 1
    BY <1>1, <2>4, LooksFar
  <2>7. k - 1 < j - 1
    BY <2>3, <2>4
  <2> QED BY <2>5, <2>6, <2>7
<1>11. {r[i] : i \in DOMAIN r} = LposOwed(q)
  BY <1>8, <1>9
<1> QED BY <1>2, <1>10, <1>11 DEF n, tail

-----------------------------------------------------------------------------
(* The queries asked, and their replies *)

(* A query is one the commands let through, and its reply what it answers. *)
ReplyInv == query \in Query /\ (reply = Unanswered \/ reply = Answered(query))

(* At the start nothing is answered. *)
LEMMA AskedHolds == Asked => ReplyInv
BY DEF Asked, ReplyInv

(* A query is answered once, from what was asked. *)
LEMMA AnswerKept == ReplyInv /\ [Answer]_<<query, reply>> => ReplyInv'
<1> SUFFICES ASSUME ReplyInv, [Answer]_<<query, reply>> PROVE ReplyInv'
  OBVIOUS
<1>1. CASE Answer
  BY <1>1, Zenon DEF ReplyInv, Answer
<1>2. CASE UNCHANGED <<query, reply>>
  BY <1>2, Zenon DEF ReplyInv
<1> QED BY <1>1, <1>2

(* The query asked is of one of the forms, told by its command. *)
LEMMA QueryForms ==
  ASSUME NEW q, q \in Query
  PROVE  /\ None \notin Int
         /\ q.command = "LCS" => q \in LcsQuery
         /\ q.command \in {"GETRANGE", "LRANGE"} => q \in RangeQuery
         /\ q.command = "LPOS" => q \in LposQuery
         /\ q.command = "ZRANGE" => \/ q.mode = "rank" /\ q \in RankQuery
                                    \/ q.mode = "byscore" /\ q \in BoundsQuery("byscore", Int)
                                    \/ q.mode = "bylex" /\ q \in BoundsQuery("bylex", Int \cup {None})
         /\ q.command = "BITFIELD" => q \in BitfieldQuery
<1>1. \/ q \in LcsQuery \/ q \in RangeQuery \/ q \in LposQuery \/ q \in RankQuery
      \/ q \in BoundsQuery("byscore", Int) \/ q \in BoundsQuery("bylex", Int \cup {None})
      \/ q \in BitfieldQuery
  BY QueriesAssumption, Zenon
<1>2. q \in LcsQuery => q.command = "LCS"
  BY DEF LcsQuery
<1>3. q \in RangeQuery => q.command \in {"GETRANGE", "LRANGE"}
  BY DEF RangeQuery
<1>4. q \in LposQuery => q.command = "LPOS"
  BY DEF LposQuery
<1>5. q \in RankQuery => q.command = "ZRANGE" /\ q.mode = "rank"
  BY DEF RankQuery
<1>6. q \in BoundsQuery("byscore", Int) => q.command = "ZRANGE" /\ q.mode = "byscore"
  BY DEF BoundsQuery
<1>7. q \in BoundsQuery("bylex", Int \cup {None}) => q.command = "ZRANGE" /\ q.mode = "bylex"
  BY DEF BoundsQuery
<1>8. q \in BitfieldQuery => q.command = "BITFIELD"
  BY DEF BitfieldQuery
<1>9. None \notin Int
  BY QueriesAssumption
<1> QED BY <1>1, <1>2, <1>3, <1>4, <1>5, <1>6, <1>7, <1>8, <1>9

(* A reply there is was computed from the query. *)
LEMMA ReplyGiven ==
  ASSUME ReplyInv, NEW c, c # "none", reply.command = c
  PROVE  query \in Query /\ query.command = c /\ reply.result = Answered(query).result
<1>1. query \in Query /\ (reply = Unanswered \/ reply = Answered(query))
  BY DEF ReplyInv
<1>2. Unanswered.command = "none"
  BY DEF Unanswered
<1>3. Answered(query).command = query.command
  BY DEF Answered
<1>4. reply # Unanswered
  BY <1>2
<1> QED BY <1>1, <1>3, <1>4

(* GETRANGE, LRANGE and ZRANGE by rank. *)
LEMMA RangesHold == ReplyInv => RangesExact
<1> SUFFICES ASSUME ReplyInv PROVE RangesExact
  OBVIOUS
<1>1. ASSUME reply.command = "GETRANGE", query.end >= -(Len(query.val) + 1)
      PROVE  reply.result = Between(query.val, query.start, query.end)
  <2>1. query \in Query /\ query.command = "GETRANGE" /\ reply.result = Answered(query).result
    BY <1>1, ReplyGiven
  <2>2. query.val \in Seq(Value) /\ query.start \in Int /\ query.end \in Int
    BY <2>1, QueryForms DEF RangeQuery
  <2>3. reply.result = GETRANGE(query)
    BY <2>1 DEF Answered
  <2> QED BY <1>1, <2>2, <2>3, GetrangeBetween
<1>2. ASSUME reply.command = "LRANGE"
      PROVE  reply.result = Between(query.val, query.start, query.end)
  <2>1. query \in Query /\ query.command = "LRANGE" /\ reply.result = Answered(query).result
    BY <1>2, ReplyGiven
  <2>2. query.val \in Seq(Value) /\ query.start \in Int /\ query.end \in Int
    BY <2>1, QueryForms DEF RangeQuery
  <2>3. reply.result = LRANGE(query)
    BY <2>1 DEF Answered
  <2>4. LRANGE(query) = Window(query.val, query.start, query.end)
    BY DEF LRANGE
  <2> QED BY <2>2, <2>3, <2>4, WindowBetween
<1>3. ASSUME reply.command = "ZRANGE", query.mode = "rank"
      PROVE  reply.result = Between(IF query.rev THEN SX!Reverse(query.pairs) ELSE query.pairs,
                                    query.lo, query.hi)
  <2>1. query \in Query /\ query.command = "ZRANGE" /\ reply.result = Answered(query).result
    BY <1>3, ReplyGiven
  <2>2. query \in RankQuery
    BY <1>3, <2>1, QueryForms
  <2>3. reply.result = ZRANGE(query)
    BY <2>1 DEF Answered
  <2> QED BY <2>2, <2>3, ZRangeRank
<1> QED BY <1>1, <1>2, <1>3 DEF RangesExact

(* ZRANGE by score or member. *)
LEMMA ZRangeHolds == ReplyInv => ZRangeExact
<1> SUFFICES ASSUME ReplyInv, reply.command = "ZRANGE", query.mode # "rank" PROVE ZRangeExact
  BY DEF ZRangeExact
<1> DEFINE c == IF query.mode = "byscore" THEN 1 ELSE 2
           in(p) == Above(p[c], query.lo, query.lo_open) /\ Below(p[c], query.hi, query.hi_open)
           n == Len(query.pairs)
           inside == {i \in 1 .. n : in(query.pairs[i])}
           place(i) == Cardinality({j \in inside : IF query.rev THEN j > i ELSE j < i})
           limited(i) ==
             \/ query.limit = <<>>
             \/ /\ query.limit[1] >= 0 /\ place(i) >= query.limit[1]
                /\ query.limit[2] < 0 \/ place(i) < query.limit[1] + query.limit[2]
           chosen == Picked(query.pairs, {i \in inside : limited(i)})
<1>1. query \in Query /\ query.command = "ZRANGE" /\ reply.result = Answered(query).result
  BY ReplyGiven
<1>2. reply.result = ZRANGE(query)
  BY <1>1 DEF Answered
<1>3. /\ None \notin Int
      /\ \/ query \in BoundsQuery("byscore", Int) /\ c = 1
         \/ query \in BoundsQuery("bylex", Int \cup {None}) /\ c = 2
  BY <1>1, QueryForms
<1> HIDE DEF c
<1>4. inside = Inside(query, c)
  BY Zenon DEF Inside
<1>5. {i \in inside : limited(i)} = Limited(inside, query.rev, query.limit)
  BY Zenon DEF Limited, Placed
<1>6. chosen = Picked(query.pairs, Limited(Inside(query, c), query.rev, query.limit))
  <2> HIDE DEF inside, limited
  <2> QED BY <1>4, <1>5
<1> HIDE DEF chosen
<1>7. ZRANGE(query) = IF query.rev THEN SX!Reverse(chosen) ELSE chosen
  BY <1>3, <1>6, ZRangeBounds
<1>8. reply.result = IF query.rev THEN SX!Reverse(chosen) ELSE chosen
  BY <1>2, <1>7
<1> QED BY <1>8, Zenon DEF ZRangeExact, chosen, c

(* LPOS. *)
LEMMA LposHolds == ReplyInv => LposExact
<1> SUFFICES ASSUME ReplyInv, reply.command = "LPOS" PROVE LposExact
  BY DEF LposExact
<1>1. query \in Query /\ query.command = "LPOS" /\ reply.result = Answered(query).result
  BY ReplyGiven
<1>2. reply.result = LPOS(query)
  BY <1>1 DEF Answered
<1>3. query \in LposQuery
  BY <1>1, QueryForms
<1> DEFINE n == Len(query.val)
           tail == query.rank < 0
           r == LPOS(query)
<1>4. /\ {r[i] : i \in DOMAIN r} = LposOwed(query)
      /\ \A i \in 2 .. Len(r) : Far(tail, n, r[i - 1]) < Far(tail, n, r[i])
  BY <1>3, LposAnswersOwed
<1> HIDE DEF r
<1>5. LposExact <=> /\ {r[i] : i \in DOMAIN r} = LposOwed(query)
                    /\ \A i \in 2 .. Len(r) : Far(tail, n, r[i - 1]) < Far(tail, n, r[i])
  BY <1>2, Zenon DEF LposExact, LposOwed, Far, LposRank, LposMany, r
<1> QED BY <1>4, <1>5

(* GETRANGE, LRANGE, ZRANGE and LPOS select exactly what their bounds,     *)
(* windows and counts name, for values of any length and arguments of any  *)
(* size.                                                                   *)
THEOREM SelectionsAreExact == QuerySpec => []SelectionsExact
<1>1. ReplyInv => SelectionsExact
  BY RangesHold, ZRangeHolds, LposHolds DEF SelectionsExact
<1> QED BY <1>1, AskedHolds, AnswerKept, PTL DEF QuerySpec

(* Two functions that start alike and go on alike are alike. *)
LEMMA SameChain ==
  ASSUME NEW N \in Nat, NEW f, NEW g, f[0] = g[0],
         \A m \in 1 .. N : f[m - 1] = g[m - 1] => f[m] = g[m]
  PROVE  \A m \in 0 .. N : f[m] = g[m]
<1> DEFINE T == {m \in Nat : f[m] = g[m]}
<1>1. 0 \in T
  OBVIOUS
<1>2. \A n \in 0 .. N - 1 : n \in T => n + 1 \in T
  <2> TAKE n \in 0 .. N - 1
  <2> HAVE n \in T
  <2>1. n + 1 \in 1 .. N /\ (n + 1) - 1 = n /\ n + 1 \in Nat
    OBVIOUS
  <2> QED BY <2>1
<1>3. 0 .. N \subseteq T
  <2> HIDE DEF T
  <2> QED BY <1>1, <1>2, InductionUpTo
<1> QED BY <1>3

(* The same, for two functions known by a name of their own. *)
Alike(f, g, N) == f[0] = g[0] /\ \A m \in 1 .. N : f[m - 1] = g[m - 1] => f[m] = g[m]

(* The same, with the hypotheses under a name. *)
LEMMA AlikeChain ==
  ASSUME NEW N \in Nat, NEW f, NEW g, Alike(f, g, N)
  PROVE  \A m \in 0 .. N : f[m] = g[m]
BY SameChain DEF Alike

-----------------------------------------------------------------------------
(* Powers of two *)

(* f[m] is the m-th power of two. *)
Doubles(f, N) == f \in [0 .. N -> Nat] /\ f[0] = 1 /\ \A m \in 1 .. N : f[m] = 2 * f[m - 1]

(* The recursive function doubles. *)
LEMMA SpanDoubles ==
  ASSUME NEW N \in Nat
  PROVE  \E f : Doubles(f, N) /\ Span(N) = f[N]
<1> DEFINE Rec(f) == f = [k \in 0 .. N |-> IF k = 0 THEN 1 ELSE 2 * f[k - 1]]
           step == [k \in 1 .. N |-> [v \in Nat |-> 2 * v]]
           fc == CHOOSE f : Rec(f)
<1>1. step \in [1 .. N -> [Nat -> Nat]]
  OBVIOUS
<1>2. PICK g : Made(g, N, Nat, 1, step)
  <2> HIDE DEF step
  <2>1. 1 \in Nat
    OBVIOUS
  <2> QED BY <1>1, <2>1, Recursion
<1>3. g \in [0 .. N -> Nat] /\ g[0] = 1 /\ \A m \in 1 .. N : g[m] = step[m][g[m - 1]]
  <2> HIDE DEF step
  <2> QED BY <1>2 DEF Made
<1>4. \A m \in 1 .. N : g[m] = 2 * g[m - 1]
  <2> TAKE m \in 1 .. N
  <2>1. m - 1 \in 0 .. N
    OBVIOUS
  <2>2. g[m - 1] \in Nat
    BY <2>1, <1>3
  <2>3. step[m][g[m - 1]] = 2 * g[m - 1]
    BY <2>2
  <2> HIDE DEF step
  <2> QED BY <1>3, <2>3
<1>5. Rec(g)
  <2> HIDE DEF step
  <2>1. g = [k \in 0 .. N |-> g[k]]
    BY <1>3
  <2>2. \A k \in 0 .. N : g[k] = IF k = 0 THEN 1 ELSE 2 * g[k - 1]
    <3> TAKE k \in 0 .. N
    <3>1. k # 0 => k \in 1 .. N
      OBVIOUS
    <3> QED BY <3>1, <1>3, <1>4
  <2> QED BY <2>1, <2>2, Zenon
<1>6. Rec(fc)
  <2> HIDE DEF Rec
  <2> QED BY <1>5
<1>7. Span(N) = fc[N]
  BY DEF Span
<1> HIDE DEF fc
<1>8. \A k \in 0 .. N : fc[k] = IF k = 0 THEN 1 ELSE 2 * fc[k - 1]
  BY <1>6, Zenon
<1>9. \A k \in 0 .. N : fc[k] = g[k]
  <2>1. fc[0] = g[0]
    BY <1>3, <1>8
  <2>2. \A m \in 1 .. N : fc[m - 1] = g[m - 1] => fc[m] = g[m]
    <3> TAKE m \in 1 .. N
    <3>1. m \in 0 .. N /\ m # 0
      OBVIOUS
    <3> HIDE DEF step
    <3> QED BY <3>1, <1>4, <1>8
  <2> QED BY <2>1, <2>2, SameChain
<1>10. Doubles(g, N)
  <2> HIDE DEF step
  <2> QED BY <1>3, <1>4 DEF Doubles
<1>11. Span(N) = g[N]
  BY <1>7, <1>9
<1> QED BY <1>10, <1>11

(* The powers of two, one by one. *)
LEMMA SpanZero == Span(0) = 1
<1>1. 0 \in Nat
  OBVIOUS
<1>2. PICK f : Doubles(f, 0) /\ Span(0) = f[0]
  BY <1>1, SpanDoubles
<1> QED BY <1>2 DEF Doubles

(* Each power of two is twice the one before. *)
LEMMA SpanNext ==
  ASSUME NEW n \in Nat
  PROVE  Span(n) \in Nat /\ Span(n + 1) = 2 * Span(n)
<1>1. PICK f : Doubles(f, n) /\ Span(n) = f[n]
  BY SpanDoubles
<1> DEFINE N == n + 1
<1>2. N \in Nat /\ N - 1 = n
  OBVIOUS
<1> HIDE DEF N
<1>3. PICK g : Doubles(g, N) /\ Span(N) = g[N]
  BY <1>2, SpanDoubles
<1>4. f \in [0 .. n -> Nat] /\ f[0] = 1 /\ \A m \in 1 .. n : f[m] = 2 * f[m - 1]
  BY <1>1 DEF Doubles
<1>5. g[0] = 1 /\ \A m \in 1 .. N : g[m] = 2 * g[m - 1]
  BY <1>3 DEF Doubles
<1>6. \A m \in 0 .. n : f[m] = g[m]
  <2>1. f[0] = g[0]
    BY <1>4, <1>5
  <2>2. \A m \in 1 .. n : f[m - 1] = g[m - 1] => f[m] = g[m]
    <3> TAKE m \in 1 .. n
    <3>1. m \in 1 .. N
      BY <1>2
    <3> QED BY <3>1, <1>4, <1>5
  <2> QED BY <2>1, <2>2, SameChain
<1>7. g[N] = 2 * g[n]
  <2>1. N \in 1 .. N
    BY <1>2
  <2> QED BY <2>1, <1>2, <1>5
<1>8. f[n] \in Nat /\ g[n] = f[n]
  BY <1>4, <1>6
<1>9. Span(N) = 2 * Span(n)
  BY <1>1, <1>3, <1>7, <1>8
<1> QED BY <1>1, <1>8, <1>9 DEF N

(* A power of two is a positive number. *)
LEMMA SpanPositive ==
  ASSUME NEW n \in Nat
  PROVE  Span(n) \in Nat /\ Span(n) >= 1
<1> DEFINE T == {m \in Nat : Span(m) \in Nat /\ Span(m) >= 1}
<1>1. 0 \in T
  BY SpanZero
<1>2. \A m \in 0 .. n - 1 : m \in T => m + 1 \in T
  <2> TAKE m \in 0 .. n - 1
  <2> HAVE m \in T
  <2> DEFINE k == m + 1
  <2>1. m \in Nat /\ k \in Nat
    OBVIOUS
  <2>2. Span(m) \in Nat /\ Span(k) = 2 * Span(m)
    BY <2>1, SpanNext
  <2> HIDE DEF k
  <2>3. k \in T
    BY <2>1, <2>2
  <2> QED BY <2>3 DEF k
<1>3. 0 .. n \subseteq T
  <2> HIDE DEF T
  <2> QED BY <1>1, <1>2, InductionUpTo
<1> QED BY <1>3

(* A bit as a number. *)
Bit(bits, p) == IF p \in bits THEN 1 ELSE 0

(* f[m]: the first m bits of a field, read as a number. *)
Reads(f, bits, offset, N) ==
    /\ f \in [0 .. N -> Nat] /\ f[0] = 0
    /\ \A m \in 1 .. N : f[m] = 2 * f[m - 1] + Bit(bits, offset + m - 1)

(* ExtractBits reads the bits one by one. *)
LEMMA ExtractReads ==
  ASSUME NEW N \in Nat, NEW bits, NEW offset
  PROVE  \E f : Reads(f, bits, offset, N) /\ ExtractBits(bits, offset, N) = f[N]
<1> DEFINE b(k) == Bit(bits, offset + k - 1)
           Rec(f) == f = [k \in 0 .. N |-> IF k = 0 THEN 0 ELSE 2 * f[k - 1] + b(k)]
           step == [k \in 1 .. N |-> [v \in Nat |-> 2 * v + b(k)]]
           fc == CHOOSE f : Rec(f)
<1>0. \A k : b(k) \in {0, 1}
  BY DEF Bit
<1>7. ExtractBits(bits, offset, N) = fc[N]
  BY Zenon DEF ExtractBits, Bit
<1> HIDE DEF b
<1>1. step \in [1 .. N -> [Nat -> Nat]]
  <2>1. \A k \in 1 .. N : \A v \in Nat : 2 * v + b(k) \in Nat
    BY <1>0
  <2> QED BY <2>1
<1>2. PICK g : Made(g, N, Nat, 0, step)
  <2> HIDE DEF step
  <2>1. 0 \in Nat
    OBVIOUS
  <2> QED BY <1>1, <2>1, Recursion
<1>3. g \in [0 .. N -> Nat] /\ g[0] = 0 /\ \A m \in 1 .. N : g[m] = step[m][g[m - 1]]
  <2> HIDE DEF step
  <2> QED BY <1>2 DEF Made
<1>4. \A m \in 1 .. N : g[m] = 2 * g[m - 1] + b(m)
  <2> TAKE m \in 1 .. N
  <2>1. m - 1 \in 0 .. N
    OBVIOUS
  <2>2. g[m - 1] \in Nat
    BY <2>1, <1>3
  <2>3. step[m][g[m - 1]] = 2 * g[m - 1] + b(m)
    BY <2>2
  <2> HIDE DEF step
  <2> QED BY <1>3, <2>3
<1>5. Rec(g)
  <2> HIDE DEF step
  <2>1. g = [k \in 0 .. N |-> g[k]]
    BY <1>3
  <2>2. \A k \in 0 .. N : g[k] = IF k = 0 THEN 0 ELSE 2 * g[k - 1] + b(k)
    <3> TAKE k \in 0 .. N
    <3>1. k # 0 => k \in 1 .. N
      OBVIOUS
    <3> QED BY <3>1, <1>3, <1>4
  <2> QED BY <2>1, <2>2, Zenon
<1>6. Rec(fc)
  <2> HIDE DEF Rec
  <2> QED BY <1>5
<1> HIDE DEF fc
<1>8. \A k \in 0 .. N : fc[k] = IF k = 0 THEN 0 ELSE 2 * fc[k - 1] + b(k)
  BY <1>6, Zenon
<1>9. \A k \in 0 .. N : fc[k] = g[k]
  <2>1. fc[0] = g[0]
    BY <1>3, <1>8
  <2>2. \A m \in 1 .. N : fc[m - 1] = g[m - 1] => fc[m] = g[m]
    <3> TAKE m \in 1 .. N
    <3>1. m \in 0 .. N /\ m # 0
      OBVIOUS
    <3> HIDE DEF step
    <3> QED BY <3>1, <1>4, <1>8
  <2> QED BY <2>1, <2>2, SameChain
<1>10. Reads(g, bits, offset, N)
  <2> HIDE DEF step
  <2> QED BY <1>3, <1>4 DEF Reads, b
<1>11. ExtractBits(bits, offset, N) = g[N]
  BY <1>7, <1>9
<1> QED BY <1>10, <1>11

(* What a bit of a field counts. *)
Weight(bits, s, i) ==
    IF s.offset + i \notin bits THEN 0
    ELSE IF s.signed /\ i = 0 THEN -Span(s.width - 1) ELSE Span(s.width - 1 - i)

(* f[m]: what the first m bits of a field weigh together. *)
Weighs(f, bits, s) ==
    /\ f \in [0 .. s.width -> Int] /\ f[0] = 0
    /\ \A m \in 1 .. s.width : f[m] = f[m - 1] + Weight(bits, s, m - 1)

(* A number is the sum of the weights of its bits. *)
LEMMA NumberWeighs ==
  ASSUME NEW s \in Field, NEW bits
  PROVE  \E f : Weighs(f, bits, s) /\ Number(bits, s) = f[s.width]
<1> DEFINE N == s.width
           w(k) == Weight(bits, s, k - 1)
           Rec(f) == f = [k \in 0 .. N |-> IF k = 0 THEN 0 ELSE f[k - 1] + w(k)]
           step == [k \in 1 .. N |-> [v \in Int |-> v + w(k)]]
           fc == CHOOSE f : Rec(f)
<1>01. N \in Nat \ {0}
  BY DEF Field
<1>02. \A k \in 1 .. N : w(k) \in Int
  <2> TAKE k \in 1 .. N
  <2>1. N - 1 \in Nat /\ N - 1 - (k - 1) \in Nat
    BY <1>01
  <2>2. Span(N - 1) \in Nat /\ Span(N - 1 - (k - 1)) \in Nat
    <3> HIDE DEF N
    <3> QED BY <2>1, SpanPositive
  <2> QED BY <2>2 DEF Weight
<1>7. Number(bits, s) = fc[N]
  BY Zenon DEF Number, Weight
<1> HIDE DEF w, N
<1>1. step \in [1 .. N -> [Int -> Int]]
  <2>1. \A k \in 1 .. N : \A v \in Int : v + w(k) \in Int
    BY <1>02
  <2> QED BY <2>1
<1>2. PICK g : Made(g, N, Int, 0, step)
  <2> HIDE DEF step
  <2>1. 0 \in Int /\ N \in Nat
    BY <1>01
  <2> QED BY <1>1, <2>1, Recursion
<1>3. g \in [0 .. N -> Int] /\ g[0] = 0 /\ \A m \in 1 .. N : g[m] = step[m][g[m - 1]]
  <2> HIDE DEF step
  <2> QED BY <1>2 DEF Made
<1>4. \A m \in 1 .. N : g[m] = g[m - 1] + w(m)
  <2> TAKE m \in 1 .. N
  <2>1. m - 1 \in 0 .. N
    BY <1>01
  <2>2. g[m - 1] \in Int
    BY <2>1, <1>3
  <2>3. step[m][g[m - 1]] = g[m - 1] + w(m)
    BY <2>2
  <2> HIDE DEF step
  <2> QED BY <1>3, <2>3
<1>5. Rec(g)
  <2> HIDE DEF step
  <2>1. g = [k \in 0 .. N |-> g[k]]
    BY <1>3
  <2>2. \A k \in 0 .. N : g[k] = IF k = 0 THEN 0 ELSE g[k - 1] + w(k)
    <3> TAKE k \in 0 .. N
    <3>1. k # 0 => k \in 1 .. N
      BY <1>01
    <3> QED BY <3>1, <1>3, <1>4
  <2> QED BY <2>1, <2>2, Zenon
<1>6. Rec(fc)
  <2> HIDE DEF Rec
  <2> QED BY <1>5
<1> HIDE DEF fc
<1>8. \A k \in 0 .. N : fc[k] = IF k = 0 THEN 0 ELSE fc[k - 1] + w(k)
  BY <1>6, Zenon
<1>9. \A k \in 0 .. N : fc[k] = g[k]
  <2>1. fc[0] = g[0]
    BY <1>01, <1>3, <1>8
  <2>2. \A m \in 1 .. N : fc[m - 1] = g[m - 1] => fc[m] = g[m]
    <3> TAKE m \in 1 .. N
    <3>1. m \in 0 .. N /\ m # 0
      BY <1>01
    <3> HIDE DEF step
    <3> QED BY <3>1, <1>4, <1>8
  <2>3. N \in Nat
    BY <1>01
  <2> QED BY <2>1, <2>2, <2>3, SameChain
<1>10. Weighs(g, bits, s)
  <2> HIDE DEF step
  <2> QED BY <1>3, <1>4 DEF Weighs, w, N
<1>11. Number(bits, s) = g[N]
  BY <1>01, <1>7, <1>9
<1> QED BY <1>10, <1>11 DEF N

(* f[i]: the value shifted right i times. *)
Shifts(f, value, N) ==
    f \in [0 .. N -> Nat] /\ f[0] = value /\ \A m \in 1 .. N : f[m] = f[m - 1] \div 2

(* StoreBits takes the bits of the shifted value. *)
LEMMA StoreShifts ==
  ASSUME NEW N \in Nat, NEW bits, NEW offset, NEW value \in Nat
  PROVE  \E f : /\ Shifts(f, value, N)
                /\ StoreBits(bits, offset, N, value) =
                     (bits \ (offset .. offset + N - 1))
                     \cup {bit \in offset .. offset + N - 1 : f[offset + N - 1 - bit] % 2 = 1}
<1> DEFINE Rec(f) == f = [i \in 0 .. N |-> IF i = 0 THEN value ELSE f[i - 1] \div 2]
           step == [k \in 1 .. N |-> [v \in Nat |-> v \div 2]]
           fc == CHOOSE f : Rec(f)
<1>1. step \in [1 .. N -> [Nat -> Nat]]
  OBVIOUS
<1>2. PICK g : Made(g, N, Nat, value, step)
  <2> HIDE DEF step
  <2> QED BY <1>1, Recursion
<1>3. g \in [0 .. N -> Nat] /\ g[0] = value /\ \A m \in 1 .. N : g[m] = step[m][g[m - 1]]
  <2> HIDE DEF step
  <2> QED BY <1>2 DEF Made
<1>4. \A m \in 1 .. N : g[m] = g[m - 1] \div 2
  <2> TAKE m \in 1 .. N
  <2>1. m - 1 \in 0 .. N
    OBVIOUS
  <2>2. g[m - 1] \in Nat
    BY <2>1, <1>3
  <2>3. step[m][g[m - 1]] = g[m - 1] \div 2
    BY <2>2
  <2> HIDE DEF step
  <2> QED BY <1>3, <2>3
<1>5. Rec(g)
  <2> HIDE DEF step
  <2>1. g = [k \in 0 .. N |-> g[k]]
    BY <1>3
  <2>2. \A k \in 0 .. N : g[k] = IF k = 0 THEN value ELSE g[k - 1] \div 2
    <3> TAKE k \in 0 .. N
    <3>1. k # 0 => k \in 1 .. N
      OBVIOUS
    <3> QED BY <3>1, <1>3, <1>4
  <2> QED BY <2>1, <2>2, Zenon
<1>6. Rec(fc)
  <2> HIDE DEF Rec
  <2> QED BY <1>5
<1>7. StoreBits(bits, offset, N, value) =
        (bits \ (offset .. offset + N - 1))
        \cup {bit \in offset .. offset + N - 1 : fc[offset + N - 1 - bit] % 2 = 1}
  BY Zenon DEF StoreBits
<1> HIDE DEF fc
<1>8. \A k \in 0 .. N : fc[k] = IF k = 0 THEN value ELSE fc[k - 1] \div 2
  BY <1>6, Zenon
<1>9. Shifts(fc, value, N)
  <2>1. \A k \in 0 .. N : fc[k] = g[k]
    <3>1. fc[0] = g[0]
      BY <1>3, <1>8
    <3>2. \A m \in 1 .. N : fc[m - 1] = g[m - 1] => fc[m] = g[m]
      <4> TAKE m \in 1 .. N
      <4>1. m \in 0 .. N /\ m # 0
        OBVIOUS
      <4> HIDE DEF step
      <4> QED BY <4>1, <1>4, <1>8
    <3> QED BY <3>1, <3>2, SameChain
  <2>2. fc = [k \in 0 .. N |-> fc[k]]
    BY <1>6, Zenon
  <2> HIDE DEF step
  <2>3. fc \in [0 .. N -> Nat]
    <3>1. \A k \in 0 .. N : fc[k] \in Nat
      BY <2>1, <1>3
    <3> QED BY <2>2, <3>1
  <2>4. fc[0] = value /\ \A m \in 1 .. N : fc[m] = fc[m - 1] \div 2
    <3>1. \A m \in 1 .. N : m \in 0 .. N /\ m # 0
      OBVIOUS
    <3>2. 0 \in 0 .. N
      OBVIOUS
    <3> QED BY <3>1, <3>2, <1>8
  <2> QED BY <2>3, <2>4 DEF Shifts
<1> QED BY <1>7, <1>9

(* A field of N bits holds a number below 2^N, and its first bit says      *)
(* whether it is in the upper half.                                        *)
LEMMA ExtractBound ==
  ASSUME NEW N \in Nat \ {0}, NEW bits, NEW offset \in Nat
  PROVE  /\ ExtractBits(bits, offset, N) \in 0 .. Span(N) - 1
         /\ ExtractBits(bits, offset, N) >= Span(N - 1) <=> offset \in bits
<1>1. PICK f : Reads(f, bits, offset, N) /\ ExtractBits(bits, offset, N) = f[N]
  <2>1. N \in Nat
    OBVIOUS
  <2> QED BY <2>1, ExtractReads
<1> DEFINE b == Bit(bits, offset)
           M == N - 1
           T == {k \in Nat : b * Span(k) <= f[k + 1] /\ f[k + 1] < b * Span(k) + Span(k)}
<1>2. b \in {0, 1} /\ (b = 1 <=> offset \in bits) /\ \A p : Bit(bits, p) \in {0, 1}
  BY DEF Bit
<1>3. f \in [0 .. N -> Nat] /\ f[0] = 0 /\ \A m \in 1 .. N : f[m] = 2 * f[m - 1] + Bit(bits, offset + m - 1)
  BY <1>1 DEF Reads
<1>4. M \in Nat /\ M + 1 = N
  OBVIOUS
<1>5. 0 \in T
  <2>1. 1 \in 1 .. N /\ 1 - 1 = 0 /\ offset + 1 - 1 = offset
    OBVIOUS
  <2>2. f[1] = b
    BY <1>3, <2>1, <1>2
  <2> HIDE DEF b
  <2> QED BY <2>2, <1>2, SpanZero
<1>6. \A k \in 0 .. M - 1 : k \in T => k + 1 \in T
  <2> TAKE k \in 0 .. M - 1
  <2> HAVE k \in T
  <2> DEFINE l == k + 1
             m == l + 1
             c == Bit(bits, offset + m - 1)
             P == Span(k)
             p == Span(l)
             x == f[l]
             y == f[m]
  <2>1. k \in Nat /\ l \in Nat /\ l \in 1 .. N /\ m \in 1 .. N /\ m - 1 = l
    BY <1>4
  <2>2. P \in Nat /\ p = 2 * P
    BY <2>1, SpanNext
  <2>3. c \in {0, 1}
    BY <1>2
  <2>4. x \in Nat /\ y = 2 * x + c
    <3>1. f[m] = 2 * f[m - 1] + Bit(bits, offset + m - 1)
      <4> HIDE DEF m
      <4> QED BY <1>3, <2>1
    <3>2. f[m - 1] = x
      BY <2>1
    <3>3. x \in Nat
      <4>1. l \in 0 .. N
        BY <2>1
      <4> HIDE DEF l
      <4> QED BY <1>3, <4>1
    <3> QED BY <3>1, <3>2, <3>3
  <2>5. b * P <= x /\ x < b * P + P
    OBVIOUS
  <2>6. b * p <= y /\ y < b * p + p
    <3> HIDE DEF b, P, p, x, y, c
    <3>1. CASE b = 0
      BY <3>1, <2>2, <2>3, <2>4, <2>5
    <3>2. CASE b = 1
      BY <3>2, <2>2, <2>3, <2>4, <2>5
    <3> QED BY <3>1, <3>2, <1>2
  <2> QED BY <2>1, <2>6
<1>7. M \in T
  <2> HIDE DEF T, M
  <2>1. 0 .. M \subseteq T
    BY <1>4, <1>5, <1>6, InductionUpTo
  <2> QED BY <2>1, <1>4
<1> DEFINE P == Span(M)
           x == f[N]
<1>8. P \in Nat /\ P >= 1 /\ Span(N) = 2 * P
  <2> HIDE DEF M
  <2>1. Span(M + 1) = 2 * Span(M)
    BY <1>4, SpanNext
  <2> QED BY <2>1, <1>4, SpanPositive
<1>9. x \in Nat
  BY <1>3
<1>10. b * P <= x /\ x < b * P + P
  BY <1>4, <1>7
<1> HIDE DEF P, x, b
<1>11. x <= 2 * P - 1 /\ (x >= P <=> b = 1)
  <2>1. CASE b = 0
    BY <2>1, <1>8, <1>9, <1>10
  <2>2. CASE b = 1
    BY <2>2, <1>8, <1>9, <1>10
  <2> QED BY <2>1, <2>2, <1>2
<1>12. x \in 0 .. 2 * P - 1
  BY <1>8, <1>9, <1>11
<1> QED BY <1>1, <1>2, <1>8, <1>11, <1>12 DEF P, x, M

(* The number a field holds is the one its bits are interpreted as. *)
LEMMA NumberInterprets ==
  ASSUME NEW s \in Field, NEW bits
  PROVE  Number(bits, s) = Interpret(ExtractBits(bits, s.offset, s.width), s.signed, s.width)
<1> DEFINE N == s.width
           off == s.offset
           first == s.signed /\ off \in bits
<1>1. N \in Nat \ {0} /\ off \in Nat /\ s.signed \in BOOLEAN
  BY DEF Field
<1>2. PICK f : Reads(f, bits, off, N) /\ ExtractBits(bits, off, N) = f[N]
  <2>1. N \in Nat
    BY <1>1
  <2> HIDE DEF N, off
  <2> QED BY <2>1, ExtractReads
<1>3. PICK g : Weighs(g, bits, s) /\ Number(bits, s) = g[N]
  BY NumberWeighs
<1>4. f \in [0 .. N -> Nat] /\ f[0] = 0 /\ \A m \in 1 .. N : f[m] = 2 * f[m - 1] + Bit(bits, off + m - 1)
  BY <1>2 DEF Reads
<1>5. g \in [0 .. N -> Int] /\ g[0] = 0 /\ \A m \in 1 .. N : g[m] = g[m - 1] + Weight(bits, s, m - 1)
  BY <1>3 DEF Weighs
<1> HIDE DEF N, off
<1> DEFINE lost(k) == IF k >= 1 /\ first THEN Span(N) ELSE 0
           T == {k \in Nat : g[k] = f[k] * Span(N - k) - lost(k)}
<1>6. 0 \in T
  <2>1. Span(N - 0) \in Nat
    <3>1. N - 0 \in Nat
      BY <1>1
    <3> QED BY <3>1, SpanPositive
  <2> DEFINE P == Span(N - 0)
  <2> HIDE DEF P
  <2>2. 0 * P - 0 = 0
    BY <2>1 DEF P
  <2> QED BY <1>4, <1>5, <2>2 DEF P
<1>7. \A n \in 0 .. N - 1 : n \in T => n + 1 \in T
  <2> TAKE n \in 0 .. N - 1
  <2> HAVE n \in T
  <2> DEFINE m == n + 1
             r == N - m
             P == Span(r)
             Q == Span(N - n)
             b == Bit(bits, off + m - 1)
             w == Weight(bits, s, m - 1)
             x == f[n]
             y == f[m]
             u == g[n]
             v == g[m]
  <2>1. n \in Nat /\ m \in 1 .. N /\ m - 1 = n /\ n \in 0 .. N /\ r \in Nat /\ r + 1 = N - n
        /\ off + m - 1 = off + n /\ N - 1 - n = r
    BY <1>1
  <2>2. P \in Nat /\ Q = 2 * P
    <3> HIDE DEF r
    <3>1. Span(r) \in Nat /\ Span(r + 1) = 2 * Span(r)
      BY <2>1, SpanNext
    <3> QED BY <3>1, <2>1
  <2>3. x \in Nat /\ u \in Int
    BY <1>4, <1>5, <2>1
  <2>4. y = 2 * x + b /\ v = u + w
    <3> HIDE DEF m
    <3> QED BY <1>4, <1>5, <2>1
  <2>5. b = Bit(bits, off + n) /\ w = Weight(bits, s, n)
    BY <2>1
  <2>6. u = x * Q - lost(n)
    OBVIOUS
  <2>7. v = y * P - lost(m)
    <3> HIDE DEF m, r, P, Q, b, w, x, y, u, v
    <3>1. CASE n = 0
      <4>1. lost(n) = 0
        BY <3>1
      <4>2. r = N - 1 /\ off + n = off /\ m >= 1
        BY <1>1, <2>1, <3>1
      <4>3. x = 0
        BY <1>4, <3>1 DEF x
      <4>4. Span(N) = 2 * P
        BY <2>2, <3>1, <1>1 DEF Q
      <4>5. CASE off \notin bits
        <5>1. b = 0 /\ w = 0 /\ lost(m) = 0
          BY <4>2, <4>5, <2>5 DEF Bit, Weight, off
        <5> QED BY <5>1, <4>1, <4>3, <2>2, <2>3, <2>4, <2>6
      <4>6. CASE off \in bits /\ s.signed
        <5>1. b = 1 /\ lost(m) = Span(N)
          BY <4>2, <4>6, <2>5 DEF Bit
        <5>2. w = -P
          BY <4>2, <4>6, <2>5, <3>1 DEF Weight, P, off, N
        <5> HIDE DEF lost
        <5> QED BY <5>1, <5>2, <4>1, <4>3, <4>4, <2>2, <2>3, <2>4, <2>6
      <4>7. CASE off \in bits /\ ~s.signed
        <5>1. b = 1 /\ lost(m) = 0
          BY <4>2, <4>7, <2>5 DEF Bit
        <5>2. w = P
          BY <4>2, <4>7, <2>1, <2>5, <3>1 DEF Weight, P, off, N
        <5> HIDE DEF lost
        <5> QED BY <5>1, <5>2, <4>1, <4>3, <2>2, <2>3, <2>4, <2>6
      <4> QED BY <4>5, <4>6, <4>7
    <3>2. CASE n # 0
      <4>1. lost(n) = lost(m) /\ lost(n) \in Int
        <5>1. n >= 1 /\ m >= 1
          BY <2>1, <3>2
        <5>2. Span(N) \in Int
          BY <1>1, SpanPositive
        <5> QED BY <5>1, <5>2
      <4>2. w = b * P
        <5>1. CASE off + n \notin bits
          <6>1. b = 0 /\ w = 0
            BY <5>1, <2>5 DEF Bit, Weight, off
          <6> QED BY <6>1, <2>2
        <5>2. CASE off + n \in bits
          <6>1. b = 1
            BY <5>2, <2>5 DEF Bit
          <6>2. w = P
            BY <5>2, <2>1, <2>5, <3>2 DEF Weight, P, off, N
          <6> QED BY <6>1, <6>2, <2>2
        <5> QED BY <5>1, <5>2
      <4>3. b \in {0, 1}
        BY <2>5 DEF Bit
      <4> DEFINE d == lost(n)
      <4>4. d \in Int /\ lost(m) = d
        BY <4>1
      <4>5. u = x * Q - d
        BY <2>6
      <4> HIDE DEF lost, d
      <4> QED BY <4>2, <4>3, <4>4, <4>5, <2>2, <2>3, <2>4
    <3> QED BY <3>1, <3>2
  <2>8. m \in T
    <3> HIDE DEF lost
    <3> QED BY <2>1, <2>7
  <2> QED BY <2>8
<1>8. N \in T
  <2> HIDE DEF T
  <2>1. 0 .. N \subseteq T /\ N \in 0 .. N
    BY <1>1, <1>6, <1>7, InductionUpTo
  <2> QED BY <2>1
<1>9. ExtractBits(bits, off, N) >= Span(N - 1) <=> off \in bits
  BY <1>1, ExtractBound
<1>10. N - N = 0 /\ N >= 1 /\ Span(N - N) = 1 /\ Span(N) \in Nat /\ f[N] \in Nat
  <2>1. N - N = 0 /\ N >= 1
    BY <1>1
  <2>2. N \in 0 .. N
    BY <1>1
  <2> QED BY <1>1, <1>4, <2>1, <2>2, SpanZero, SpanPositive
<1>11. g[N] = f[N] - (IF first THEN Span(N) ELSE 0)
  <2>1. g[N] = f[N] * 1 - lost(N) /\ lost(N) = IF first THEN Span(N) ELSE 0
    BY <1>8, <1>10
  <2> DEFINE d == lost(N)
             x == f[N]
  <2>2. d \in Int /\ x \in Int
    BY <1>10
  <2>3. x * 1 - d = x - d
    <3> HIDE DEF d, x
    <3> QED BY <2>2
  <2> QED BY <2>1, <2>3
<1> DEFINE x == f[N]
           P == Span(N)
<1>12. g[N] = IF s.signed /\ x >= Span(N - 1) THEN x - P ELSE x
  <2>1. first <=> s.signed /\ x >= Span(N - 1)
    BY <1>2, <1>9
  <2>2. x \in Int /\ P \in Int
    BY <1>10
  <2>3. g[N] = x - (IF first THEN P ELSE 0)
    BY <1>11
  <2> HIDE DEF x, P, first
  <2> QED BY <2>1, <2>2, <2>3
<1> QED BY <1>2, <1>3, <1>12 DEF Interpret, N, off

(* A number, its half and its last bit. *)
LEMMA Halves ==
  ASSUME NEW v \in Nat
  PROVE  v \div 2 \in Nat /\ v % 2 \in {0, 1} /\ v = 2 * (v \div 2) + (v % 2)
OBVIOUS

(* A value shifted right is below a smaller power of two each time. *)
LEMMA ShiftsShrink ==
  ASSUME NEW N \in Nat, NEW f, NEW value \in 0 .. Span(N) - 1, Shifts(f, value, N)
  PROVE  \A i \in 0 .. N : f[i] < Span(N - i)
<1>1. f \in [0 .. N -> Nat] /\ f[0] = value /\ \A m \in 1 .. N : f[m] = f[m - 1] \div 2
  BY DEF Shifts
<1> DEFINE T == {i \in Nat : f[i] < Span(N - i)}
<1>2. 0 \in T
  <2>1. N - 0 = N
    OBVIOUS
  <2> QED BY <2>1, <1>1, SpanPositive
<1>3. \A n \in 0 .. N - 1 : n \in T => n + 1 \in T
  <2> TAKE n \in 0 .. N - 1
  <2> HAVE n \in T
  <2> DEFINE m == n + 1
             r == N - m
             P == Span(r)
             Q == Span(N - n)
             x == f[n]
             y == f[m]
  <2>1. m \in 1 .. N /\ m - 1 = n /\ n \in 0 .. N /\ r \in Nat /\ r + 1 = N - n /\ m \in Nat
    OBVIOUS
  <2>2. P \in Nat /\ Q = 2 * P
    <3> HIDE DEF r
    <3>1. Span(r) \in Nat /\ Span(r + 1) = 2 * Span(r)
      BY <2>1, SpanNext
    <3> QED BY <3>1, <2>1
  <2>3. x \in Nat
    BY <1>1, <2>1
  <2>4. y = x \div 2
    <3> HIDE DEF m
    <3> QED BY <1>1, <2>1
  <2>5. x < Q
    OBVIOUS
  <2>6. y < P
    <3> HIDE DEF x, y, P, Q
    <3> QED BY <2>2, <2>3, <2>4, <2>5
  <2> QED BY <2>1, <2>6
<1>4. 0 .. N \subseteq T
  <2> HIDE DEF T
  <2> QED BY <1>2, <1>3, InductionUpTo
<1> QED BY <1>4

(* A field holds the value stored in it. *)
LEMMA ExtractStored ==
  ASSUME NEW N \in Nat, NEW bits, NEW offset \in Nat, NEW value \in 0 .. Span(N) - 1
  PROVE  ExtractBits(StoreBits(bits, offset, N, value), offset, N) = value
<1> DEFINE after == StoreBits(bits, offset, N, value)
<1>1. PICK f : /\ Shifts(f, value, N)
               /\ after = (bits \ (offset .. offset + N - 1))
                          \cup {bit \in offset .. offset + N - 1 : f[offset + N - 1 - bit] % 2 = 1}
  <2>1. value \in Nat
    BY SpanPositive
  <2> QED BY <2>1, StoreShifts
<1> HIDE DEF after
<1>2. PICK g : Reads(g, after, offset, N) /\ ExtractBits(after, offset, N) = g[N]
  BY ExtractReads
<1>3. f \in [0 .. N -> Nat] /\ f[0] = value /\ \A m \in 1 .. N : f[m] = f[m - 1] \div 2
  BY <1>1 DEF Shifts
<1>4. g \in [0 .. N -> Nat] /\ g[0] = 0 /\ \A m \in 1 .. N : g[m] = 2 * g[m - 1] + Bit(after, offset + m - 1)
  BY <1>2 DEF Reads
<1> DEFINE T == {k \in Nat : g[k] = f[N - k]}
<1>5. 0 \in T
  <2>1. N \in 0 .. N /\ N - N = 0
    OBVIOUS
  <2>2. f[N] < Span(N - N)
    BY <1>1, <2>1, ShiftsShrink
  <2>3. f[N] < 1 /\ f[N] \in Nat
    BY <2>1, <2>2, <1>3, SpanZero
  <2>4. N - 0 = N /\ f[N] = 0
    BY <2>3
  <2> QED BY <2>4, <1>4
<1>6. \A n \in 0 .. N - 1 : n \in T => n + 1 \in T
  <2> TAKE n \in 0 .. N - 1
  <2> HAVE n \in T
  <2> DEFINE m == n + 1
             r == N - m
             l == N - n
             v == f[r]
             p == offset + m - 1
  <2>1. m \in 1 .. N /\ m - 1 = n /\ m \in Nat /\ r \in 0 .. N /\ l \in 1 .. N /\ l - 1 = r
    OBVIOUS
  <2>2. p \in offset .. offset + N - 1 /\ offset + N - 1 - p = r
    OBVIOUS
  <2>3. v \in Nat
    <3> HIDE DEF r
    <3> QED BY <1>3, <2>1
  <2>4. f[l] = v \div 2
    <3> HIDE DEF l, r
    <3> QED BY <1>3, <2>1
  <2>5. g[n] = v \div 2
    BY <2>4
  <2>6. g[m] = 2 * g[n] + Bit(after, p)
    <3>1. g[m] = 2 * g[m - 1] + Bit(after, offset + m - 1)
      <4> HIDE DEF m
      <4> QED BY <1>4, <2>1
    <3> QED BY <3>1, <2>1
  <2>7. p \in after <=> v % 2 = 1
    <3> HIDE DEF p, r
    <3> QED BY <1>1, <2>2
  <2>8. Bit(after, p) = v % 2
    <3> HIDE DEF p, v
    <3> QED BY <2>3, <2>7, Halves DEF Bit
  <2>9. g[m] = v
    <3> HIDE DEF m, v, p
    <3> QED BY <2>3, <2>5, <2>6, <2>8, Halves
  <2> QED BY <2>1, <2>9
<1>7. N \in T
  <2> HIDE DEF T
  <2>1. 0 .. N \subseteq T /\ N \in 0 .. N
    BY <1>5, <1>6, InductionUpTo
  <2> QED BY <2>1
<1>8. N - N = 0
  OBVIOUS
<1> QED BY <1>2, <1>3, <1>7, <1>8 DEF after

(* Storing leaves positions that are numbers, and the others as they were. *)
LEMMA StoreTyped ==
  ASSUME NEW N \in Nat, NEW bits \in SUBSET Nat, NEW offset \in Nat, NEW value \in Nat
  PROVE  /\ StoreBits(bits, offset, N, value) \subseteq Nat
         /\ \A p : p \notin offset .. offset + N - 1 =>
              (p \in StoreBits(bits, offset, N, value) <=> p \in bits)
<1>1. PICK f : StoreBits(bits, offset, N, value) =
                 (bits \ (offset .. offset + N - 1))
                 \cup {bit \in offset .. offset + N - 1 : f[offset + N - 1 - bit] % 2 = 1}
  BY StoreShifts
<1>2. offset .. offset + N - 1 \subseteq Nat
  OBVIOUS
<1> QED BY <1>1, <1>2

-----------------------------------------------------------------------------
(* Numbers of a field, and the residues they are stored as *)

(* A number and its residue differ by a multiple. *)
LEMMA Residue ==
  ASSUME NEW t \in Int, NEW S \in Nat, S > 0
  PROVE  t % S \in 0 .. S - 1 /\ \E k \in Int : t = (k * S) + (t % S)
<1>1. t = ((t \div S) * S) + (t % S)
  OBVIOUS
<1>2. t \div S \in Int /\ t % S \in 0 .. S - 1
  OBVIOUS
<1> QED BY <1>1, <1>2

(* The bounds of a field: a span apart, 0 between them. *)
LEMMA FieldBounds ==
  ASSUME NEW s \in Field
  PROVE  /\ s.width \in Nat \ {0} /\ s.width - 1 \in Nat
         /\ Span(s.width - 1) \in Nat /\ Span(s.width - 1) >= 1
         /\ Span(s.width) = 2 * Span(s.width - 1)
         /\ Lowest(s.signed, s.width) = (IF s.signed THEN -Span(s.width - 1) ELSE 0)
         /\ Highest(s.signed, s.width) = Lowest(s.signed, s.width) + Span(s.width) - 1
         /\ Lowest(s.signed, s.width) \in Int /\ Highest(s.signed, s.width) \in Int
         /\ Lowest(s.signed, s.width) <= 0 /\ 0 <= Highest(s.signed, s.width)
<1> DEFINE M == s.width - 1
           P == Span(M)
<1>1. s.width \in Nat \ {0} /\ M \in Nat /\ M + 1 = s.width /\ s.signed \in BOOLEAN
  BY DEF Field
<1>2. P \in Nat /\ P >= 1 /\ Span(s.width) = 2 * P
  <2> HIDE DEF M
  <2>1. Span(M) \in Nat /\ Span(M + 1) = 2 * Span(M) /\ Span(M) >= 1
    BY <1>1, SpanNext, SpanPositive
  <2> QED BY <2>1, <1>1
<1>3. /\ Lowest(s.signed, s.width) = (IF s.signed THEN -P ELSE 0)
      /\ Highest(s.signed, s.width) = (IF s.signed THEN P ELSE 2 * P) - 1
  BY <1>2 DEF Lowest, Highest
<1> HIDE DEF P
<1>4. CASE s.signed = TRUE
  <2>1. Lowest(s.signed, s.width) = -P /\ Highest(s.signed, s.width) = P - 1
    BY <1>3, <1>4
  <2> QED BY <1>1, <1>2, <1>4, <2>1 DEF P
<1>5. CASE s.signed = FALSE
  <2>1. Lowest(s.signed, s.width) = 0 /\ Highest(s.signed, s.width) = 2 * P - 1
    BY <1>3, <1>5
  <2> QED BY <1>1, <1>2, <1>5, <2>1 DEF P
<1> QED BY <1>1, <1>4, <1>5

(* The residue of t is interpreted as the number of the field that is t    *)
(* but for a multiple of the span.                                         *)
LEMMA InterpretResidue ==
  ASSUME NEW s \in Field, NEW t \in Int
  PROVE  LET v == Interpret(t % Span(s.width), s.signed, s.width)
         IN /\ v \in Lowest(s.signed, s.width) .. Highest(s.signed, s.width)
            /\ (v - t) % Span(s.width) = 0
            /\ t % Span(s.width) \in 0 .. Span(s.width) - 1
            /\ \E k \in Int : v = t + k * Span(s.width)
<1> DEFINE S == Span(s.width)
           P == Span(s.width - 1)
           r == t % S
           lo == Lowest(s.signed, s.width)
           hi == Highest(s.signed, s.width)
           v == Interpret(r, s.signed, s.width)
<1>1. P \in Nat /\ P >= 1 /\ S = 2 * P /\ lo = (IF s.signed THEN -P ELSE 0) /\ hi = lo + S - 1 /\ lo \in Int
  BY FieldBounds
<1>2. v = IF s.signed /\ r >= P THEN r - S ELSE r
  BY DEF Interpret
<1> HIDE DEF S, P, lo, hi, v
<1>3. r \in 0 .. S - 1 /\ \E k \in Int : t = (k * S) + (t % S)
  <2>1. t \in Int /\ S \in Nat /\ S > 0
    BY <1>1
  <2> QED BY <2>1, Residue, Zenon
<1>4. PICK k \in Int : t = (k * S) + r
  BY <1>3
<1> HIDE DEF r
<1>5. s.signed \in BOOLEAN
  BY DEF Field
<1>6. v \in lo .. hi
  <2>1. CASE s.signed = TRUE
    BY <2>1, <1>1, <1>2, <1>3
  <2>2. CASE s.signed = FALSE
    BY <2>2, <1>1, <1>2, <1>3
  <2> QED BY <2>1, <2>2, <1>5
<1>7. PICK j \in Int : v = t + (j * S)
  <2>1. CASE s.signed /\ r >= P
    <3>1. v = r - S
      BY <2>1, <1>2
    <3>2. v = t + ((-k - 1) * S)
      BY <3>1, <1>1, <1>3, <1>4
    <3>3. (-k - 1) \in Int
      OBVIOUS
    <3> QED BY <3>2, <3>3
  <2>2. CASE ~(s.signed /\ r >= P)
    <3>1. v = r
      BY <2>2, <1>2
    <3>2. v = t + ((-k) * S)
      BY <3>1, <1>1, <1>3, <1>4
    <3>3. (-k) \in Int
      OBVIOUS
    <3> QED BY <3>2, <3>3
  <2> QED BY <2>1, <2>2
<1>8. (v - t) % S = 0
  <2>1. v - t = (j * S) + 0
    BY <1>1, <1>3, <1>7
  <2>2. 0 \in 0 .. S - 1
    BY <1>1
  <2>3. S \in Nat /\ v - t \in Int
    BY <1>1, <1>7
  <2> DEFINE d == v - t
  <2> HIDE DEF d
  <2>4. d \in Int /\ d = (j * S) + 0
    BY <2>1, <2>3 DEF d
  <2>5. d % S = 0
    BY <2>2, <2>3, <2>4, <1>1
  <2> QED BY <2>5 DEF d
<1> QED BY <1>3, <1>6, <1>7, <1>8 DEF S, P, r, lo, hi, v

(* Numbers of a field that differ by a multiple of the span are equal. *)
LEMMA SameResidue ==
  ASSUME NEW s \in Field, NEW t \in Int,
         NEW v \in Lowest(s.signed, s.width) .. Highest(s.signed, s.width),
         NEW w \in Lowest(s.signed, s.width) .. Highest(s.signed, s.width),
         (v - t) % Span(s.width) = 0, (w - t) % Span(s.width) = 0
  PROVE  v = w
<1> DEFINE S == Span(s.width)
           lo == Lowest(s.signed, s.width)
           hi == Highest(s.signed, s.width)
<1>1. S \in Nat /\ S >= 1 /\ hi = lo + S - 1 /\ lo \in Int
  <2>1. Span(s.width) = 2 * Span(s.width - 1) /\ Span(s.width - 1) \in Nat /\ Span(s.width - 1) >= 1
    BY FieldBounds
  <2> QED BY <2>1, FieldBounds
<1>2. v \in lo .. hi /\ w \in lo .. hi
  OBVIOUS
<1> HIDE DEF lo, hi
<1>3. v \in Int /\ w \in Int /\ v - w < S /\ w - v < S
  BY <1>1, <1>2
<1> DEFINE c == v - t
           d == w - t
<1>4. c \in Int /\ d \in Int /\ c % S = 0 /\ d % S = 0 /\ c - d = v - w
  BY <1>3
<1> HIDE DEF S, c, d
<1>5. PICK k \in Int : c = (k * S) + (c % S)
  <2>1. c \in Int /\ S \in Nat /\ S > 0
    BY <1>1, <1>4
  <2> QED BY <2>1, Residue, Zenon
<1>6. PICK l \in Int : d = (l * S) + (d % S)
  <2>1. d \in Int /\ S \in Nat /\ S > 0
    BY <1>1, <1>4
  <2> QED BY <2>1, Residue, Zenon
<1>7. c - d = (k - l) * S
  BY <1>1, <1>4, <1>5, <1>6
<1> DEFINE m == k - l
<1>8. m \in Int /\ m * S < S /\ -(m * S) < S
  BY <1>1, <1>3, <1>4, <1>7
<1> HIDE DEF m
<1>9. m = 0
  BY <1>1, <1>8
<1>10. c - d = 0
  BY <1>7, <1>9, <1>1 DEF m
<1> QED BY <1>3, <1>4, <1>10

(* What is stored of a number of the field reads back as that number. *)
LEMMA StoredNumber ==
  ASSUME NEW s \in Field, NEW bits \in SUBSET Nat,
         NEW v \in Lowest(s.signed, s.width) .. Highest(s.signed, s.width)
  PROVE  Number(StoreBits(bits, s.offset, s.width, v % Span(s.width)), s) = v
<1> DEFINE S == Span(s.width)
           lo == Lowest(s.signed, s.width)
           hi == Highest(s.signed, s.width)
           r == v % S
           after == StoreBits(bits, s.offset, s.width, r)
           u == Interpret(r, s.signed, s.width)
<1>1. v \in Int /\ s.width \in Nat /\ s.offset \in Nat
  BY FieldBounds DEF Field
<1>2. u \in lo .. hi /\ (u - v) % S = 0 /\ r \in 0 .. S - 1
  BY <1>1, InterpretResidue
<1>3. (v - v) % S = 0
  <2>1. S \in Nat /\ S >= 1 /\ v - v = 0
    BY <1>1, SpanPositive
  <2> HIDE DEF S
  <2>2. 0 % S = 0
    BY <2>1
  <2> QED BY <2>1, <2>2
<1>4. u = v
  <2> HIDE DEF u, r
  <2>1. u \in Lowest(s.signed, s.width) .. Highest(s.signed, s.width) /\ (u - v) % Span(s.width) = 0
        /\ (v - v) % Span(s.width) = 0
    BY <1>2, <1>3
  <2> QED BY <2>1, <1>1, SameResidue
<1>5. ExtractBits(after, s.offset, s.width) = r
  <2> HIDE DEF r
  <2> QED BY <1>1, <1>2, ExtractStored
<1>6. Number(after, s) = Interpret(ExtractBits(after, s.offset, s.width), s.signed, s.width)
  BY NumberInterprets
<1> QED BY <1>4, <1>5, <1>6

-----------------------------------------------------------------------------
(* Subcommands of BITFIELD *)

(* The distance of two numbers. *)
Gap(v, t) == IF v > t THEN v - t ELSE t - v

(* The number of a range nearest to one outside it is the bound it passed. *)
LEMMA Nearest ==
  ASSUME NEW lo \in Int, NEW hi \in Int, lo <= hi, NEW t \in Int, ~(lo <= t /\ t <= hi)
  PROVE  (CHOOSE v \in lo .. hi : \A w \in lo .. hi : Gap(v, t) <= Gap(w, t))
           = IF t < lo THEN lo ELSE hi
<1> DEFINE near(v) == v \in lo .. hi /\ \A w \in lo .. hi : Gap(v, t) <= Gap(w, t)
           e == IF t < lo THEN lo ELSE hi
<1>1. near(e)
  BY DEF Gap
<1>2. \A v : near(v) => v = e
  <2> SUFFICES ASSUME NEW v, near(v) PROVE v = e
    OBVIOUS
  <2>1. v \in lo .. hi /\ e \in lo .. hi /\ Gap(v, t) <= Gap(e, t)
    OBVIOUS
  <2> QED BY <2>1 DEF Gap
<1>3. (CHOOSE v \in lo .. hi : \A w \in lo .. hi : Gap(v, t) <= Gap(w, t)) = CHOOSE v : near(v)
  OBVIOUS
<1> HIDE DEF near, e
<1>4. (CHOOSE v : near(v)) = e
  BY <1>1, <1>2
<1> QED BY <1>3, <1>4 DEF e

(* What _bitfield_overflow makes of a number is what the field owes. *)
LEMMA OverflowOwed ==
  ASSUME NEW s \in Field, NEW old, NEW target \in Int
  PROVE  LET n == Overflow(target, s.signed, s.width, s.overflow)
             o == Owed(s, old, target)
         IN \/ /\ n.ok = TRUE
               /\ n.value \in Lowest(s.signed, s.width) .. Highest(s.signed, s.width)
               /\ o = [value |-> n.value, out |-> IF s.op = "SET" THEN old ELSE n.value]
            \/ n.ok = FALSE /\ o = [value |-> old, out |-> None]
<1> DEFINE lo == Lowest(s.signed, s.width)
           hi == Highest(s.signed, s.width)
           S == Span(s.width)
           n == Overflow(target, s.signed, s.width, s.overflow)
           o == Owed(s, old, target)
           fits == lo <= target /\ target <= hi
           wrapped == Interpret(target % S, s.signed, s.width)
           bound == IF target < lo THEN lo ELSE hi
           congruent(v) == v \in lo .. hi /\ (v - target) % S = 0
           said(v) == IF s.op = "SET" THEN old ELSE v
<1>1. lo \in Int /\ hi \in Int /\ lo <= hi
  BY FieldBounds
<1>2. s.overflow \in {"WRAP", "SAT", "FAIL"}
  BY DEF Field
<1>3. n = IF target \in lo .. hi THEN [value |-> target, ok |-> TRUE]
          ELSE IF s.overflow = "SAT" THEN [value |-> bound, ok |-> TRUE]
          ELSE IF s.overflow = "WRAP" THEN [value |-> wrapped, ok |-> TRUE]
          ELSE [value |-> 0, ok |-> FALSE]
  BY Zenon DEF Overflow
<1>4. o = LET new == IF fits THEN target
                     ELSE IF s.overflow = "WRAP" THEN CHOOSE v \in lo .. hi : (v - target) % S = 0
                     ELSE IF s.overflow = "FAIL" THEN old
                     ELSE CHOOSE v \in lo .. hi : \A w \in lo .. hi : Gap(v, target) <= Gap(w, target)
          IN [value |-> new,
              out |-> IF ~fits /\ s.overflow = "FAIL" THEN None ELSE said(new)]
  BY Zenon DEF Owed, Gap
<1>5. wrapped \in lo .. hi /\ (wrapped - target) % S = 0
  BY InterpretResidue
<1>6. (CHOOSE v \in lo .. hi : (v - target) % S = 0) = wrapped
  <2>1. \A v : congruent(v) => v = wrapped
    <3> SUFFICES ASSUME NEW v, congruent(v) PROVE v = wrapped
      OBVIOUS
    <3>1. v \in lo .. hi /\ (v - target) % S = 0
      OBVIOUS
    <3> HIDE DEF wrapped
    <3> QED BY <3>1, <1>5, SameResidue
  <2>2. congruent(wrapped)
    BY <1>5
  <2>3. (CHOOSE v \in lo .. hi : (v - target) % S = 0) = CHOOSE v : congruent(v)
    OBVIOUS
  <2> HIDE DEF congruent, wrapped
  <2>4. (CHOOSE v : congruent(v)) = wrapped
    BY <2>1, <2>2
  <2> QED BY <2>3, <2>4
<1>7. ~fits => (CHOOSE v \in lo .. hi : \A w \in lo .. hi : Gap(v, target) <= Gap(w, target)) = bound
  <2> HIDE DEF lo, hi
  <2> QED BY <1>1, Nearest
<1>8. target \in lo .. hi <=> fits
  BY <1>1
<1>9. bound \in lo .. hi
  BY <1>1
<1> HIDE DEF lo, hi, n, o, wrapped, bound, fits, S, said
<1>10. CASE fits
  <2>1. n = [value |-> target, ok |-> TRUE]
    BY <1>3, <1>8, <1>10
  <2>2. o = [value |-> target, out |-> said(target)]
    BY <1>4, <1>10
  <2> QED BY <2>1, <2>2, <1>8, <1>10 DEF n, o, said, lo, hi
<1>11. CASE ~fits /\ s.overflow = "SAT"
  <2>1. n = [value |-> bound, ok |-> TRUE]
    BY <1>3, <1>8, <1>11
  <2>2. o = [value |-> bound, out |-> said(bound)]
    BY <1>4, <1>7, <1>11
  <2> QED BY <2>1, <2>2, <1>9 DEF n, o, said, lo, hi
<1>12. CASE ~fits /\ s.overflow = "WRAP"
  <2>1. n = [value |-> wrapped, ok |-> TRUE]
    BY <1>3, <1>8, <1>12
  <2>2. o = [value |-> wrapped, out |-> said(wrapped)]
    BY <1>4, <1>6, <1>12
  <2> QED BY <2>1, <2>2, <1>5 DEF n, o, said, lo, hi
<1>13. CASE ~fits /\ s.overflow = "FAIL"
  <2>1. n = [value |-> 0, ok |-> FALSE]
    BY <1>3, <1>8, <1>13
  <2>2. o = [value |-> old, out |-> None]
    BY <1>4, <1>13
  <2> QED BY <2>1, <2>2 DEF n, o
<1> QED BY <1>2, <1>10, <1>11, <1>12, <1>13

(* What a field holds is a number. *)
LEMMA NumberTyped ==
  ASSUME NEW s \in Field, NEW bits
  PROVE  Number(bits, s) \in Int
<1>1. s.width \in Nat \ {0} /\ s.offset \in Nat /\ s.width - 1 \in Nat
  BY FieldBounds DEF Field
<1>2. Span(s.width) \in Nat /\ Span(s.width - 1) \in Nat
  BY <1>1, SpanPositive
<1>3. ExtractBits(bits, s.offset, s.width) \in Int
  <2>1. ExtractBits(bits, s.offset, s.width) \in 0 .. Span(s.width) - 1
    BY <1>1, ExtractBound
  <2> QED BY <2>1, <1>2
<1>4. Number(bits, s) = Interpret(ExtractBits(bits, s.offset, s.width), s.signed, s.width)
  BY NumberInterprets
<1> DEFINE x == ExtractBits(bits, s.offset, s.width)
<1> HIDE DEF x
<1>5. Interpret(x, s.signed, s.width) \in Int
  BY <1>2, <1>3 DEF Interpret, x
<1> QED BY <1>4, <1>5 DEF x

(* What a subcommand tries to store. *)
Target(bits, s) == IF s.op = "SET" THEN s.amount ELSE Number(bits, s) + s.amount

(* The bits that differ lie in the field. *)
Touches(was, after, s) ==
    (after \cup was) \ (after \cap was) \subseteq s.offset .. s.offset + s.width - 1

(* One subcommand answers and stores what it owes. *)
LEMMA SubcommandOwed ==
  ASSUME NEW s \in Field, NEW bits \in SUBSET Nat
  PROVE  LET r == Subcommand(bits, s)
             owed == Owed(s, Number(bits, s), Target(bits, s))
         IN /\ r.bits \in SUBSET Nat /\ r.out \in Int \cup {None} /\ r.wrote \in BOOLEAN
            /\ s.op = "GET" => r.bits = bits /\ r.out = Number(bits, s)
            /\ s.op # "GET" => Number(r.bits, s) = owed.value /\ r.out = owed.out
            /\ Touches(bits, r.bits, s)
            /\ r.wrote <=> s.op # "GET" /\ r.out # None
<1> DEFINE old == Number(bits, s)
           target == Target(bits, s)
           n == Overflow(target, s.signed, s.width, s.overflow)
           o == Owed(s, old, target)
           r == Subcommand(bits, s)
           S == Span(s.width)
           stored == StoreBits(bits, s.offset, s.width, n.value % S)
           said == IF s.op = "SET" THEN old ELSE n.value
<1>1. old = Interpret(ExtractBits(bits, s.offset, s.width), s.signed, s.width)
  BY NumberInterprets
<1>2. r = IF s.op = "GET" THEN [bits |-> bits, out |-> old, wrote |-> FALSE]
          ELSE IF ~n.ok THEN [bits |-> bits, out |-> None, wrote |-> FALSE]
          ELSE [bits |-> stored, out |-> said, wrote |-> TRUE]
  BY <1>1, Zenon DEF Subcommand, Target
<1>3. s.amount \in Int /\ s.offset \in Nat /\ s.width \in Nat
  BY DEF Field
<1>4. old \in Int /\ None \notin Int
  BY NumberTyped, QueriesAssumption
<1>5. target \in Int
  BY <1>3, <1>4 DEF Target
<1>6. Touches(bits, bits, s)
  BY DEF Touches
<1>7. \/ n.ok = TRUE /\ n.value \in Lowest(s.signed, s.width) .. Highest(s.signed, s.width)
         /\ o = [value |-> n.value, out |-> said]
      \/ n.ok = FALSE /\ o = [value |-> old, out |-> None]
  <2> HIDE DEF old, target
  <2> QED BY <1>5, OverflowOwed
<1> HIDE DEF r, n, o, stored, said, old, target, S
<1>8. CASE s.op = "GET"
  <2>1. r = [bits |-> bits, out |-> old, wrote |-> FALSE]
    BY <1>2, <1>8
  <2> QED BY <2>1, <1>4, <1>6, <1>8 DEF r, old
<1>9. CASE s.op # "GET" /\ n.ok = FALSE
  <2>1. r = [bits |-> bits, out |-> None, wrote |-> FALSE]
    BY <1>2, <1>9
  <2>2. o = [value |-> old, out |-> None]
    BY <1>7, <1>9
  <2> QED BY <2>1, <2>2, <1>4, <1>6, <1>9 DEF r, old, o, target
<1>10. CASE s.op # "GET" /\ n.ok = TRUE
  <2>1. r = [bits |-> stored, out |-> said, wrote |-> TRUE]
    BY <1>2, <1>10
  <2>2. /\ n.value \in Lowest(s.signed, s.width) .. Highest(s.signed, s.width)
        /\ o = [value |-> n.value, out |-> said]
    BY <1>7, <1>10
  <2>3. n.value \in Int
    BY <2>2, FieldBounds
  <2>4. Number(stored, s) = n.value
    BY <2>2, StoredNumber DEF stored, S
  <2>5. n.value % S \in Nat
    <3>1. S \in Nat /\ S >= 1
      BY <1>3, SpanPositive DEF S
    <3> QED BY <3>1, <2>3
  <2>6. /\ stored \subseteq Nat
        /\ \A p : p \notin s.offset .. s.offset + s.width - 1 => (p \in stored <=> p \in bits)
    BY <1>3, <2>5, StoreTyped DEF stored
  <2>7. Touches(bits, stored, s)
    BY <2>6 DEF Touches
  <2>8. said \in Int
    BY <1>4, <2>3 DEF said
  <2>9. said # None
    BY <1>4, <2>8
  <2>10. r.bits = stored /\ r.out = said /\ r.wrote = TRUE
    BY <2>1
  <2>11. o.value = n.value /\ o.out = said
    BY <2>2
  <2> QED BY <2>4, <2>6, <2>7, <2>8, <2>9, <2>10, <2>11, <1>10 DEF r, old, o, target
<1> QED BY <1>7, <1>8, <1>9, <1>10

-----------------------------------------------------------------------------
(* BITFIELD *)

(* What BITFIELD carries from one subcommand to the next. *)
State == [bits : SUBSET Nat, out : Seq(Int \cup {None}), wrote : BOOLEAN]

(* A subcommand after those that left acc. *)
Then(acc, s) ==
    LET r == Subcommand(acc.bits, s)
    IN [bits |-> r.bits, out |-> Append(acc.out, r.out), wrote |-> acc.wrote \/ r.wrote]

(* A subcommand leaves such a state. *)
LEMMA ThenTyped ==
  ASSUME NEW s \in Field, NEW acc \in State
  PROVE  Then(acc, s) \in State
<1> DEFINE r == Subcommand(acc.bits, s)
           S == Int \cup {None}
           said == Append(acc.out, r.out)
<1>1. acc.bits \in SUBSET Nat /\ acc.out \in Seq(S) /\ acc.wrote \in BOOLEAN
  BY DEF State
<1>2. r.bits \in SUBSET Nat /\ r.out \in S /\ r.wrote \in BOOLEAN
  BY <1>1, SubcommandOwed
<1> HIDE DEF r, S
<1>3. said \in Seq(S)
  BY <1>1, <1>2
<1>4. (acc.wrote \/ r.wrote) \in BOOLEAN
  OBVIOUS
<1> HIDE DEF said
<1> QED BY <1>2, <1>3, <1>4 DEF State, Then, r, S, said

(* f[m]: what the first m subcommands leave. *)
Served(f, bits, subs) ==
    /\ f \in [0 .. Len(subs) -> State]
    /\ f[0] = [bits |-> bits, out |-> <<>>, wrote |-> FALSE]
    /\ \A m \in 1 .. Len(subs) : f[m] = Then(f[m - 1], subs[m])

(* BITFIELD serves its subcommands in order. *)
LEMMA BitfieldServes ==
  ASSUME NEW q, q.bits \in SUBSET Nat, q.subs \in Seq(Field)
  PROVE  \E f : Served(f, q.bits, q.subs) /\ BITFIELD(q) = f[Len(q.subs)]
<1> DEFINE N == Len(q.subs)
           c == [bits |-> q.bits, out |-> <<>>, wrote |-> FALSE]
           Rec(f) == f = [n \in 0 .. N |-> IF n = 0 THEN c ELSE Then(f[n - 1], q.subs[n])]
           step == [k \in 1 .. N |-> [v \in State |-> Then(v, q.subs[k])]]
           fc == CHOOSE f : Rec(f)
<1>01. N \in Nat /\ \A k \in 1 .. N : q.subs[k] \in Field
  OBVIOUS
<1>02. c \in State
  BY DEF State
<1>7. BITFIELD(q) = fc[N]
  BY Zenon DEF BITFIELD, Then
<1> HIDE DEF N, c
<1>1. step \in [1 .. N -> [State -> State]]
  <2>1. \A k \in 1 .. N : \A v \in State : Then(v, q.subs[k]) \in State
    BY <1>01, ThenTyped
  <2> QED BY <2>1
<1>2. PICK g : Made(g, N, State, c, step)
  <2> HIDE DEF step
  <2> QED BY <1>01, <1>02, <1>1, Recursion
<1>3. g \in [0 .. N -> State] /\ g[0] = c /\ \A m \in 1 .. N : g[m] = step[m][g[m - 1]]
  <2> HIDE DEF step
  <2> QED BY <1>2 DEF Made
<1>4. \A m \in 1 .. N : g[m] = Then(g[m - 1], q.subs[m])
  <2> TAKE m \in 1 .. N
  <2>1. m - 1 \in 0 .. N
    BY <1>01
  <2>2. g[m - 1] \in State
    BY <2>1, <1>3
  <2>3. step[m][g[m - 1]] = Then(g[m - 1], q.subs[m])
    BY <2>2
  <2> HIDE DEF step
  <2> QED BY <1>3, <2>3
<1>5. Rec(g)
  <2> HIDE DEF step
  <2>1. g = [k \in 0 .. N |-> g[k]]
    BY <1>3
  <2>2. \A k \in 0 .. N : g[k] = IF k = 0 THEN c ELSE Then(g[k - 1], q.subs[k])
    <3> TAKE k \in 0 .. N
    <3>1. k # 0 => k \in 1 .. N
      BY <1>01
    <3> QED BY <3>1, <1>3, <1>4
  <2> QED BY <2>1, <2>2, Zenon
<1>6. Rec(fc)
  <2> HIDE DEF Rec
  <2> QED BY <1>5
<1> HIDE DEF fc
<1>8. \A k \in 0 .. N : fc[k] = IF k = 0 THEN c ELSE Then(fc[k - 1], q.subs[k])
  BY <1>6, Zenon
<1>9. \A k \in 0 .. N : fc[k] = g[k]
  <2>1. fc[0] = g[0]
    BY <1>01, <1>3, <1>8
  <2>2. \A m \in 1 .. N : fc[m - 1] = g[m - 1] => fc[m] = g[m]
    <3> TAKE m \in 1 .. N
    <3>1. m \in 0 .. N /\ m # 0
      BY <1>01
    <3> HIDE DEF step
    <3> QED BY <3>1, <1>4, <1>8
  <2>3. N \in Nat
    BY <1>01
  <2> HIDE DEF step
  <2>4. Alike(fc, g, N)
    BY <2>1, <2>2 DEF Alike
  <2> QED BY <2>3, <2>4, AlikeChain
<1>10. Served(g, q.bits, q.subs)
  <2> HIDE DEF step
  <2> QED BY <1>3, <1>4 DEF Served, N, c
<1>11. BITFIELD(q) = g[N]
  BY <1>01, <1>7, <1>9
<1> QED BY <1>10, <1>11 DEF N

(* Serving fewer of the subcommands leaves what serving all had left then. *)
LEMMA ServedUpTo ==
  ASSUME NEW q \in BitfieldQuery, NEW f, Served(f, q.bits, q.subs), NEW i \in 0 .. Len(q.subs)
  PROVE  BITFIELD([q EXCEPT !.subs = SubSeq(@, 1, i)]) = f[i]
<1> DEFINE N == Len(q.subs)
           some == SubSeq(q.subs, 1, i)
           p == [q EXCEPT !.subs = some]
<1>1. q.bits \in SUBSET Nat /\ q.subs \in Seq(Field) /\ N \in Nat /\ i \in Nat
  BY DEF BitfieldQuery
<1>2. some \in Seq(Field) /\ Len(some) = i /\ \A m \in 1 .. i : some[m] = q.subs[m]
  <2> DEFINE subs == q.subs
  <2>1. subs \in Seq(Field) /\ i <= Len(subs)
    BY <1>1
  <2> HIDE DEF subs
  <2>2. \A x \in 1 .. i : subs[x] \in Field
    BY <2>1, <1>1
  <2> DEFINE t == SubSeq(subs, 1, i)
  <2>3. /\ t \in Seq(Field) /\ Len(t) = (IF 1 <= i THEN i - 1 + 1 ELSE 0)
        /\ \A x \in 1 .. i - 1 + 1 : t[x] = subs[1 + x - 1]
    BY <2>2, <1>1, SubSeqProperties
  <2> HIDE DEF t
  <2>4. t \in Seq(Field) /\ Len(t) = i
    BY <2>3, <1>1
  <2>5. \A m \in 1 .. i : t[m] = subs[m]
    <3> TAKE m \in 1 .. i
    <3>1. m \in 1 .. i - 1 + 1 /\ 1 + m - 1 = m
      BY <1>1
    <3> QED BY <3>1, <2>3
  <2> QED BY <2>4, <2>5 DEF t, subs
<1> HIDE DEF some
<1>3. p.bits = q.bits /\ p.subs = some
  BY DEF BitfieldQuery
<1>4. PICK g : Served(g, p.bits, p.subs) /\ BITFIELD(p) = g[Len(p.subs)]
  <2> HIDE DEF p
  <2>1. p.bits \in SUBSET Nat /\ p.subs \in Seq(Field)
    BY <1>1, <1>2, <1>3
  <2> QED BY <2>1, BitfieldServes
<1> HIDE DEF p
<1>5. /\ g[0] = [bits |-> q.bits, out |-> <<>>, wrote |-> FALSE]
      /\ \A m \in 1 .. i : g[m] = Then(g[m - 1], q.subs[m])
  BY <1>2, <1>3, <1>4 DEF Served
<1>6. /\ f[0] = [bits |-> q.bits, out |-> <<>>, wrote |-> FALSE]
      /\ \A m \in 1 .. N : f[m] = Then(f[m - 1], q.subs[m])
  BY DEF Served
<1>7. \A m \in 0 .. i : g[m] = f[m]
  <2>1. g[0] = f[0]
    BY <1>5, <1>6
  <2>2. \A m \in 1 .. i : g[m - 1] = f[m - 1] => g[m] = f[m]
    <3> TAKE m \in 1 .. i
    <3>1. m \in 1 .. N
      BY <1>1
    <3> QED BY <3>1, <1>5, <1>6
  <2>3. i \in Nat
    BY <1>1
  <2>4. Alike(g, f, i)
    BY <2>1, <2>2 DEF Alike
  <2> QED BY <2>3, <2>4, AlikeChain
<1>8. BITFIELD(p) = f[i]
  BY <1>1, <1>2, <1>3, <1>4, <1>7
<1> QED BY <1>8 DEF p, some

(* The replies collected, and whether anything was written. *)
Collected(f, subs, n) ==
    LET r(i) == Subcommand(f[i - 1].bits, subs[i])
    IN /\ Len(f[n].out) = n
       /\ \A i \in 1 .. n : f[n].out[i] = r(i).out
       /\ f[n].wrote <=> \E i \in 1 .. n : r(i).wrote

(* Each reply is the one its subcommand gave, on what those before it      *)
(* left.                                                                   *)
LEMMA ServedCollects ==
  ASSUME NEW bits, NEW subs \in Seq(Field), NEW f, Served(f, bits, subs)
  PROVE  \A n \in 0 .. Len(subs) : Collected(f, subs, n)
<1> DEFINE r(i) == Subcommand(f[i - 1].bits, subs[i])
           N == Len(subs)
           T == {n \in Nat : /\ Len(f[n].out) = n
                             /\ \A i \in 1 .. n : f[n].out[i] = r(i).out
                             /\ f[n].wrote <=> \E i \in 1 .. n : r(i).wrote}
<1>1. /\ f \in [0 .. N -> State] /\ f[0] = [bits |-> bits, out |-> <<>>, wrote |-> FALSE]
      /\ \A m \in 1 .. N : f[m] = Then(f[m - 1], subs[m])
  BY DEF Served
<1>2. N \in Nat
  OBVIOUS
<1>3. 0 \in T
  <2>1. Len(f[0].out) = 0 /\ f[0].wrote = FALSE /\ 1 .. 0 = {}
    BY <1>1
  <2> HIDE DEF r
  <2> QED BY <2>1
<1>4. \A n \in 0 .. N - 1 : n \in T => n + 1 \in T
  <2> TAKE n \in 0 .. N - 1
  <2> HAVE n \in T
  <2> DEFINE m == n + 1
             a == f[n]
             z == f[m]
  <2>1. m \in 1 .. N /\ m - 1 = n /\ m \in Nat /\ n \in 0 .. N /\ n \in Nat
    BY <1>2
  <2>2. /\ Len(a.out) = n
        /\ \A i \in 1 .. n : a.out[i] = r(i).out
        /\ a.wrote <=> \E i \in 1 .. n : r(i).wrote
    OBVIOUS
  <2>3. a \in State
    BY <1>1, <2>1
  <2>4. a.out \in Seq(Int \cup {None})
    BY <2>3 DEF State
  <2>5. z = Then(a, subs[m])
    <3> HIDE DEF m
    <3> QED BY <1>1, <2>1
  <2>6. r(m) = Subcommand(a.bits, subs[m])
    BY <2>1
  <2>7. z.out = Append(a.out, r(m).out) /\ (z.wrote <=> a.wrote \/ r(m).wrote)
    <3> DEFINE x == Subcommand(a.bits, subs[m])
               y == a.wrote \/ x.wrote
    <3>1. z = [bits |-> x.bits, out |-> Append(a.out, x.out), wrote |-> y]
      BY <2>5, Zenon DEF Then
    <3>2. r(m) = x
      BY <2>6
    <3> HIDE DEF z, a, x, y, r
    <3>3. z.out = Append(a.out, x.out) /\ z.wrote = y
      BY <3>1
    <3>4. z.wrote <=> a.wrote \/ x.wrote
      BY <3>3, Zenon DEF y
    <3> QED BY <3>2, <3>3, <3>4
  <2> HIDE DEF r, z, a
  <2>8. \A i : i \in 1 .. m <=> i \in 1 .. n \/ i = m
    BY <2>1
  <2>9. Len(z.out) = m /\ \A i \in 1 .. m : z.out[i] = r(i).out
    <3> DEFINE v == r(m).out
               t == a.out
               S == Int \cup {None} \cup {v}
    <3>1. t \in Seq(S)
      <4>1. Int \cup {None} \subseteq S
        OBVIOUS
      <4> HIDE DEF S
      <4> QED BY <4>1, <2>4
    <3>2. v \in S
      OBVIOUS
    <3> HIDE DEF S
    <3>3. Len(Append(t, v)) = Len(t) + 1 /\ Append(t, v)[Len(t) + 1] = v
          /\ \A i \in 1 .. Len(t) : Append(t, v)[i] = t[i]
      <4> HIDE DEF t, v
      <4> QED BY <3>1, <3>2
    <3> HIDE DEF t, v
    <3>4. Len(t) = n /\ \A i \in 1 .. n : t[i] = r(i).out
      BY <2>2 DEF t
    <3>5. z.out = Append(t, v)
      BY <2>7 DEF t, v
    <3>6. Len(z.out) = m /\ z.out[m] = v /\ \A i \in 1 .. n : z.out[i] = t[i]
      BY <3>3, <3>4, <3>5
    <3> QED BY <3>4, <3>6, <2>8 DEF v
  <2>10. z.wrote <=> \E i \in 1 .. m : r(i).wrote
    BY <2>2, <2>7, <2>8
  <2> HIDE DEF m
  <2>11. m \in T
    BY <2>1, <2>9, <2>10 DEF z
  <2> QED BY <2>11 DEF m
<1>5. 0 .. N \subseteq T
  <2> HIDE DEF T
  <2> QED BY <1>2, <1>3, <1>4, InductionUpTo
<1> QED BY <1>5 DEF Collected

(* A BITFIELD reply is owed subcommand by subcommand. *)
LEMMA BitfieldHolds == ReplyInv => BitfieldExact
<1> SUFFICES ASSUME ReplyInv, reply.command = "BITFIELD" PROVE BitfieldExact
  BY DEF BitfieldExact
<1> DEFINE N == Len(query.subs)
           upto(i) == BITFIELD([query EXCEPT !.subs = SubSeq(@, 1, i)])
           said(i) == reply.result.out[i]
           s(i) == query.subs[i]
           held(i) == Number(upto(i - 1).bits, s(i))
           owed(i) == Owed(s(i), held(i), Target(upto(i - 1).bits, s(i)))
<1>1. query \in Query /\ query.command = "BITFIELD" /\ reply.result = Answered(query).result
  BY ReplyGiven
<1>2. reply.result = BITFIELD(query)
  BY <1>1 DEF Answered
<1>3. query \in BitfieldQuery
  BY <1>1, QueryForms
<1>4. query.bits \in SUBSET Nat /\ query.subs \in Seq(Field) /\ N \in Nat
  BY <1>3 DEF BitfieldQuery
<1>5. PICK f : Served(f, query.bits, query.subs) /\ BITFIELD(query) = f[N]
  BY <1>4, BitfieldServes
<1>6. \A i \in 0 .. N : upto(i) = f[i]
  BY <1>3, <1>5, ServedUpTo
<1>7. reply.result = upto(N)
  <2>1. N \in 0 .. N
    BY <1>4
  <2> HIDE DEF upto
  <2> QED BY <2>1, <1>2, <1>5, <1>6
<1>8. f \in [0 .. N -> State] /\ \A m \in 1 .. N : f[m] = Then(f[m - 1], query.subs[m])
  BY <1>5 DEF Served
<1> DEFINE r(i) == Subcommand(f[i - 1].bits, s(i))
<1>9. /\ \A i \in 1 .. N : f[N].out[i] = r(i).out
      /\ f[N].wrote <=> \E i \in 1 .. N : r(i).wrote
  <2>1. N \in 0 .. N
    BY <1>4
  <2>2. Collected(f, query.subs, N)
    <3> HIDE DEF N
    <3>1. \A n \in 0 .. Len(query.subs) : Collected(f, query.subs, n)
      BY <1>4, <1>5, ServedCollects
    <3> QED BY <2>1, <3>1 DEF N
  <2> QED BY <2>2, Zenon DEF Collected
<1> HIDE DEF upto
<1>10. ASSUME NEW i \in 1 .. N
       PROVE  /\ s(i).op = "GET" => upto(i).bits = upto(i - 1).bits /\ said(i) = held(i)
              /\ s(i).op # "GET" => Number(upto(i).bits, s(i)) = owed(i).value /\ said(i) = owed(i).out
              /\ Touches(upto(i - 1).bits, upto(i).bits, s(i))
              /\ r(i).wrote <=> s(i).op # "GET" /\ said(i) # None
  <2>1. i \in 0 .. N /\ i - 1 \in 0 .. N
    BY <1>4
  <2>2. s(i) \in Field
    BY <1>4
  <2>3. upto(i - 1) = f[i - 1] /\ upto(i) = f[i]
    BY <1>6, <2>1
  <2> DEFINE b == f[i - 1].bits
  <2>4. b \in SUBSET Nat
    <3>1. f[i - 1] \in State
      BY <1>8, <2>1
    <3> QED BY <3>1 DEF State
  <2>5. upto(i - 1).bits = b /\ upto(i).bits = r(i).bits
    <3>1. f[i] = Then(f[i - 1], s(i))
      BY <1>8
    <3>2. Then(f[i - 1], s(i)).bits = r(i).bits
      BY DEF Then
    <3> QED BY <2>3, <3>1, <3>2
  <2>6. said(i) = r(i).out
    BY <1>2, <1>5, <1>9
  <2> DEFINE t == s(i)
             x == r(i)
  <2>7. /\ t.op = "GET" => x.bits = b /\ x.out = Number(b, t)
        /\ t.op # "GET" => /\ Number(x.bits, t) = Owed(t, Number(b, t), Target(b, t)).value
                           /\ x.out = Owed(t, Number(b, t), Target(b, t)).out
        /\ Touches(b, x.bits, t)
        /\ x.wrote <=> t.op # "GET" /\ x.out # None
    <3> HIDE DEF b, t
    <3>1. x = Subcommand(b, t)
      BY DEF b, t
    <3> HIDE DEF x
    <3> QED BY <2>2, <2>4, <3>1, SubcommandOwed DEF t
  <2> HIDE DEF r, said, b, s
  <2> QED BY <2>5, <2>6, <2>7
<1>11. reply.result.wrote <=> \E i \in 1 .. N : s(i).op # "GET" /\ said(i) # None
  <2>1. reply.result.wrote <=> \E i \in 1 .. N : r(i).wrote
    BY <1>2, <1>5, <1>9
  <2> HIDE DEF r, s, said
  <2> QED BY <2>1, <1>10
<1>12. DOMAIN query.subs = 1 .. N
  BY <1>4
<1>13. BitfieldExact <=>
         /\ reply.result = upto(N)
         /\ \A i \in DOMAIN query.subs :
              /\ s(i).op = "GET" => upto(i).bits = upto(i - 1).bits /\ said(i) = held(i)
              /\ s(i).op # "GET" => Number(upto(i).bits, s(i)) = owed(i).value /\ said(i) = owed(i).out
              /\ Touches(upto(i - 1).bits, upto(i).bits, s(i))
         /\ reply.result.wrote <=> \E i \in DOMAIN query.subs : s(i).op # "GET" /\ ~(said(i) = None)
  BY Zenon DEF BitfieldExact, Target, Touches, upto
<1> HIDE DEF s, said, held, owed, r
<1> QED BY <1>7, <1>10, <1>11, <1>12, <1>13

(* BITFIELD answers and stores the exact numbers, wrapped, saturated or    *)
(* refused as OVERFLOW asks, for fields of any width at any offset and any *)
(* sequence of subcommands.                                                *)
THEOREM BitfieldIsExact == QuerySpec => []BitfieldExact
BY BitfieldHolds, AskedHolds, AnswerKept, PTL DEF QuerySpec

-----------------------------------------------------------------------------
(* The table of LCS *)

(* A cell of a row, from the row above and the cell v to its left. *)
RowStep(c, b, prev, j, v) ==
    IF c = b[j] THEN prev[j - 1] + 1 ELSE IF prev[j] > v THEN prev[j] ELSE v

(* A row of the table, as _lcs_lengths fills it. *)
IsRow(f, c, b, prev) ==
    /\ f \in [0 .. Len(b) -> Nat] /\ f[0] = 0
    /\ \A j \in 1 .. Len(b) : f[j] = RowStep(c, b, prev, j, f[j - 1])

(* The next row of the table. *)
LEMMA RowFilled ==
  ASSUME NEW ch, NEW b \in Seq(Value), NEW prev \in [0 .. Len(b) -> Nat]
  PROVE  IsRow(LcsRow(ch, b, prev), ch, b, prev)
<1> DEFINE N == Len(b)
           S == Nat
           c == 0
           op(k, v) == RowStep(ch, b, prev, k, v)
           Rec(f) == f = [k \in 0 .. N |-> IF k = 0 THEN c ELSE op(k, f[k - 1])]
           step == [k \in 1 .. N |-> [v \in S |-> op(k, v)]]
           fc == CHOOSE f : Rec(f)
<1>1. N \in Nat
  OBVIOUS
<1>2. \A k \in 1 .. N : \A v \in S : op(k, v) \in S
  <2> TAKE k \in 1 .. N
  <2> TAKE v \in S
  <2>1. k - 1 \in 0 .. Len(b) /\ k \in 0 .. Len(b)
    BY <1>1
  <2>2. prev[k - 1] \in Nat /\ prev[k] \in Nat
    BY <2>1
  <2> QED BY <2>2 DEF RowStep
<1>3. c \in S
  OBVIOUS
<1>4. LcsRow(ch, b, prev) = fc
  BY Zenon DEF LcsRow, RowStep
<1> HIDE DEF N, S, c, op
<1>5. PICK g : Made(g, N, S, c, step)
  <2>1. step \in [1 .. N -> [S -> S]]
    BY <1>2
  <2> HIDE DEF step
  <2> QED BY <2>1, <1>1, <1>3, Recursion
<1>6. g \in [0 .. N -> S] /\ g[0] = c /\ \A m \in 1 .. N : g[m] = op(m, g[m - 1])
  <2>1. g \in [0 .. N -> S] /\ g[0] = c /\ \A m \in 1 .. N : g[m] = step[m][g[m - 1]]
    <3> HIDE DEF step
    <3> QED BY <1>5 DEF Made
  <2>2. \A m \in 1 .. N : g[m - 1] \in S
    <3> TAKE m \in 1 .. N
    <3>1. m - 1 \in 0 .. N
      BY <1>1
    <3> QED BY <3>1, <2>1
  <2> QED BY <2>1, <2>2
<1>7. Rec(fc)
  <2>1. g = [k \in 0 .. N |-> g[k]]
    BY <1>6
  <2>2. \A k \in 0 .. N : g[k] = IF k = 0 THEN c ELSE op(k, g[k - 1])
    <3> TAKE k \in 0 .. N
    <3>1. k # 0 => k \in 1 .. N
      BY <1>1
    <3> QED BY <3>1, <1>6
  <2>3. Rec(g)
    BY <2>1, <2>2, Zenon
  <2> HIDE DEF Rec
  <2> QED BY <2>3
<1> HIDE DEF fc
<1>8. /\ fc = [k \in 0 .. N |-> fc[k]]
      /\ \A k \in 0 .. N : fc[k] = IF k = 0 THEN c ELSE op(k, fc[k - 1])
  BY <1>7, Zenon
<1> HIDE DEF step, Rec
<1>9. fc[0] = c /\ \A m \in 1 .. N : fc[m] = op(m, fc[m - 1])
  <2>1. 0 \in 0 .. N /\ \A m \in 1 .. N : m \in 0 .. N /\ m # 0
    BY <1>1
  <2> QED BY <2>1, <1>8
<1>10. \A k \in 0 .. N : fc[k] = g[k]
  <2>1. fc[0] = g[0]
    BY <1>6, <1>9
  <2>2. \A m \in 1 .. N : fc[m - 1] = g[m - 1] => fc[m] = g[m]
    BY <1>6, <1>9
  <2>3. Alike(fc, g, N)
    BY <2>1, <2>2 DEF Alike
  <2> QED BY <2>3, <1>1, AlikeChain
<1>11. fc \in [0 .. N -> S]
  <2>1. \A k \in 0 .. N : fc[k] \in S
    BY <1>6, <1>10
  <2> QED BY <2>1, <1>8
<1> QED BY <1>4, <1>9, <1>11 DEF IsRow, N, S, c, op

(* The table of _lcs_lengths. *)
IsTable(T, a, b) ==
    /\ T \in [0 .. Len(a) -> [0 .. Len(b) -> Nat]]
    /\ \A i \in 0 .. Len(a), j \in 0 .. Len(b) : i = 0 \/ j = 0 => T[i][j] = 0
    /\ \A i \in 1 .. Len(a), j \in 1 .. Len(b) :
         T[i][j] = IF a[i] = b[j] THEN T[i - 1][j - 1] + 1
                   ELSE IF T[i - 1][j] > T[i][j - 1] THEN T[i - 1][j] ELSE T[i][j - 1]

(* The table is filled as its rows are. *)
LEMMA TableFilled ==
  ASSUME NEW a \in Seq(Value), NEW b \in Seq(Value)
  PROVE  IsTable(LcsTable(a, b), a, b)
<1> DEFINE zero == [j \in 0 .. Len(b) |-> 0]
           N == Len(a)
           S == [0 .. Len(b) -> Nat]
           c == zero
           op(k, v) == LcsRow(a[k], b, v)
           Rec(f) == f = [k \in 0 .. N |-> IF k = 0 THEN c ELSE op(k, f[k - 1])]
           step == [k \in 1 .. N |-> [v \in S |-> op(k, v)]]
           fc == CHOOSE f : Rec(f)
<1>1. N \in Nat
  OBVIOUS
<1>2. \A k \in 1 .. N : \A v \in S : op(k, v) \in S
  <2> TAKE k \in 1 .. N
  <2> TAKE v \in S
  <2>1. IsRow(LcsRow(a[k], b, v), a[k], b, v)
    BY RowFilled
  <2> QED BY <2>1 DEF IsRow
<1>3. c \in S
  OBVIOUS
<1>4. LcsTable(a, b) = fc
  BY Zenon DEF LcsTable
<1> HIDE DEF N, S, c, op
<1>5. PICK g : Made(g, N, S, c, step)
  <2>1. step \in [1 .. N -> [S -> S]]
    BY <1>2
  <2> HIDE DEF step
  <2> QED BY <2>1, <1>1, <1>3, Recursion
<1>6. g \in [0 .. N -> S] /\ g[0] = c /\ \A m \in 1 .. N : g[m] = op(m, g[m - 1])
  <2>1. g \in [0 .. N -> S] /\ g[0] = c /\ \A m \in 1 .. N : g[m] = step[m][g[m - 1]]
    <3> HIDE DEF step
    <3> QED BY <1>5 DEF Made
  <2>2. \A m \in 1 .. N : g[m - 1] \in S
    <3> TAKE m \in 1 .. N
    <3>1. m - 1 \in 0 .. N
      BY <1>1
    <3> QED BY <3>1, <2>1
  <2> QED BY <2>1, <2>2
<1>7. Rec(fc)
  <2>1. g = [k \in 0 .. N |-> g[k]]
    BY <1>6
  <2>2. \A k \in 0 .. N : g[k] = IF k = 0 THEN c ELSE op(k, g[k - 1])
    <3> TAKE k \in 0 .. N
    <3>1. k # 0 => k \in 1 .. N
      BY <1>1
    <3> QED BY <3>1, <1>6
  <2>3. Rec(g)
    BY <2>1, <2>2, Zenon
  <2> HIDE DEF Rec
  <2> QED BY <2>3
<1> HIDE DEF fc
<1>8. /\ fc = [k \in 0 .. N |-> fc[k]]
      /\ \A k \in 0 .. N : fc[k] = IF k = 0 THEN c ELSE op(k, fc[k - 1])
  BY <1>7, Zenon
<1> HIDE DEF step, Rec
<1>9. fc[0] = c /\ \A m \in 1 .. N : fc[m] = op(m, fc[m - 1])
  <2>1. 0 \in 0 .. N /\ \A m \in 1 .. N : m \in 0 .. N /\ m # 0
    BY <1>1
  <2> QED BY <2>1, <1>8
<1>10. \A k \in 0 .. N : fc[k] = g[k]
  <2>1. fc[0] = g[0]
    BY <1>6, <1>9
  <2>2. \A m \in 1 .. N : fc[m - 1] = g[m - 1] => fc[m] = g[m]
    BY <1>6, <1>9
  <2>3. Alike(fc, g, N)
    BY <2>1, <2>2 DEF Alike
  <2> QED BY <2>3, <1>1, AlikeChain
<1>11. fc \in [0 .. N -> S]
  <2>1. \A k \in 0 .. N : fc[k] \in S
    BY <1>6, <1>10
  <2> QED BY <2>1, <1>8
<1>12. Len(b) \in Nat /\ N = Len(a)
  BY DEF N
<1>13. \A j \in 0 .. Len(b) : fc[0][j] = 0
  BY <1>9 DEF c
<1>14. \A i \in 1 .. N : IsRow(fc[i], a[i], b, fc[i - 1])
  <2> TAKE i \in 1 .. N
  <2>1. i - 1 \in 0 .. N
    BY <1>1
  <2>2. fc[i - 1] \in [0 .. Len(b) -> Nat]
    BY <2>1, <1>11 DEF S
  <2>3. fc[i] = LcsRow(a[i], b, fc[i - 1])
    BY <1>9 DEF op
  <2> QED BY <2>2, <2>3, RowFilled
<1>15. \A i \in 0 .. N : fc[i][0] = 0
  <2> TAKE i \in 0 .. N
  <2>1. i = 0 \/ i \in 1 .. N
    BY <1>1
  <2> QED BY <2>1, <1>12, <1>13, <1>14 DEF IsRow
<1>16. \A i \in 1 .. N, j \in 1 .. Len(b) :
         fc[i][j] = IF a[i] = b[j] THEN fc[i - 1][j - 1] + 1
                    ELSE IF fc[i - 1][j] > fc[i][j - 1] THEN fc[i - 1][j] ELSE fc[i][j - 1]
  BY <1>14, Zenon DEF IsRow, RowStep
<1> HIDE DEF N
<1>17. \A i \in 0 .. N, j \in 0 .. Len(b) : i = 0 \/ j = 0 => fc[i][j] = 0
  BY <1>13, <1>15
<1> QED BY <1>4, <1>11, <1>12, <1>16, <1>17 DEF IsTable, S

(* From one row to the next, and along a row, the table grows by at most 1. *)
Slow(T, n, m) ==
    /\ \A i \in 0 .. n, j \in 1 .. m : T[i][j - 1] <= T[i][j] /\ T[i][j] <= T[i][j - 1] + 1
    /\ \A i \in 1 .. n, j \in 0 .. m : T[i - 1][j] <= T[i][j] /\ T[i][j] <= T[i - 1][j] + 1

(* A row, and two rows one below the other, grow by at most one per step. *)
Along(v, m) == \A j \in 1 .. m : v[j - 1] <= v[j] /\ v[j] <= v[j - 1] + 1
Above1(u, v, m) == \A j \in 0 .. m : u[j] <= v[j] /\ v[j] <= u[j] + 1

(* A row keeps both from the row above it. *)
LEMMA RowSlow ==
  ASSUME NEW m \in Nat, NEW u \in [0 .. m -> Nat], NEW v \in [0 .. m -> Nat], NEW same,
         u[0] = 0, v[0] = 0, Along(u, m),
         \A j \in 1 .. m : v[j] = IF j \in same THEN u[j - 1] + 1
                                  ELSE IF u[j] > v[j - 1] THEN u[j] ELSE v[j - 1]
  PROVE  Along(v, m) /\ Above1(u, v, m)
<1> DEFINE G == {k \in Nat : /\ u[k] <= v[k] /\ v[k] <= u[k] + 1
                             /\ k >= 1 => v[k - 1] <= v[k] /\ v[k] <= v[k - 1] + 1}
<1>1. 0 \in G
  OBVIOUS
<1>2. \A n \in 0 .. m - 1 : n \in G => n + 1 \in G
  <2> TAKE n \in 0 .. m - 1
  <2> HAVE n \in G
  <2> DEFINE k == n + 1
             x == u[n]
             y == v[n]
             w == u[k]
             z == v[k]
  <2>1. n \in 0 .. m /\ k \in 1 .. m /\ k \in 0 .. m /\ k - 1 = n /\ k \in Nat /\ k >= 1
    OBVIOUS
  <2>2. x \in Nat /\ y \in Nat /\ w \in Nat /\ z \in Nat
    <3> HIDE DEF k
    <3> QED BY <2>1
  <2>3. x <= y /\ y <= x + 1
    OBVIOUS
  <2>4. x <= w /\ w <= x + 1
    <3> HIDE DEF k
    <3>1. u[k - 1] <= u[k] /\ u[k] <= u[k - 1] + 1
      BY <2>1 DEF Along
    <3> QED BY <2>1, <3>1
  <2>5. z = IF k \in same THEN x + 1 ELSE IF w > y THEN w ELSE y
    <3> HIDE DEF k
    <3>1. v[k] = IF k \in same THEN u[k - 1] + 1 ELSE IF u[k] > v[k - 1] THEN u[k] ELSE v[k - 1]
      BY <2>1
    <3> QED BY <2>1, <3>1
  <2>6. /\ w <= z /\ z <= w + 1 /\ y <= z /\ z <= y + 1
    <3> HIDE DEF x, y, w, z, k
    <3> QED BY <2>2, <2>3, <2>4, <2>5
  <2>7. u[k] <= v[k] /\ v[k] <= u[k] + 1 /\ v[k - 1] <= v[k] /\ v[k] <= v[k - 1] + 1
    BY <2>1, <2>6
  <2> HIDE DEF k
  <2>8. k \in G
    BY <2>1, <2>7
  <2> QED BY <2>8 DEF k
<1>3. 0 .. m \subseteq G
  <2> HIDE DEF G
  <2> QED BY <1>1, <1>2, InductionUpTo
<1>4. \A j \in 1 .. m : j \in 0 .. m /\ j >= 1
  OBVIOUS
<1> QED BY <1>3, <1>4 DEF Along, Above1

(* The table grows by at most one per character of either string. *)
LEMMA TableSlow ==
  ASSUME NEW a \in Seq(Value), NEW b \in Seq(Value), NEW T, IsTable(T, a, b)
  PROVE  Slow(T, Len(a), Len(b))
<1> DEFINE n == Len(a)
           m == Len(b)
           G == {i \in Nat : Along(T[i], m) /\ (i >= 1 => Above1(T[i - 1], T[i], m))}
<1>1. n \in Nat /\ m \in Nat
  OBVIOUS
<1>2. /\ T \in [0 .. n -> [0 .. m -> Nat]]
      /\ \A i \in 0 .. n, j \in 0 .. m : i = 0 \/ j = 0 => T[i][j] = 0
      /\ \A i \in 1 .. n, j \in 1 .. m :
           T[i][j] = IF a[i] = b[j] THEN T[i - 1][j - 1] + 1
                     ELSE IF T[i - 1][j] > T[i][j - 1] THEN T[i - 1][j] ELSE T[i][j - 1]
  BY Zenon DEF IsTable
<1> HIDE DEF n, m
<1>3. 0 \in G
  <2>1. \A j \in 1 .. m : T[0][j] = 0 /\ T[0][j - 1] = 0
    <3> TAKE j \in 1 .. m
    <3>1. j \in 0 .. m /\ j - 1 \in 0 .. m /\ 0 \in 0 .. n
      BY <1>1
    <3> QED BY <3>1, <1>2
  <2> QED BY <2>1 DEF Along
<1>4. \A i \in 0 .. n - 1 : i \in G => i + 1 \in G
  <2> TAKE i \in 0 .. n - 1
  <2> HAVE i \in G
  <2> DEFINE k == i + 1
             u == T[i]
             v == T[k]
             same == {j \in 1 .. m : a[k] = b[j]}
  <2>1. /\ i \in 0 .. n /\ k \in 1 .. n /\ k \in 0 .. n
        /\ k - 1 = i /\ k \in Nat /\ k >= 1 /\ 0 \in 0 .. m
    BY <1>1
  <2>2. u \in [0 .. m -> Nat] /\ v \in [0 .. m -> Nat] /\ u[0] = 0 /\ v[0] = 0
    <3> HIDE DEF k
    <3> QED BY <1>2, <2>1
  <2>3. Along(u, m)
    OBVIOUS
  <2>4. \A j \in 1 .. m : v[j] = IF j \in same THEN u[j - 1] + 1
                                 ELSE IF u[j] > v[j - 1] THEN u[j] ELSE v[j - 1]
    <3> TAKE j \in 1 .. m
    <3>1. T[k][j] = IF a[k] = b[j] THEN T[k - 1][j - 1] + 1
                    ELSE IF T[k - 1][j] > T[k][j - 1] THEN T[k - 1][j] ELSE T[k][j - 1]
      <4> HIDE DEF k
      <4> QED BY <1>2, <2>1
    <3>2. T[k - 1] = u
      BY <2>1
    <3>3. j \in same <=> a[k] = b[j]
      OBVIOUS
    <3> HIDE DEF u, same, k
    <3> QED BY <3>1, <3>2, <3>3
  <2>5. Along(v, m) /\ Above1(u, v, m)
    <3> HIDE DEF u, v, same
    <3> QED BY <1>1, <2>2, <2>3, <2>4, RowSlow
  <2>6. k \in G
    BY <2>1, <2>5
  <2> QED BY <2>6
<1>5. 0 .. n \subseteq G
  <2> HIDE DEF G
  <2> QED BY <1>1, <1>3, <1>4, InductionUpTo
<1>6. \A i \in 0 .. n : Along(T[i], m)
  BY <1>5
<1>7. \A i \in 1 .. n : Above1(T[i - 1], T[i], m)
  <2>1. \A i \in 1 .. n : i \in 0 .. n /\ i >= 1
    BY <1>1
  <2> QED BY <1>5, <2>1
<1> QED BY <1>6, <1>7, Zenon DEF Slow, Along, Above1, n, m

(* The table never shrinks to the right or downwards. *)
LEMMA TableGrows ==
  ASSUME NEW n \in Nat, NEW m \in Nat, NEW T \in [0 .. n -> [0 .. m -> Nat]], Slow(T, n, m),
         NEW i \in 0 .. n, NEW j \in 0 .. m, NEW k \in 0 .. i, NEW l \in 0 .. j
  PROVE  T[k][l] <= T[i][j]
<1>0. \A x \in 0 .. n, y \in 0 .. m : T[x][y] \in Nat
  OBVIOUS
<1>1. T[k][l] <= T[k][j]
  <2> DEFINE G == {d \in Nat : T[k][l] <= T[k][l + d]}
             N == j - l
  <2>0. k \in 0 .. n /\ l \in 0 .. m /\ N \in Nat /\ l + 0 = l /\ l + N = j
    OBVIOUS
  <2>1. 0 \in G
    BY <2>0, <1>0
  <2>2. \A d \in 0 .. N - 1 : d \in G => d + 1 \in G
    <3> TAKE d \in 0 .. N - 1
    <3> HAVE d \in G
    <3> DEFINE y == l + d
               z == l + (d + 1)
    <3>1. y \in 0 .. m /\ z \in 1 .. m /\ z \in 0 .. m /\ z - 1 = y /\ d + 1 \in Nat
      OBVIOUS
    <3>2. T[k][y] <= T[k][z]
      <4>1. T[k][z - 1] <= T[k][z]
        <5> HIDE DEF z
        <5> QED BY <2>0, <3>1 DEF Slow
      <4> QED BY <3>1, <4>1
    <3>3. T[k][l] <= T[k][y]
      OBVIOUS
    <3>4. T[k][l] \in Nat /\ T[k][y] \in Nat /\ T[k][z] \in Nat
      <4> HIDE DEF y, z
      <4> QED BY <1>0, <2>0, <3>1
    <3>5. T[k][l] <= T[k][z]
      <4> HIDE DEF y, z
      <4> DEFINE A == T[k][l]
                 B == T[k][y]
                 C == T[k][z]
      <4> HIDE DEF A, B, C
      <4>1. A \in Nat /\ B \in Nat /\ C \in Nat /\ A <= B /\ B <= C
        BY <3>2, <3>3, <3>4 DEF A, B, C
      <4>2. A <= C
        BY <4>1
      <4> QED BY <4>2 DEF A, C
    <3> QED BY <3>1, <3>5
  <2>3. N \in G
    <3> HIDE DEF G
    <3>1. 0 .. N \subseteq G
      <4> HIDE DEF N
      <4> QED BY <2>0, <2>1, <2>2, InductionUpTo
    <3>2. N \in 0 .. N
      OBVIOUS
    <3> QED BY <3>1, <3>2
  <2> QED BY <2>0, <2>3
<1>2. T[k][j] <= T[i][j]
  <2> DEFINE G == {d \in Nat : T[k][j] <= T[k + d][j]}
             N == i - k
  <2>0. k \in 0 .. n /\ j \in 0 .. m /\ N \in Nat /\ k + 0 = k /\ k + N = i
    OBVIOUS
  <2>1. 0 \in G
    BY <2>0, <1>0
  <2>2. \A d \in 0 .. N - 1 : d \in G => d + 1 \in G
    <3> TAKE d \in 0 .. N - 1
    <3> HAVE d \in G
    <3> DEFINE y == k + d
               z == k + (d + 1)
    <3>1. y \in 0 .. n /\ z \in 1 .. n /\ z \in 0 .. n /\ z - 1 = y /\ d + 1 \in Nat
      OBVIOUS
    <3>2. T[y][j] <= T[z][j]
      <4>1. T[z - 1][j] <= T[z][j]
        <5> HIDE DEF z
        <5> QED BY <2>0, <3>1 DEF Slow
      <4> QED BY <3>1, <4>1
    <3>3. T[k][j] <= T[y][j]
      OBVIOUS
    <3>4. T[k][j] \in Nat /\ T[y][j] \in Nat /\ T[z][j] \in Nat
      <4> HIDE DEF y, z
      <4> QED BY <1>0, <2>0, <3>1
    <3>5. T[k][j] <= T[z][j]
      <4> HIDE DEF y, z
      <4> DEFINE A == T[k][j]
                 B == T[y][j]
                 C == T[z][j]
      <4> HIDE DEF A, B, C
      <4>1. A \in Nat /\ B \in Nat /\ C \in Nat /\ A <= B /\ B <= C
        BY <3>2, <3>3, <3>4 DEF A, B, C
      <4>2. A <= C
        BY <4>1
      <4> QED BY <4>2 DEF A, C
    <3> QED BY <3>1, <3>5
  <2>3. N \in G
    <3> HIDE DEF G
    <3>1. 0 .. N \subseteq G
      <4> HIDE DEF N
      <4> QED BY <2>0, <2>1, <2>2, InductionUpTo
    <3>2. N \in 0 .. N
      OBVIOUS
    <3> QED BY <3>1, <3>2
  <2> QED BY <2>0, <2>3
<1>3. k \in 0 .. n /\ l \in 0 .. m
  OBVIOUS
<1>4. T[k][l] \in Nat /\ T[k][j] \in Nat /\ T[i][j] \in Nat
  BY <1>0, <1>3
<1> DEFINE A == T[k][l]
           B == T[k][j]
           C == T[i][j]
<1> HIDE DEF A, B, C
<1>5. A \in Nat /\ B \in Nat /\ C \in Nat /\ A <= B /\ B <= C
  BY <1>1, <1>2, <1>4 DEF A, B, C
<1>6. A <= C
  BY <1>5
<1> QED BY <1>6 DEF A, C

(* Places of the characters of s in x, from the first. *)
Places(p, s, x) ==
    /\ p \in [0 .. Len(s) -> 0 .. Len(x)] /\ p[0] = 0
    /\ \A k \in 1 .. Len(s) : p[k - 1] < p[k] /\ x[p[k]] = s[k]

(* No common subsequence is longer than the table says. *)
LEMMA TableLongest ==
  ASSUME NEW a \in Seq(Value), NEW b \in Seq(Value), NEW T, IsTable(T, a, b),
         NEW s, Len(s) \in Nat, NEW p, NEW q, Places(p, s, a), Places(q, s, b)
  PROVE  Len(s) <= T[Len(a)][Len(b)]
<1> DEFINE n == Len(a)
           m == Len(b)
           L == Len(s)
           G == {k \in Nat : k <= T[p[k]][q[k]]}
<1>1. n \in Nat /\ m \in Nat /\ L \in Nat
  OBVIOUS
<1>2. /\ T \in [0 .. n -> [0 .. m -> Nat]]
      /\ \A i \in 0 .. n, j \in 0 .. m : i = 0 \/ j = 0 => T[i][j] = 0
      /\ \A i \in 1 .. n, j \in 1 .. m : a[i] = b[j] => T[i][j] = T[i - 1][j - 1] + 1
  BY DEF IsTable
<1>3. Slow(T, n, m)
  BY TableSlow
<1>4. /\ p \in [0 .. L -> 0 .. n] /\ p[0] = 0
      /\ \A k \in 1 .. L : p[k - 1] < p[k] /\ a[p[k]] = s[k]
  BY DEF Places
<1>5. /\ q \in [0 .. L -> 0 .. m] /\ q[0] = 0
      /\ \A k \in 1 .. L : q[k - 1] < q[k] /\ b[q[k]] = s[k]
  BY DEF Places
<1> HIDE DEF n, m, L
<1>0. \A x \in 0 .. n, y \in 0 .. m : T[x][y] \in Nat
  BY <1>2
<1>6. 0 \in G
  <2>1. 0 \in 0 .. n /\ 0 \in 0 .. m
    BY <1>1
  <2>2. T[0][0] = 0
    BY <2>1, <1>2
  <2> QED BY <2>2, <1>4, <1>5
<1>7. \A k \in 0 .. L - 1 : k \in G => k + 1 \in G
  <2> TAKE k \in 0 .. L - 1
  <2> HAVE k \in G
  <2> DEFINE l == k + 1
             i == p[l]
             j == q[l]
             x == p[k]
             y == q[k]
             h == i - 1
             g == j - 1
  <2>1. k \in 0 .. L /\ l \in 1 .. L /\ l \in 0 .. L /\ l - 1 = k /\ l \in Nat
    BY <1>1
  <2>2. i \in 0 .. n /\ j \in 0 .. m /\ x \in 0 .. n /\ y \in 0 .. m
    <3> HIDE DEF l
    <3> QED BY <2>1, <1>4, <1>5
  <2>3. x < i /\ y < j /\ a[i] = b[j]
    <3>1. p[l - 1] < p[l] /\ a[p[l]] = s[l] /\ q[l - 1] < q[l] /\ b[q[l]] = s[l]
      <4> HIDE DEF l
      <4> QED BY <2>1, <1>4, <1>5
    <3> QED BY <3>1, <2>1
  <2> HIDE DEF i, j, x, y
  <2>4. h \in 0 .. n /\ g \in 0 .. m /\ x \in 0 .. h /\ y \in 0 .. g /\ i \in 1 .. n /\ j \in 1 .. m
    BY <1>1, <2>2, <2>3
  <2>5. T[i][j] = T[h][g] + 1
    BY <2>3, <2>4, <1>2
  <2> HIDE DEF h, g
  <2>6. T[x][y] <= T[h][g]
    BY <1>1, <1>2, <1>3, <2>4, TableGrows
  <2>7. k <= T[x][y]
    BY DEF x, y
  <2>8. T[x][y] \in Nat /\ T[h][g] \in Nat
    BY <1>0, <2>2, <2>4
  <2>9. k + 1 <= T[i][j]
    BY <2>1, <2>5, <2>6, <2>7, <2>8
  <2> QED BY <2>1, <2>9 DEF i, j
<1>8. L <= T[p[L]][q[L]]
  <2>1. 0 .. L \subseteq G
    <3> HIDE DEF G
    <3> QED BY <1>1, <1>6, <1>7, InductionUpTo
  <2>2. L \in 0 .. L
    BY <1>1
  <2> QED BY <2>1, <2>2
<1> DEFINE i == p[L]
           j == q[L]
<1>9. i \in 0 .. n /\ j \in 0 .. m /\ n \in 0 .. n /\ m \in 0 .. m
  <2>1. L \in 0 .. L
    BY <1>1
  <2> QED BY <2>1, <1>1, <1>4, <1>5
<1> HIDE DEF i, j
<1>10. T[i][j] <= T[n][m]
  BY <1>1, <1>2, <1>3, <1>9, TableGrows
<1>11. T[i][j] \in Nat /\ T[n][m] \in Nat
  BY <1>0, <1>9
<1>12. L <= T[n][m]
  BY <1>1, <1>8, <1>10, <1>11 DEF i, j
<1> QED BY <1>12 DEF L, n, m

-----------------------------------------------------------------------------
(* The walk back through the table *)

(* Where the walk back stands, and the cells it has collected. *)
Walkers(a, b) == [i : 0 .. Len(a), j : 0 .. Len(b), cells : Seq(Nat \X Nat)]

(* A step of the walk, case by case. *)
LEMMA StepBackIs ==
  ASSUME NEW a \in Seq(Value), NEW b \in Seq(Value), NEW T, NEW w \in Walkers(a, b)
  PROVE  LET z == StepBack(a, b, T, w)
         IN /\ z \in Walkers(a, b)
            /\ w.i = 0 \/ w.j = 0 => z = w
            /\ w.i # 0 /\ w.j # 0 /\ a[w.i] = b[w.j] =>
                 z.i = w.i - 1 /\ z.j = w.j - 1 /\ z.cells = Append(w.cells, <<w.i, w.j>>)
            /\ w.i # 0 /\ w.j # 0 /\ a[w.i] # b[w.j] /\ T[w.i - 1][w.j] > T[w.i][w.j - 1] =>
                 z.i = w.i - 1 /\ z.j = w.j /\ z.cells = w.cells
            /\ w.i # 0 /\ w.j # 0 /\ a[w.i] # b[w.j] /\ ~(T[w.i - 1][w.j] > T[w.i][w.j - 1]) =>
                 z.i = w.i /\ z.j = w.j - 1 /\ z.cells = w.cells
<1> DEFINE n == Len(a)
           m == Len(b)
           z == StepBack(a, b, T, w)
           up == T[w.i - 1][w.j] > T[w.i][w.j - 1]
           S == Nat \X Nat
<1>1. n \in Nat /\ m \in Nat /\ w.i \in 0 .. n /\ w.j \in 0 .. m /\ w.cells \in Seq(S)
      /\ w = [i |-> w.i, j |-> w.j, cells |-> w.cells]
  BY DEF Walkers
<1>2. z = IF w.i = 0 \/ w.j = 0 THEN w
          ELSE IF a[w.i] = b[w.j]
          THEN [i |-> w.i - 1, j |-> w.j - 1, cells |-> Append(w.cells, <<w.i, w.j>>)]
          ELSE IF up THEN [w EXCEPT !.i = @ - 1] ELSE [w EXCEPT !.j = @ - 1]
  BY DEF StepBack
<1>3. Walkers(a, b) = [i : 0 .. n, j : 0 .. m, cells : Seq(S)]
  BY DEF Walkers
<1> HIDE DEF z, up, n, m
<1>4. CASE w.i = 0 \/ w.j = 0
  BY <1>2, <1>4 DEF z
<1>5. CASE w.i # 0 /\ w.j # 0 /\ a[w.i] = b[w.j]
  <2> DEFINE cells == Append(w.cells, <<w.i, w.j>>)
  <2>1. z = [i |-> w.i - 1, j |-> w.j - 1, cells |-> cells]
    BY <1>2, <1>5
  <2>2. <<w.i, w.j>> \in S
    BY <1>1
  <2>3. cells \in Seq(S)
    <3> HIDE DEF S
    <3> QED BY <1>1, <2>2
  <2> HIDE DEF S, cells
  <2>4. w.i - 1 \in 0 .. n /\ w.j - 1 \in 0 .. m
    BY <1>1, <1>5
  <2>5. z \in Walkers(a, b)
    BY <1>3, <2>1, <2>3, <2>4
  <2> QED BY <2>1, <2>5, <1>5 DEF z, cells
<1>6. CASE w.i # 0 /\ w.j # 0 /\ a[w.i] # b[w.j] /\ up
  <2> HIDE DEF S
  <2>1. z = [w EXCEPT !.i = w.i - 1]
    BY <1>2, <1>6
  <2>2. z = [i |-> w.i - 1, j |-> w.j, cells |-> w.cells]
    BY <2>1, <1>1
  <2>3. w.i - 1 \in 0 .. n
    BY <1>1, <1>6
  <2>4. z \in Walkers(a, b)
    BY <1>1, <1>3, <2>2, <2>3
  <2> QED BY <2>2, <2>4, <1>6 DEF z, up
<1>7. CASE w.i # 0 /\ w.j # 0 /\ a[w.i] # b[w.j] /\ ~up
  <2> HIDE DEF S
  <2>1. z = [w EXCEPT !.j = w.j - 1]
    BY <1>2, <1>7
  <2>2. z = [i |-> w.i, j |-> w.j - 1, cells |-> w.cells]
    BY <2>1, <1>1
  <2>3. w.j - 1 \in 0 .. m
    BY <1>1, <1>7
  <2>4. z \in Walkers(a, b)
    BY <1>1, <1>3, <2>2, <2>3
  <2> QED BY <2>2, <2>4, <1>7 DEF z, up
<1> QED BY <1>4, <1>5, <1>6, <1>7

(* The walk back from the last cell of the table. *)
IsWalk(f, a, b) ==
    /\ f \in [0 .. Len(a) + Len(b) -> Walkers(a, b)]
    /\ f[0] = [i |-> Len(a), j |-> Len(b), cells |-> <<>>]
    /\ \A k \in 1 .. Len(a) + Len(b) : f[k] = StepBack(a, b, LcsTable(a, b), f[k - 1])

(* The path back through the table is a walk. *)
LEMMA PathWalked ==
  ASSUME NEW a \in Seq(Value), NEW b \in Seq(Value)
  PROVE  \E f : IsWalk(f, a, b) /\ LcsPath(a, b) = f[Len(a) + Len(b)].cells
<1> DEFINE N == Len(a) + Len(b)
           S == Walkers(a, b)
           c == [i |-> Len(a), j |-> Len(b), cells |-> <<>>]
           op(k, v) == StepBack(a, b, LcsTable(a, b), v)
           Rec(f) == f = [k \in 0 .. N |-> IF k = 0 THEN c ELSE op(k, f[k - 1])]
           step == [k \in 1 .. N |-> [v \in S |-> op(k, v)]]
           fc == CHOOSE f : Rec(f)
<1>1. N \in Nat
  OBVIOUS
<1>2. \A k \in 1 .. N : \A v \in S : op(k, v) \in S
  BY StepBackIs
<1>3. c \in S
  <2>1. Len(a) \in 0 .. Len(a) /\ Len(b) \in 0 .. Len(b) /\ <<>> \in Seq(Nat \X Nat)
    OBVIOUS
  <2> QED BY <2>1 DEF Walkers
<1>4. LcsPath(a, b) = fc[N].cells
  BY Zenon DEF LcsPath
<1> HIDE DEF N, S, c, op
<1>5. PICK g : Made(g, N, S, c, step)
  <2>1. step \in [1 .. N -> [S -> S]]
    BY <1>2
  <2> HIDE DEF step
  <2> QED BY <2>1, <1>1, <1>3, Recursion
<1>6. g \in [0 .. N -> S] /\ g[0] = c /\ \A m \in 1 .. N : g[m] = op(m, g[m - 1])
  <2>1. g \in [0 .. N -> S] /\ g[0] = c /\ \A m \in 1 .. N : g[m] = step[m][g[m - 1]]
    <3> HIDE DEF step
    <3> QED BY <1>5 DEF Made
  <2>2. \A m \in 1 .. N : g[m - 1] \in S
    <3> TAKE m \in 1 .. N
    <3>1. m - 1 \in 0 .. N
      BY <1>1
    <3> QED BY <3>1, <2>1
  <2> QED BY <2>1, <2>2
<1>7. Rec(fc)
  <2>1. g = [k \in 0 .. N |-> g[k]]
    BY <1>6
  <2>2. \A k \in 0 .. N : g[k] = IF k = 0 THEN c ELSE op(k, g[k - 1])
    <3> TAKE k \in 0 .. N
    <3>1. k # 0 => k \in 1 .. N
      BY <1>1
    <3> QED BY <3>1, <1>6
  <2>3. Rec(g)
    BY <2>1, <2>2, Zenon
  <2> HIDE DEF Rec
  <2> QED BY <2>3
<1> HIDE DEF fc
<1>8. /\ fc = [k \in 0 .. N |-> fc[k]]
      /\ \A k \in 0 .. N : fc[k] = IF k = 0 THEN c ELSE op(k, fc[k - 1])
  BY <1>7, Zenon
<1> HIDE DEF step, Rec
<1>9. fc[0] = c /\ \A m \in 1 .. N : fc[m] = op(m, fc[m - 1])
  <2>1. 0 \in 0 .. N /\ \A m \in 1 .. N : m \in 0 .. N /\ m # 0
    BY <1>1
  <2> QED BY <2>1, <1>8
<1>10. \A k \in 0 .. N : fc[k] = g[k]
  <2>1. fc[0] = g[0]
    BY <1>6, <1>9
  <2>2. \A m \in 1 .. N : fc[m - 1] = g[m - 1] => fc[m] = g[m]
    BY <1>6, <1>9
  <2>3. Alike(fc, g, N)
    BY <2>1, <2>2 DEF Alike
  <2> QED BY <2>3, <1>1, AlikeChain
<1>11. fc \in [0 .. N -> S]
  <2>1. \A k \in 0 .. N : fc[k] \in S
    BY <1>6, <1>10
  <2> QED BY <2>1, <1>8
<1>12. IsWalk(fc, a, b)
  BY <1>9, <1>11 DEF IsWalk, N, S, c, op
<1> QED BY <1>4, <1>12 DEF N

(* Cells that pair equal characters, from the last to the first. *)
Matching(cells, a, b) ==
    /\ cells \in Seq(Nat \X Nat)
    /\ \A k \in 1 .. Len(cells) :
         /\ cells[k][1] \in 1 .. Len(a) /\ cells[k][2] \in 1 .. Len(b)
         /\ a[cells[k][1]] = b[cells[k][2]]
    /\ \A k \in 2 .. Len(cells) : cells[k][1] < cells[k - 1][1] /\ cells[k][2] < cells[k - 1][2]

(* What the walk keeps: its cells lie behind it, and with what the table   *)
(* still promises they make the length.                                    *)
Walking(w, a, b, T, k) ==
    /\ w \in Walkers(a, b)
    /\ Matching(w.cells, a, b)
    /\ \A c \in 1 .. Len(w.cells) : w.i < w.cells[c][1] /\ w.j < w.cells[c][2]
    /\ Len(w.cells) + T[w.i][w.j] = T[Len(a)][Len(b)]
    /\ w.i = 0 \/ w.j = 0 \/ w.i + w.j <= Len(a) + Len(b) - k

(* A cell before all others continues them. *)
LEMMA MatchingAppend ==
  ASSUME NEW a \in Seq(Value), NEW b \in Seq(Value), NEW cells, Matching(cells, a, b),
         NEW i \in 1 .. Len(a), NEW j \in 1 .. Len(b), a[i] = b[j],
         \A c \in 1 .. Len(cells) : i < cells[c][1] /\ j < cells[c][2]
  PROVE  LET z == Append(cells, <<i, j>>)
         IN /\ Matching(z, a, b) /\ Len(z) = Len(cells) + 1
            /\ \A c \in 1 .. Len(z) : i - 1 < z[c][1] /\ j - 1 < z[c][2]
<1> DEFINE S == Nat \X Nat
           e == <<i, j>>
           z == Append(cells, e)
           L == Len(cells)
<1>1. /\ cells \in Seq(S)
      /\ \A k \in 1 .. L : /\ cells[k][1] \in 1 .. Len(a) /\ cells[k][2] \in 1 .. Len(b)
                           /\ a[cells[k][1]] = b[cells[k][2]]
      /\ \A k \in 2 .. L : cells[k][1] < cells[k - 1][1] /\ cells[k][2] < cells[k - 1][2]
  BY DEF Matching
<1>2. e \in S /\ e[1] = i /\ e[2] = j /\ Len(a) \in Nat /\ Len(b) \in Nat /\ i \in Nat /\ j \in Nat
  OBVIOUS
<1> HIDE DEF S, e
<1>3. /\ z \in Seq(S) /\ Len(z) = L + 1 /\ L \in Nat
      /\ z[L + 1] = e /\ \A k \in 1 .. L : z[k] = cells[k]
  BY <1>1, <1>2
<1> HIDE DEF z, L
<1>4. \A k \in 1 .. L + 1 : /\ z[k][1] \in 1 .. Len(a) /\ z[k][2] \in 1 .. Len(b)
                            /\ a[z[k][1]] = b[z[k][2]]
                            /\ i - 1 < z[k][1] /\ j - 1 < z[k][2]
  <2> TAKE k \in 1 .. L + 1
  <2>1. CASE k = L + 1
    <3>1. z[k] = e
      BY <2>1, <1>3
    <3> QED BY <3>1, <1>2
  <2>2. CASE k # L + 1
    <3>1. k \in 1 .. L
      BY <2>2, <1>3
    <3>2. z[k] = cells[k]
      BY <3>1, <1>3
    <3> DEFINE x == cells[k][1]
               y == cells[k][2]
    <3>3. x \in 1 .. Len(a) /\ y \in 1 .. Len(b) /\ a[x] = b[y] /\ i < x /\ j < y
      BY <3>1, <1>1 DEF L
    <3>4. z[k][1] = x /\ z[k][2] = y
      BY <3>2
    <3> HIDE DEF x, y
    <3>5. i - 1 < x /\ j - 1 < y
      BY <3>3, <1>2
    <3> QED BY <3>3, <3>4, <3>5
  <2> QED BY <2>1, <2>2
<1>5. \A k \in 2 .. L + 1 : z[k][1] < z[k - 1][1] /\ z[k][2] < z[k - 1][2]
  <2> TAKE k \in 2 .. L + 1
  <2>0. k - 1 \in 1 .. L
    BY <1>3
  <2>1. z[k - 1] = cells[k - 1]
    BY <2>0, <1>3
  <2>2. CASE k = L + 1
    <3>1. z[k] = e
      BY <2>2, <1>3
    <3>2. i < cells[k - 1][1] /\ j < cells[k - 1][2]
      BY <2>0 DEF L
    <3> QED BY <3>1, <3>2, <2>1, <1>2
  <2>3. CASE k # L + 1
    <3>1. k \in 2 .. L /\ k \in 1 .. L
      BY <2>3, <1>3
    <3>2. z[k] = cells[k]
      BY <3>1, <1>3
    <3> QED BY <3>1, <3>2, <2>1, <1>1
  <2> QED BY <2>2, <2>3
<1> QED BY <1>3, <1>4, <1>5 DEF Matching, S, e, z, L

(* A step keeps what the walk keeps. *)
LEMMA WalkKeeps ==
  ASSUME NEW a \in Seq(Value), NEW b \in Seq(Value), NEW T, IsTable(T, a, b), NEW w, NEW k \in Nat,
         Walking(w, a, b, T, k)
  PROVE  Walking(StepBack(a, b, T, w), a, b, T, k + 1)
<1> DEFINE n == Len(a)
           m == Len(b)
           z == StepBack(a, b, T, w)
           i == w.i
           j == w.j
           h == i - 1
           g == j - 1
           cells == w.cells
           all == T[n][m]
           N == n + m
<1>1. /\ w \in Walkers(a, b) /\ Matching(cells, a, b)
      /\ \A c \in 1 .. Len(cells) : i < cells[c][1] /\ j < cells[c][2]
      /\ Len(cells) + T[i][j] = all
      /\ i = 0 \/ j = 0 \/ i + j <= N - k
  BY DEF Walking
<1>2. n \in Nat /\ m \in Nat /\ N \in Nat
  OBVIOUS
<1>3. i \in 0 .. n /\ j \in 0 .. m /\ cells \in Seq(Nat \X Nat)
  BY <1>1 DEF Walkers
<1>4. /\ T \in [0 .. n -> [0 .. m -> Nat]]
      /\ \A x \in 1 .. n, y \in 1 .. m :
           T[x][y] = IF a[x] = b[y] THEN T[x - 1][y - 1] + 1
                     ELSE IF T[x - 1][y] > T[x][y - 1] THEN T[x - 1][y] ELSE T[x][y - 1]
  BY DEF IsTable
<1>5. /\ z \in Walkers(a, b)
      /\ i = 0 \/ j = 0 => z = w
      /\ i # 0 /\ j # 0 /\ a[i] = b[j] => z.i = h /\ z.j = g /\ z.cells = Append(cells, <<i, j>>)
      /\ i # 0 /\ j # 0 /\ a[i] # b[j] /\ T[h][j] > T[i][g] => z.i = h /\ z.j = j /\ z.cells = cells
      /\ i # 0 /\ j # 0 /\ a[i] # b[j] /\ ~(T[h][j] > T[i][g]) => z.i = i /\ z.j = g /\ z.cells = cells
  BY <1>1, StepBackIs
<1>6. Len(cells) \in Nat
  BY <1>3
<1> HIDE DEF z, i, j, cells, all, N
<1>7. CASE i = 0 \/ j = 0
  <2>1. z = w
    BY <1>5, <1>7
  <2> QED BY <2>1, <1>1, <1>7 DEF Walking, z, i, j, cells, all, N
<1>8. CASE i # 0 /\ j # 0
  <2>1. /\ i \in 1 .. n /\ j \in 1 .. m /\ i \in Nat /\ j \in Nat /\ h \in Nat /\ g \in Nat
        /\ h \in 0 .. n /\ g \in 0 .. m
    BY <1>2, <1>3, <1>8
  <2>2. i + j <= N - k
    BY <1>1, <1>8
  <2>3. T[h][g] \in Nat /\ T[h][j] \in Nat /\ T[i][g] \in Nat /\ T[i][j] \in Nat
    <3> HIDE DEF h, g, n, m
    <3> QED BY <2>1, <1>3, <1>4
  <2>4. T[i][j] = IF a[i] = b[j] THEN T[h][g] + 1 ELSE IF T[h][j] > T[i][g] THEN T[h][j] ELSE T[i][g]
    BY <2>1, <1>4
  <2>5. i + j <= N - k => h + j <= N - (k + 1) /\ i + g <= N - (k + 1) /\ h + g <= N - (k + 1)
    BY <2>1, <1>2
  <2>6. \A c \in 1 .. Len(cells) : h < cells[c][1] /\ g < cells[c][2]
    <3> TAKE c \in 1 .. Len(cells)
    <3> DEFINE x == cells[c][1]
               y == cells[c][2]
    <3>1. i < x /\ j < y
      BY <1>1
    <3>2. x \in Nat /\ y \in Nat
      <4>1. x \in 1 .. Len(a) /\ y \in 1 .. Len(b)
        BY <1>1 DEF Matching
      <4> HIDE DEF x, y
      <4> QED BY <4>1
    <3> HIDE DEF x, y
    <3>3. h < x /\ g < y
      BY <2>1, <3>1, <3>2
    <3> QED BY <3>3 DEF x, y
  <2>7. CASE a[i] = b[j]
    <3>1. z.i = h /\ z.j = g /\ z.cells = Append(cells, <<i, j>>)
      BY <1>5, <1>8, <2>7
    <3>2. /\ Matching(z.cells, a, b) /\ Len(z.cells) = Len(cells) + 1
          /\ \A c \in 1 .. Len(z.cells) : h < z.cells[c][1] /\ g < z.cells[c][2]
      <4> DEFINE y == Append(cells, <<i, j>>)
      <4>1. /\ Matching(cells, a, b) /\ i \in 1 .. Len(a) /\ j \in 1 .. Len(b) /\ a[i] = b[j]
            /\ \A c \in 1 .. Len(cells) : i < cells[c][1] /\ j < cells[c][2]
        BY <1>1, <2>1, <2>7
      <4>2. /\ Matching(y, a, b) /\ Len(y) = Len(cells) + 1
            /\ \A c \in 1 .. Len(y) : i - 1 < y[c][1] /\ j - 1 < y[c][2]
        BY <4>1, MatchingAppend, Zenon
      <4> HIDE DEF y
      <4>3. z.cells = y
        BY <3>1 DEF y
      <4> QED BY <4>2, <4>3, Zenon
    <3>3. Len(z.cells) + T[h][g] = all
      <4> DEFINE u == T[h][g]
                 v == T[i][j]
                 l == Len(cells)
      <4>1. u \in Nat /\ v = u + 1 /\ l \in Nat /\ l + v = all
        BY <1>1, <1>6, <2>3, <2>4, <2>7
      <4> HIDE DEF u, v, l
      <4>2. (l + 1) + u = all
        BY <4>1
      <4> QED BY <4>2, <3>2 DEF u, l
    <3>4. h + g <= n + m - (k + 1) /\ z \in Walkers(a, b)
      <4>1. h + g <= N - (k + 1)
        BY <2>2, <2>5
      <4> HIDE DEF n, m, h, g
      <4> QED BY <1>2, <1>5, <4>1 DEF N
    <3>5. /\ z \in Walkers(a, b) /\ Matching(z.cells, a, b)
          /\ \A c \in 1 .. Len(z.cells) : z.i < z.cells[c][1] /\ z.j < z.cells[c][2]
          /\ Len(z.cells) + T[z.i][z.j] = T[Len(a)][Len(b)]
          /\ z.i + z.j <= Len(a) + Len(b) - (k + 1)
      BY <3>1, <3>2, <3>3, <3>4, Zenon DEF all, n, m
    <3>6. Walking(z, a, b, T, k + 1)
      BY <3>5, Zenon DEF Walking
    <3> QED BY <3>6, Zenon DEF z
  <2>8. CASE a[i] # b[j] /\ T[h][j] > T[i][g]
    <3>1. z.i = h /\ z.j = j /\ z.cells = cells
      BY <1>5, <1>8, <2>8
    <3>2. Len(cells) + T[h][j] = all
      BY <2>4, <2>8, <1>1
    <3>3. \A c \in 1 .. Len(cells) : h < cells[c][1] /\ j < cells[c][2]
      BY <1>1, <2>6
    <3>4. h + j <= n + m - (k + 1) /\ z \in Walkers(a, b)
      <4>1. h + j <= N - (k + 1)
        BY <2>2, <2>5
      <4> HIDE DEF n, m, h, g
      <4> QED BY <1>2, <1>5, <4>1 DEF N
    <3>5. /\ z \in Walkers(a, b) /\ Matching(z.cells, a, b)
          /\ \A c \in 1 .. Len(z.cells) : z.i < z.cells[c][1] /\ z.j < z.cells[c][2]
          /\ Len(z.cells) + T[z.i][z.j] = T[Len(a)][Len(b)]
          /\ z.i + z.j <= Len(a) + Len(b) - (k + 1)
      BY <1>1, <3>1, <3>2, <3>3, <3>4, Zenon DEF all, n, m
    <3>6. Walking(z, a, b, T, k + 1)
      BY <3>5, Zenon DEF Walking
    <3> QED BY <3>6, Zenon DEF z
  <2>9. CASE a[i] # b[j] /\ ~(T[h][j] > T[i][g])
    <3>1. z.i = i /\ z.j = g /\ z.cells = cells
      BY <1>5, <1>8, <2>9
    <3>2. Len(cells) + T[i][g] = all
      BY <2>4, <2>9, <1>1
    <3>3. \A c \in 1 .. Len(cells) : i < cells[c][1] /\ g < cells[c][2]
      BY <1>1, <2>6
    <3>4. i + g <= n + m - (k + 1) /\ z \in Walkers(a, b)
      <4>1. i + g <= N - (k + 1)
        BY <2>2, <2>5
      <4> HIDE DEF n, m, h, g
      <4> QED BY <1>2, <1>5, <4>1 DEF N
    <3>5. /\ z \in Walkers(a, b) /\ Matching(z.cells, a, b)
          /\ \A c \in 1 .. Len(z.cells) : z.i < z.cells[c][1] /\ z.j < z.cells[c][2]
          /\ Len(z.cells) + T[z.i][z.j] = T[Len(a)][Len(b)]
          /\ z.i + z.j <= Len(a) + Len(b) - (k + 1)
      BY <1>1, <3>1, <3>2, <3>3, <3>4, Zenon DEF all, n, m
    <3>6. Walking(z, a, b, T, k + 1)
      BY <3>5, Zenon DEF Walking
    <3> QED BY <3>6, Zenon DEF z
  <2> QED BY <2>7, <2>8, <2>9
<1> QED BY <1>7, <1>8

(* The path pairs as many characters as the table says. *)
LEMMA PathMatches ==
  ASSUME NEW a \in Seq(Value), NEW b \in Seq(Value)
  PROVE  /\ Matching(LcsPath(a, b), a, b)
         /\ Len(LcsPath(a, b)) = LcsTable(a, b)[Len(a)][Len(b)]
<1> DEFINE n == Len(a)
           m == Len(b)
           N == n + m
           T == LcsTable(a, b)
<1>1. n \in Nat /\ m \in Nat /\ N \in Nat /\ n \in 0 .. n /\ m \in 0 .. m
  OBVIOUS
<1>2. IsTable(T, a, b)
  BY TableFilled
<1>3. PICK f : IsWalk(f, a, b) /\ LcsPath(a, b) = f[N].cells
  BY PathWalked
<1>4. /\ f \in [0 .. N -> Walkers(a, b)] /\ f[0] = [i |-> n, j |-> m, cells |-> <<>>]
      /\ \A k \in 1 .. N : f[k] = StepBack(a, b, T, f[k - 1])
  BY <1>3 DEF IsWalk
<1>5. /\ T \in [0 .. n -> [0 .. m -> Nat]]
      /\ \A x \in 0 .. n, y \in 0 .. m : x = 0 \/ y = 0 => T[x][y] = 0
  BY <1>2 DEF IsTable
<1> HIDE DEF T
<1> DEFINE G == {k \in Nat : Walking(f[k], a, b, T, k)}
<1>6. 0 \in G
  <2> DEFINE w == f[0]
  <2>1. w.i = n /\ w.j = m /\ w.cells = <<>> /\ w \in Walkers(a, b)
    BY <1>1, <1>4
  <2> HIDE DEF w
  <2>2. Len(w.cells) = 0 /\ <<>> \in Seq(Nat \X Nat)
    BY <2>1
  <2>3. Matching(w.cells, a, b)
    BY <2>1, <2>2 DEF Matching
  <2>4. T[n][m] \in Nat
    <3> HIDE DEF n, m
    <3> QED BY <1>1, <1>5
  <2>5. 0 + T[n][m] = T[n][m]
    BY <2>4
  <2>6. n + m <= n + m - 0
    OBVIOUS
  <2>7. \A c \in 1 .. Len(w.cells) : w.i < w.cells[c][1] /\ w.j < w.cells[c][2]
    BY <2>2
  <2>8. Walking(w, a, b, T, 0)
    BY <2>1, <2>2, <2>3, <2>5, <2>6, <2>7 DEF Walking
  <2> QED BY <2>8 DEF w
<1>7. \A k \in 0 .. N - 1 : k \in G => k + 1 \in G
  <2> TAKE k \in 0 .. N - 1
  <2> HAVE k \in G
  <2> DEFINE l == k + 1
  <2>1. k \in Nat /\ l \in Nat /\ l \in 1 .. N /\ l - 1 = k
    BY <1>1
  <2>2. f[l] = StepBack(a, b, T, f[k])
    <3>1. f[l] = StepBack(a, b, T, f[l - 1])
      <4> HIDE DEF l, N
      <4> QED BY <1>4, <2>1
    <3> QED BY <3>1, <2>1
  <2>3. Walking(f[k], a, b, T, k)
    OBVIOUS
  <2>4. Walking(f[l], a, b, T, l)
    BY <1>2, <2>1, <2>2, <2>3, WalkKeeps
  <2> HIDE DEF l
  <2>5. l \in G
    BY <2>1, <2>4
  <2> QED BY <2>5 DEF l
<1>8. Walking(f[N], a, b, T, N)
  <2>1. 0 .. N \subseteq G
    <3> HIDE DEF G, N
    <3> QED BY <1>1, <1>6, <1>7, InductionUpTo
  <2>2. N \in 0 .. N
    BY <1>1
  <2> QED BY <2>1, <2>2
<1> DEFINE w == f[N]
           i == w.i
           j == w.j
<1>9. /\ w \in Walkers(a, b) /\ Matching(w.cells, a, b)
      /\ Len(w.cells) + T[i][j] = T[n][m]
      /\ i = 0 \/ j = 0 \/ i + j <= N - N
  BY <1>8 DEF Walking
<1> HIDE DEF w
<1>10. i \in 0 .. n /\ j \in 0 .. m /\ w.cells \in Seq(Nat \X Nat)
  BY <1>9 DEF Walkers
<1>11. i = 0 \/ j = 0
  <2> HIDE DEF i, j
  <2> QED BY <1>1, <1>9, <1>10
<1>12. T[i][j] = 0
  <2> HIDE DEF i, j
  <2> QED BY <1>5, <1>10, <1>11
<1>13. Len(w.cells) \in Nat
  BY <1>10
<1>14. Len(w.cells) = T[n][m]
  <2> DEFINE l == Len(w.cells)
  <2> HIDE DEF l, i, j
  <2>1. l \in Nat /\ l + 0 = T[n][m]
    BY <1>9, <1>12, <1>13 DEF l, i, j
  <2> QED BY <2>1 DEF l
<1>15. LcsPath(a, b) = w.cells
  BY <1>3 DEF w
<1> QED BY <1>9, <1>14, <1>15 DEF T

-----------------------------------------------------------------------------
(* Common subsequences *)

(* Later characters have later places. *)
LEMMA PlacesRise ==
  ASSUME NEW s, Len(s) \in Nat, NEW x, Len(x) \in Nat, NEW p, Places(p, s, x),
         NEW k \in 0 .. Len(s), NEW j \in 0 .. k
  PROVE  p[j] <= p[k] /\ (j < k => p[j] < p[k])
<1> DEFINE L == Len(s)
           n == Len(x)
           N == k - j
           G == {d \in Nat : p[j] <= p[j + d] /\ (d >= 1 => p[j] < p[j + d])}
<1>1. /\ p \in [0 .. L -> 0 .. n] /\ \A m \in 1 .. L : p[m - 1] < p[m]
      /\ L \in Nat /\ n \in Nat /\ j \in 0 .. L /\ N \in Nat
  BY DEF Places
<1>2. \A m \in 0 .. L : p[m] \in Nat
  BY <1>1
<1> HIDE DEF L, n
<1>3. 0 \in G
  <2>1. j + 0 = j
    OBVIOUS
  <2> QED BY <2>1, <1>1, <1>2
<1>4. \A d \in 0 .. N - 1 : d \in G => d + 1 \in G
  <2> TAKE d \in 0 .. N - 1
  <2> HAVE d \in G
  <2> DEFINE y == j + d
             z == j + (d + 1)
  <2>1. y \in 0 .. L /\ z \in 1 .. L /\ z \in 0 .. L /\ z - 1 = y /\ d + 1 \in Nat
    BY <1>1 DEF L
  <2>2. p[y] < p[z]
    <3>1. p[z - 1] < p[z]
      <4> HIDE DEF z
      <4> QED BY <1>1, <2>1
    <3> QED BY <2>1, <3>1
  <2>3. p[j] <= p[y]
    OBVIOUS
  <2>4. p[j] \in Nat /\ p[y] \in Nat /\ p[z] \in Nat
    <3> HIDE DEF y, z
    <3> QED BY <1>1, <1>2, <2>1
  <2>5. p[j] < p[z]
    <3> HIDE DEF y, z
    <3> QED BY <2>2, <2>3, <2>4
  <2>6. p[j] <= p[z]
    <3> HIDE DEF y, z
    <3> QED BY <2>4, <2>5
  <2> QED BY <2>1, <2>5, <2>6
<1>5. N \in G
  <2>1. 0 .. N \subseteq G
    <3> HIDE DEF G, N
    <3> QED BY <1>1, <1>3, <1>4, InductionUpTo
  <2>2. N \in 0 .. N
    BY <1>1
  <2> HIDE DEF G, N
  <2> QED BY <2>1, <2>2
<1>6. j + N = k /\ (j < k => N >= 1)
  BY <1>1
<1> QED BY <1>5, <1>6

(* What has places in order is picked out by them. *)
LEMMA PlacesPick ==
  ASSUME NEW s \in Seq(Value), NEW x \in Seq(Value), NEW p, Places(p, s, x)
  PROVE  s \in Subsequences(x)
<1> DEFINE L == Len(s)
           n == Len(x)
           P == {p[k] : k \in 1 .. L}
           G == {k \in Nat : Count(P, p[k]) = k}
<1>1. /\ p \in [0 .. L -> 0 .. n] /\ p[0] = 0 /\ L \in Nat /\ n \in Nat
      /\ \A m \in 1 .. L : p[m - 1] < p[m] /\ x[p[m]] = s[m]
  BY DEF Places
<1>2. \A k \in 0 .. L, j \in 0 .. L : j < k => p[j] < p[k]
  <2> SUFFICES ASSUME NEW k \in 0 .. L, NEW j \in 0 .. L, j < k PROVE p[j] < p[k]
    OBVIOUS
  <2>1. j \in 0 .. k
    BY <1>1
  <2> QED BY <2>1, <1>1, PlacesRise
<1> HIDE DEF L, n
<1>3. \A k \in 0 .. L : p[k] \in Nat
  BY <1>1
<1>4. \A k \in 1 .. L : p[k] \in 1 .. n /\ p[k] \in P
  <2> TAKE k \in 1 .. L
  <2>1. 0 \in 0 .. L /\ k \in 0 .. L /\ 0 < k
    BY <1>1
  <2>2. 0 < p[k] /\ p[k] \in 0 .. n
    BY <2>1, <1>1, <1>2
  <2> QED BY <2>2, <1>1
<1>5. \A y \in P : \E k \in 1 .. L : y = p[k]
  OBVIOUS
<1> HIDE DEF P
<1>6. 0 \in G
  BY <1>1, CountFacts
<1>7. \A k \in 0 .. L - 1 : k \in G => k + 1 \in G
  <2> TAKE k \in 0 .. L - 1
  <2> HAVE k \in G
  <2> DEFINE l == k + 1
             u == p[k]
             v == p[l]
             t == v - 1
  <2>1. k \in 0 .. L /\ l \in 1 .. L /\ l \in 0 .. L /\ k < l /\ l \in Nat
    BY <1>1
  <2>2. u \in Nat /\ v \in Nat /\ u < v /\ v \in P /\ t \in Nat /\ u <= t /\ t + 1 = v
    <3>1. u \in Nat /\ v \in Nat /\ u < v /\ v \in P
      <4> HIDE DEF l
      <4> QED BY <2>1, <1>2, <1>3, <1>4
    <3> HIDE DEF u, v
    <3> QED BY <3>1
  <2>3. P \cap (1 .. t) = P \cap (1 .. u)
    <3> SUFFICES ASSUME NEW y \in P, y \in 1 .. t PROVE y \in 1 .. u
      <4> HIDE DEF t, u
      <4>1. 1 .. u \subseteq 1 .. t
        BY <2>2
      <4> QED BY <4>1
    <3>1. PICK j \in 1 .. L : y = p[j]
      BY <1>5
    <3>2. j \in 0 .. L /\ j \in Nat
      BY <1>1
    <3>3. ~(l < j) /\ j # l
      <4>1. l < j => v < y
        <5> HIDE DEF l
        <5> QED BY <1>2, <2>1, <3>1, <3>2
      <4>2. j = l => y = v
        BY <3>1
      <4> HIDE DEF v, l
      <4> QED BY <4>1, <4>2, <2>2
    <3>4. j = k \/ j < k
      BY <2>1, <3>2, <3>3
    <3>5. y <= u
      <4>1. j < k => y < u
        BY <1>2, <2>1, <3>1, <3>2
      <4>2. j = k => y = u
        BY <3>1
      <4> HIDE DEF u
      <4> QED BY <4>1, <4>2, <3>4, <2>2
    <3> HIDE DEF u, t
    <3> QED BY <3>5, <2>2
  <2>4. Count(P, t) = k
    <3>1. Count(P, t) = Count(P, u)
      <4> HIDE DEF t, u
      <4> QED BY <2>3 DEF Count
    <3> QED BY <3>1
  <2>5. Count(P, v) = l
    <3>1. t + 1 \in P
      <4> HIDE DEF t, v
      <4> QED BY <2>2
    <3>2. Count(P, t + 1) = Count(P, t) + 1
      <4> HIDE DEF t
      <4> QED BY <2>2, <3>1, CountFacts
    <3> HIDE DEF v, t
    <3> QED BY <2>2, <2>4, <3>2
  <2> QED BY <2>1, <2>5
<1>8. \A k \in 0 .. L : Count(P, p[k]) = k
  <2>1. 0 .. L \subseteq G
    <3> HIDE DEF G
    <3> QED BY <1>1, <1>6, <1>7, InductionUpTo
  <2> QED BY <2>1
<1> DEFINE top == p[L]
<1>9. Count(P, n) = L
  <2>1. L \in 0 .. L
    BY <1>1
  <2>2. top \in 0 .. n
    BY <2>1, <1>1
  <2>3. \A y \in P : y \in 1 .. top
    <3> TAKE y \in P
    <3>1. PICK j \in 1 .. L : y = p[j]
      BY <1>5
    <3>2. j \in 0 .. L /\ (j = L \/ j < L)
      BY <1>1
    <3>3. y \in 1 .. n /\ (y = top \/ y < top)
      BY <2>1, <3>1, <3>2, <1>2, <1>4
    <3> HIDE DEF top
    <3> QED BY <3>3, <2>2, <1>1
  <2> HIDE DEF top
  <2>4. 1 .. top \subseteq 1 .. n
    BY <2>2, <1>1
  <2>5. P \cap (1 .. n) = P \cap (1 .. top)
    BY <2>3, <2>4
  <2>6. Count(P, n) = Count(P, top)
    BY <2>5 DEF Count
  <2> QED BY <2>1, <2>6, <1>8 DEF top
<1>10. \A y \in P \cap (1 .. n) : s[Count(P, y)] = x[y]
  <2> TAKE y \in P \cap (1 .. n)
  <2>1. PICK j \in 1 .. L : y = p[j]
    BY <1>5
  <2>2. j \in 0 .. L
    BY <1>1
  <2> QED BY <2>1, <2>2, <1>1, <1>8
<1>11. s = Picked(x, P)
  BY <1>9, <1>10, PickedUnique DEF L, n
<1>12. P \in SUBSET DOMAIN x
  <2>1. \A y \in P : y \in 1 .. n
    BY <1>4, <1>5
  <2>2. DOMAIN x = 1 .. n
    BY DEF n
  <2> QED BY <2>1, <2>2
<1> QED BY <1>11, <1>12 DEF Subsequences

(* What is picked out has places in order. *)
LEMMA PickedPlaces ==
  ASSUME NEW x \in Seq(Value), NEW s \in Subsequences(x)
  PROVE  s \in Seq(Value) /\ \E p : Places(p, s, x)
<1>1. PICK P \in SUBSET DOMAIN x : s = Picked(x, P)
  BY DEF Subsequences
<1> DEFINE n == Len(x)
           L == Len(s)
           at(k) == CHOOSE i \in P \cap (1 .. n) : Count(P, i) = k
           p == [k \in 0 .. L |-> IF k = 0 THEN 0 ELSE at(k)]
<1>2. /\ s \in Seq(Value) /\ L = Count(P, n) /\ L \in Nat /\ n \in Nat
      /\ \A i \in P \cap (1 .. n) : s[Count(P, i)] = x[i]
  BY <1>1, PickedFacts
<1> HIDE DEF n, L
<1>3. \A k \in 1 .. L : at(k) \in P \cap (1 .. n) /\ Count(P, at(k)) = k
  <2> TAKE k \in 1 .. L
  <2>1. k \in 1 .. Count(P, n)
    BY <1>2
  <2>2. \E i \in P \cap (1 .. n) : Count(P, i) = k
    BY <2>1, <1>2, CountOnto
  <2> QED BY <2>2
<1> HIDE DEF at
<1>4. \A k \in 1 .. L : k \in 0 .. L /\ k # 0 /\ k - 1 \in 0 .. L /\ (k - 1 = 0 \/ k - 1 \in 1 .. L)
  BY <1>2
<1>5. \A k \in 1 .. L : p[k] = at(k)
  BY <1>4
<1>6. p[0] = 0
  BY <1>2
<1>7. p \in [0 .. L -> 0 .. n]
  <2>1. \A k \in 0 .. L : (IF k = 0 THEN 0 ELSE at(k)) \in 0 .. n
    <3> TAKE k \in 0 .. L
    <3>1. k = 0 \/ k \in 1 .. L
      BY <1>2
    <3> QED BY <3>1, <1>2, <1>3
  <2> QED BY <2>1
<1>8. \A k \in 1 .. L : x[p[k]] = s[k]
  BY <1>2, <1>3, <1>5
<1>9. \A k \in 1 .. L : p[k - 1] < p[k]
  <2> TAKE k \in 1 .. L
  <2> DEFINE u == p[k - 1]
             v == p[k]
  <2>1. v \in P \cap (1 .. n) /\ Count(P, v) = k /\ v \in Nat /\ v >= 1
    <3> HIDE DEF p
    <3> QED BY <1>2, <1>3, <1>5
  <2>2. CASE k - 1 = 0
    <3>1. u = 0
      BY <1>6, <2>2
    <3> HIDE DEF u, v
    <3> QED BY <2>1, <3>1 DEF u, v
  <2>3. CASE k - 1 \in 1 .. L
    <3>1. u \in P \cap (1 .. n) /\ Count(P, u) = k - 1 /\ u \in Nat
      <4> DEFINE l == k - 1
      <4>1. l \in 1 .. L
        BY <2>3
      <4>2. p[l] \in P \cap (1 .. n) /\ Count(P, p[l]) = l /\ p[l] \in Nat
        <5> HIDE DEF p, l
        <5> QED BY <4>1, <1>2, <1>3, <1>5
      <4> QED BY <4>2
    <3> HIDE DEF u, v
    <3>2. ~(v <= u)
      <4> SUFFICES ASSUME v <= u PROVE FALSE
        OBVIOUS
      <4>1. v \in 0 .. u
        BY <2>1, <3>1
      <4>2. Count(P, v) <= Count(P, u)
        BY <3>1, <4>1, CountGrows
      <4> QED BY <2>1, <3>1, <4>2, <1>4, <1>2
    <3> QED BY <3>1, <3>2, <2>1 DEF u, v
  <2> QED BY <2>2, <2>3, <1>4
<1>10. Places(p, s, x)
  <2> HIDE DEF p
  <2> QED BY <1>6, <1>7, <1>8, <1>9 DEF Places, L, n
<1> QED BY <1>2, <1>10

-----------------------------------------------------------------------------
(* The characters of a at the cells, from the first. *)
Text(a, cells) == [i \in 1 .. Len(cells) |-> a[cells[Len(cells) + 1 - i][1]]]

(* The text of matching cells is a common subsequence. *)
LEMMA TextCommon ==
  ASSUME NEW a \in Seq(Value), NEW b \in Seq(Value), NEW cells, Matching(cells, a, b)
  PROVE  /\ Text(a, cells) \in Seq(Value) /\ Len(Text(a, cells)) = Len(cells)
         /\ Text(a, cells) \in Subsequences(a) \cap Subsequences(b)
<1> DEFINE K == Len(cells)
           t == Text(a, cells)
           p == [i \in 0 .. K |-> IF i = 0 THEN 0 ELSE cells[K + 1 - i][1]]
           q == [i \in 0 .. K |-> IF i = 0 THEN 0 ELSE cells[K + 1 - i][2]]
<1>1. /\ cells \in Seq(Nat \X Nat) /\ K \in Nat
      /\ \A k \in 1 .. K : /\ cells[k][1] \in 1 .. Len(a) /\ cells[k][2] \in 1 .. Len(b)
                           /\ a[cells[k][1]] = b[cells[k][2]]
      /\ \A k \in 2 .. K : cells[k][1] < cells[k - 1][1] /\ cells[k][2] < cells[k - 1][2]
  BY DEF Matching
<1>2. t = [i \in 1 .. K |-> a[cells[K + 1 - i][1]]]
  BY DEF Text
<1> HIDE DEF K, t
<1>3. \A i \in 1 .. K : K + 1 - i \in 1 .. K /\ i \in 0 .. K /\ i # 0
  BY <1>1
<1>4. \A i \in 1 .. K : t[i] = a[cells[K + 1 - i][1]] /\ t[i] = b[cells[K + 1 - i][2]]
  BY <1>1, <1>2, <1>3
<1>5. t \in Seq(Value) /\ Len(t) = K
  <2>0. \A x \in 1 .. Len(a) : a[x] \in Value
    OBVIOUS
  <2>1. \A i \in 1 .. K : a[cells[K + 1 - i][1]] \in Value
    <3> TAKE i \in 1 .. K
    <3>1. cells[K + 1 - i][1] \in 1 .. Len(a)
      BY <1>1, <1>3
    <3> QED BY <2>0, <3>1
  <2>2. t \in [1 .. K -> Value]
    BY <1>2, <2>1
  <2>3. K \in Nat
    BY <1>1
  <2> QED BY <2>2, <2>3
<1>6. \A i \in 1 .. K : p[i] = cells[K + 1 - i][1] /\ q[i] = cells[K + 1 - i][2]
  BY <1>3
<1>7. p[0] = 0 /\ q[0] = 0
  BY <1>1
<1>8. p \in [0 .. K -> 0 .. Len(a)] /\ q \in [0 .. K -> 0 .. Len(b)]
  <2>1. \A i \in 0 .. K : p[i] \in 0 .. Len(a) /\ q[i] \in 0 .. Len(b)
    <3> TAKE i \in 0 .. K
    <3>1. CASE i = 0
      BY <3>1, <1>7
    <3>2. CASE i # 0
      <4>1. i \in 1 .. K
        BY <3>2, <1>1
      <4>2. cells[K + 1 - i][1] \in 1 .. Len(a) /\ cells[K + 1 - i][2] \in 1 .. Len(b)
        BY <4>1, <1>1, <1>3
      <4>3. p[i] \in 1 .. Len(a) /\ q[i] \in 1 .. Len(b)
        <5> HIDE DEF p, q
        <5> QED BY <4>1, <4>2, <1>6
      <4> HIDE DEF p, q
      <4> QED BY <4>3
    <3> QED BY <3>1, <3>2
  <2> QED BY <2>1
<1>9. \A i \in 1 .. K : p[i - 1] < p[i] /\ q[i - 1] < q[i]
  <2> TAKE i \in 1 .. K
  <2> DEFINE h == i - 1
             k == K + 1 - h
  <2>1. K + 1 - i \in 1 .. K /\ K + 1 - i = k - 1
    BY <1>1
  <2>2. cells[K + 1 - i][1] \in 1 .. Len(a) /\ cells[K + 1 - i][2] \in 1 .. Len(b)
    BY <2>1, <1>1
  <2>3. CASE h = 0
    <3> HIDE DEF p, q
    <3> QED BY <2>2, <2>3, <1>6, <1>7
  <2>4. CASE h # 0
    <3>1. h \in 1 .. K /\ k \in 2 .. K
      BY <2>4, <1>1
    <3>2. cells[k][1] < cells[k - 1][1] /\ cells[k][2] < cells[k - 1][2]
      <4> HIDE DEF k
      <4> QED BY <3>1, <1>1
    <3>3. p[h] = cells[k][1] /\ q[h] = cells[k][2]
      <4> HIDE DEF p, q, h
      <4> QED BY <3>1, <1>6
    <3>4. p[i] = cells[k - 1][1] /\ q[i] = cells[k - 1][2]
      <4>1. p[i] = cells[K + 1 - i][1] /\ q[i] = cells[K + 1 - i][2]
        BY <1>6
      <4> HIDE DEF p, q, k
      <4> QED BY <4>1, <2>1
    <3> HIDE DEF p, q, k
    <3> QED BY <3>2, <3>3, <3>4
  <2> QED BY <2>3, <2>4
<1> HIDE DEF p, q
<1>10. Places(p, t, a) /\ Places(q, t, b)
  BY <1>4, <1>5, <1>6, <1>7, <1>8, <1>9 DEF Places
<1>11. t \in Subsequences(a) /\ t \in Subsequences(b)
  BY <1>5, <1>10, PlacesPick
<1> QED BY <1>5, <1>11 DEF t, K

(* front is s without its last element. *)
IsFront(front, s, e) ==
    /\ Len(front) = Len(s) - 1 /\ s = Append(front, s[Len(s)])
    /\ [s EXCEPT ![Len(s)] = e] = Append(front, e)
    /\ \A i \in 1 .. Len(s) - 1 : front[i] = s[i]

(* A sequence is its front and its last element, also when that changes. *)
LEMMA FrontLast ==
  ASSUME NEW S, NEW s \in Seq(S), s # <<>>, NEW e \in S
  PROVE  \E front \in Seq(S) : IsFront(front, s, e)
<1> DEFINE n == Len(s)
           front == [i \in 1 .. n - 1 |-> s[i]]
           z == [s EXCEPT ![n] = e]
<1>1. n \in Nat /\ n >= 1 /\ s \in [1 .. n -> S]
  <2>1. n \in Nat /\ s \in [1 .. n -> S]
    OBVIOUS
  <2>2. n # 0
    OBVIOUS
  <2> QED BY <2>1, <2>2
<1> HIDE DEF n
<1>2. front \in [1 .. n - 1 -> S]
  <2>1. \A i \in 1 .. n - 1 : s[i] \in S
    BY <1>1
  <2> QED BY <2>1
<1>3. front \in Seq(S) /\ Len(front) = n - 1
  <2>1. n - 1 \in Nat
    BY <1>1
  <2> HIDE DEF front
  <2> QED BY <2>1, <1>2
<1>4. \A i \in 1 .. n - 1 : front[i] = s[i]
  OBVIOUS
<1>5. s[n] \in S
  BY <1>1
<1> HIDE DEF front
<1>6. \A v \in S : /\ Append(front, v) \in [1 .. n -> S]
                   /\ \A i \in 1 .. n : Append(front, v)[i] = IF i = n THEN v ELSE s[i]
  <2> TAKE v \in S
  <2> DEFINE y == Append(front, v)
  <2>1. /\ y \in Seq(S) /\ Len(y) = (n - 1) + 1 /\ y[(n - 1) + 1] = v
        /\ \A i \in 1 .. n - 1 : y[i] = front[i]
    BY <1>3
  <2> HIDE DEF y
  <2>2. Len(y) = n /\ y[n] = v
    BY <2>1, <1>1
  <2>3. y \in [1 .. n -> S]
    BY <2>1, <2>2
  <2>4. \A i \in 1 .. n : y[i] = IF i = n THEN v ELSE s[i]
    <3> TAKE i \in 1 .. n
    <3>1. i # n => i \in 1 .. n - 1
      BY <1>1
    <3> QED BY <3>1, <2>1, <2>2, <1>4
  <2> QED BY <2>3, <2>4 DEF y
<1>7. z \in [1 .. n -> S] /\ \A i \in 1 .. n : z[i] = IF i = n THEN e ELSE s[i]
  BY <1>1
<1> HIDE DEF z
<1>8. z = Append(front, e)
  <2> DEFINE y == Append(front, e)
  <2>1. y \in [1 .. n -> S] /\ \A i \in 1 .. n : y[i] = IF i = n THEN e ELSE s[i]
    BY <1>6
  <2> HIDE DEF y
  <2>2. \A i \in 1 .. n : z[i] = y[i]
    BY <2>1, <1>7
  <2>3. z \in Seq(S) /\ y \in Seq(S) /\ Len(z) = n /\ Len(y) = n
    BY <1>1, <1>7, <2>1
  <2>4. z = y
    BY <2>2, <2>3, SeqEqual
  <2> QED BY <2>4 DEF y
<1>9. s = Append(front, s[n])
  BY <1>1, <1>5, <1>6
<1> QED BY <1>3, <1>4, <1>8, <1>9 DEF IsFront, z, n

-----------------------------------------------------------------------------
(* What the runs spell *)

(* Runs: where they begin in either string, and how long they are. *)
Stretches == [a : Nat, b : Nat, cells : Nat]

(* Those that lie within a. *)
StretchesOf(a) == {r \in Stretches : r.a >= 1 /\ r.a + r.cells - 1 <= Len(a)}

(* What a run stands for. *)
Piece(a, r) == SubSeq(a, r.a, r.a + r.cells - 1)

(* The characters of a piece. *)
LEMMA PieceIs ==
  ASSUME NEW a \in Seq(Value), NEW r \in StretchesOf(a)
  PROVE  /\ Piece(a, r) \in Seq(Value) /\ Len(Piece(a, r)) = r.cells
         /\ \A k \in 1 .. r.cells : Piece(a, r)[k] = a[r.a + k - 1]
<1> DEFINE m == r.a
           n == m + r.cells - 1
           t == SubSeq(a, m, n)
           cells == r.cells
<1>1. m \in Nat /\ cells \in Nat /\ n \in Int /\ m >= 1 /\ n <= Len(a) /\ n - m + 1 = cells
  BY DEF StretchesOf, Stretches
<1>2. Len(a) \in Nat /\ \A x \in 1 .. Len(a) : a[x] \in Value
  OBVIOUS
<1> HIDE DEF n, m, cells
<1>3. \A x \in m .. n : a[x] \in Value
  BY <1>1, <1>2
<1>4. /\ t \in Seq(Value) /\ Len(t) = (IF m <= n THEN n - m + 1 ELSE 0)
      /\ \A x \in 1 .. n - m + 1 : t[x] = a[m + x - 1]
  BY <1>1, <1>3, SubSeqProperties
<1> HIDE DEF t
<1>5. Len(t) = cells /\ \A x \in 1 .. cells : t[x] = a[m + x - 1]
  BY <1>1, <1>4
<1>6. Piece(a, r) = t
  BY DEF Piece, t, n, m
<1> QED BY <1>4, <1>5, <1>6 DEF m, cells

(* f[k]: what the first k of the runs spell. *)
IsSpelling(f, a, runs) ==
    /\ f \in [0 .. Len(runs) -> Seq(Value)] /\ f[0] = <<>>
    /\ \A k \in 1 .. Len(runs) : f[k] = Piece(a, runs[k]) \o f[k - 1]

(* The text of some runs is put together from their pieces. *)
LEMMA SpelledSpells ==
  ASSUME NEW a \in Seq(Value), NEW runs \in Seq(StretchesOf(a))
  PROVE  \E f : IsSpelling(f, a, runs) /\ Spelled(a, runs) = f[Len(runs)]
<1> DEFINE N == Len(runs)
           S == Seq(Value)
           c == <<>>
           op(k, v) == Piece(a, runs[k]) \o v
           Rec(f) == f = [k \in 0 .. N |-> IF k = 0 THEN c ELSE op(k, f[k - 1])]
           step == [k \in 1 .. N |-> [v \in S |-> op(k, v)]]
           fc == CHOOSE f : Rec(f)
<1>1. N \in Nat
  OBVIOUS
<1>2. \A k \in 1 .. N : \A v \in S : op(k, v) \in S
  <2> TAKE k \in 1 .. N
  <2> TAKE v \in S
  <2>1. runs[k] \in StretchesOf(a)
    OBVIOUS
  <2> DEFINE t == Piece(a, runs[k])
  <2>2. t \in Seq(Value)
    BY <2>1, PieceIs
  <2> HIDE DEF t
  <2>3. t \o v \in Seq(Value)
    BY <2>2
  <2> QED BY <2>3 DEF t
<1>3. c \in S
  OBVIOUS
<1>4. Spelled(a, runs) = fc[N]
  BY Zenon DEF Spelled, Piece
<1> HIDE DEF N, S, c, op
<1>5. PICK g : Made(g, N, S, c, step)
  <2>1. step \in [1 .. N -> [S -> S]]
    BY <1>2
  <2> HIDE DEF step
  <2> QED BY <2>1, <1>1, <1>3, Recursion
<1>6. g \in [0 .. N -> S] /\ g[0] = c /\ \A m \in 1 .. N : g[m] = op(m, g[m - 1])
  <2>1. g \in [0 .. N -> S] /\ g[0] = c /\ \A m \in 1 .. N : g[m] = step[m][g[m - 1]]
    <3> HIDE DEF step
    <3> QED BY <1>5 DEF Made
  <2>2. \A m \in 1 .. N : g[m - 1] \in S
    <3> TAKE m \in 1 .. N
    <3>1. m - 1 \in 0 .. N
      BY <1>1
    <3> QED BY <3>1, <2>1
  <2> QED BY <2>1, <2>2
<1>7. Rec(fc)
  <2>1. g = [k \in 0 .. N |-> g[k]]
    BY <1>6
  <2>2. \A k \in 0 .. N : g[k] = IF k = 0 THEN c ELSE op(k, g[k - 1])
    <3> TAKE k \in 0 .. N
    <3>1. k # 0 => k \in 1 .. N
      BY <1>1
    <3> QED BY <3>1, <1>6
  <2>3. Rec(g)
    BY <2>1, <2>2, Zenon
  <2> HIDE DEF Rec
  <2> QED BY <2>3
<1> HIDE DEF fc
<1>8. /\ fc = [k \in 0 .. N |-> fc[k]]
      /\ \A k \in 0 .. N : fc[k] = IF k = 0 THEN c ELSE op(k, fc[k - 1])
  BY <1>7, Zenon
<1> HIDE DEF step, Rec
<1>9. fc[0] = c /\ \A m \in 1 .. N : fc[m] = op(m, fc[m - 1])
  <2>1. 0 \in 0 .. N /\ \A m \in 1 .. N : m \in 0 .. N /\ m # 0
    BY <1>1
  <2> QED BY <2>1, <1>8
<1>10. \A k \in 0 .. N : fc[k] = g[k]
  <2>1. fc[0] = g[0]
    BY <1>6, <1>9
  <2>2. \A m \in 1 .. N : fc[m - 1] = g[m - 1] => fc[m] = g[m]
    BY <1>6, <1>9
  <2>3. Alike(fc, g, N)
    BY <2>1, <2>2 DEF Alike
  <2> QED BY <2>3, <1>1, AlikeChain
<1>11. fc \in [0 .. N -> S]
  <2>1. \A k \in 0 .. N : fc[k] \in S
    BY <1>6, <1>10
  <2> QED BY <2>1, <1>8
<1>12. IsSpelling(fc, a, runs)
  BY <1>9, <1>11 DEF IsSpelling, N, S, c, op
<1> QED BY <1>4, <1>12 DEF N

(* A further run spells its piece before the text. *)
LEMMA SpelledAppend ==
  ASSUME NEW a \in Seq(Value), NEW runs \in Seq(StretchesOf(a)), NEW r \in StretchesOf(a)
  PROVE  /\ Spelled(a, runs) \in Seq(Value)
         /\ Spelled(a, Append(runs, r)) = Piece(a, r) \o Spelled(a, runs)
<1> DEFINE S == StretchesOf(a)
           n == Len(runs)
           more == Append(runs, r)
           m == n + 1
<1>1. /\ n \in Nat /\ more \in Seq(S) /\ Len(more) = m /\ more[m] = r
      /\ \A k \in 1 .. n : more[k] = runs[k]
  <2> HIDE DEF S
  <2>1. runs \in Seq(S) /\ r \in S
    BY DEF S
  <2> QED BY <2>1
<1> HIDE DEF S, more
<1>2. PICK f : IsSpelling(f, a, runs) /\ Spelled(a, runs) = f[n]
  BY SpelledSpells DEF S
<1>3. PICK g : IsSpelling(g, a, more) /\ Spelled(a, more) = g[m]
  BY <1>1, SpelledSpells DEF S
<1>4. /\ f \in [0 .. n -> Seq(Value)] /\ f[0] = <<>>
      /\ \A k \in 1 .. n : f[k] = Piece(a, runs[k]) \o f[k - 1]
  BY <1>2 DEF IsSpelling
<1>5. g[0] = <<>> /\ \A k \in 1 .. m : g[k] = Piece(a, more[k]) \o g[k - 1]
  BY <1>1, <1>3 DEF IsSpelling
<1> HIDE DEF n
<1>6. \A k \in 0 .. n : f[k] = g[k]
  <2>1. \A k \in 1 .. n : f[k - 1] = g[k - 1] => f[k] = g[k]
    <3> TAKE k \in 1 .. n
    <3>1. k \in 1 .. m
      BY <1>1
    <3> QED BY <3>1, <1>1, <1>4, <1>5
  <2>2. Alike(f, g, n)
    BY <2>1, <1>4, <1>5 DEF Alike
  <2> QED BY <2>2, <1>1, AlikeChain
<1>7. m \in 1 .. m /\ m - 1 = n /\ n \in 0 .. n
  BY <1>1
<1>8. g[m] = Piece(a, r) \o f[n]
  <2>1. g[m] = Piece(a, more[m]) \o g[m - 1]
    <3> HIDE DEF m
    <3> QED BY <1>5, <1>7
  <2> QED BY <2>1, <1>1, <1>6, <1>7
<1>9. f[n] \in Seq(Value)
  BY <1>4, <1>7
<1> QED BY <1>2, <1>3, <1>8, <1>9 DEF more, m, n

(* Concatenation associates. *)
LEMMA ConcatFacts ==
  ASSUME NEW S, NEW x \in Seq(S), NEW y \in Seq(S), NEW e \in S
  PROVE  (<<e>> \o x) \o y = <<e>> \o (x \o y)
<1> DEFINE u == (<<e>> \o x) \o y
           v == <<e>> \o (x \o y)
           m == Len(x)
           n == Len(y)
<1>1. m \in Nat /\ n \in Nat
  OBVIOUS
<1>2. /\ u \in Seq(S) /\ Len(u) = 1 + m + n
      /\ \A i \in 1 .. 1 + m + n : u[i] = IF i = 1 THEN e ELSE IF i <= 1 + m THEN x[i - 1] ELSE y[i - 1 - m]
  OBVIOUS
<1>3. /\ v \in Seq(S) /\ Len(v) = 1 + m + n
      /\ \A i \in 1 .. 1 + m + n : v[i] = IF i = 1 THEN e ELSE IF i <= 1 + m THEN x[i - 1] ELSE y[i - 1 - m]
  OBVIOUS
<1> HIDE DEF u, v, m, n
<1>4. \A i \in 1 .. Len(u) : u[i] = v[i]
  BY <1>2, <1>3
<1>5. u = v
  BY <1>2, <1>3, <1>4, SeqEqual
<1> QED BY <1>5 DEF u, v

(* A stretch begun one character earlier. *)
LEMMA PieceEarlier ==
  ASSUME NEW a \in Seq(Value), NEW r \in StretchesOf(a), NEW s \in StretchesOf(a),
         r.a = s.a - 1, r.cells = s.cells + 1
  PROVE  Piece(a, r) = <<a[r.a]>> \o Piece(a, s)
<1> DEFINE u == Piece(a, r)
           t == Piece(a, s)
           e == a[r.a]
           v == <<e>> \o t
           n == s.cells
           i == s.a
           N == n + 1
<1>1. /\ u \in Seq(Value) /\ Len(u) = r.cells
      /\ \A k \in 1 .. r.cells : u[k] = a[r.a + k - 1]
  BY PieceIs
<1>2. /\ t \in Seq(Value) /\ Len(t) = n
      /\ \A k \in 1 .. n : t[k] = a[i + k - 1]
  BY PieceIs
<1>3. /\ n \in Nat /\ i \in Nat /\ i - 1 >= 1 /\ r.cells = N /\ r.a = i - 1
      /\ (i - 1) + N - 1 <= Len(a)
  <2>1. s.a \in Nat /\ s.cells \in Nat /\ r.a >= 1 /\ r.a + r.cells - 1 <= Len(a)
    BY DEF StretchesOf, Stretches
  <2> QED BY <2>1
<1>4. e \in Value
  <2> DEFINE h == i - 1
  <2>1. h \in 1 .. Len(a)
    <3>1. Len(a) \in Nat
      OBVIOUS
    <3> HIDE DEF i, n
    <3> QED BY <1>3, <3>1
  <2>2. e = a[h]
    BY <1>3
  <2> HIDE DEF h
  <2> QED BY <2>1, <2>2
<1> HIDE DEF u, t, e, n, i
<1>5. /\ v \in Seq(Value) /\ Len(v) = 1 + n
      /\ \A k \in 1 .. 1 + n : v[k] = IF k = 1 THEN e ELSE t[k - 1]
  <2> DEFINE s1 == <<e>>
  <2>1. s1 \in Seq(Value) /\ Len(s1) = 1 /\ s1[1] = e
    BY <1>4
  <2> HIDE DEF s1
  <2>2. /\ s1 \o t \in Seq(Value) /\ Len(s1 \o t) = Len(s1) + Len(t)
        /\ \A k \in 1 .. Len(s1) + Len(t) : (s1 \o t)[k] = IF k <= Len(s1) THEN s1[k] ELSE t[k - Len(s1)]
    <3>1. s1 \in Seq(Value) /\ t \in Seq(Value)
      BY <2>1, <1>2
    <3> HIDE DEF v
    <3> QED BY <3>1, ConcatProperties
  <2>3. \A k \in 1 .. 1 + n : (s1 \o t)[k] = IF k = 1 THEN e ELSE t[k - 1]
    <3> TAKE k \in 1 .. 1 + n
    <3>1. (s1 \o t)[k] = IF k <= 1 THEN s1[k] ELSE t[k - 1]
      BY <2>1, <2>2, <1>2
    <3>2. k <= 1 <=> k = 1
      BY <1>3
    <3> QED BY <3>1, <3>2, <2>1
  <2> QED BY <2>1, <2>2, <2>3, <1>2 DEF s1
<1> HIDE DEF v
<1>6. \A k \in 1 .. Len(u) : u[k] = v[k]
  <2> TAKE k \in 1 .. Len(u)
  <2>1. k \in 1 .. N /\ k \in 1 .. 1 + n /\ u[k] = a[(i - 1) + k - 1]
    <3>1. Len(u) = N /\ N = 1 + n
      BY <1>1, <1>3
    <3>2. k \in 1 .. r.cells
      BY <3>1, <1>3
    <3>3. u[k] = a[r.a + k - 1]
      BY <3>2, <1>1, Zenon
    <3> QED BY <3>1, <3>3, <1>3
  <2>2. CASE k = 1
    <3>1. (i - 1) + k - 1 = i - 1
      BY <2>2, <1>3
    <3> QED BY <2>1, <2>2, <3>1, <1>3, <1>5 DEF e
  <2>3. CASE k # 1
    <3> DEFINE l == k - 1
    <3>1. l \in 1 .. n /\ (i - 1) + k - 1 = i + l - 1
      BY <2>1, <2>3, <1>3
    <3>2. v[k] = t[l]
      BY <2>1, <2>3, <1>5
    <3> HIDE DEF l
    <3> QED BY <2>1, <3>1, <3>2, <1>2
  <2> QED BY <2>2, <2>3
<1>7. Len(u) = Len(v)
  BY <1>1, <1>3, <1>5
<1>8. u = v
  BY <1>1, <1>5, <1>6, <1>7, SeqEqual
<1> QED BY <1>8 DEF u, v, e, t

(* One more cell puts its character before the text. *)
LEMMA SpelledExtended ==
  ASSUME NEW a \in Seq(Value), NEW runs \in Seq(StretchesOf(a)),
         NEW i \in 1 .. Len(a), NEW j \in Nat
  PROVE  /\ Extended(runs, <<i, j>>) \in Seq(StretchesOf(a))
         /\ Spelled(a, Extended(runs, <<i, j>>)) = <<a[i]>> \o Spelled(a, runs)
<1> DEFINE S == StretchesOf(a)
           n == Len(runs)
           cell == <<i, j>>
           last == runs[n]
           new == [a |-> i, b |-> j, cells |-> 1]
           longer == [a |-> i, b |-> j, cells |-> last.cells + 1]
           said == Extended(runs, cell)
<1>1. said = IF runs # <<>> /\ Joins(last, cell) THEN [runs EXCEPT ![n] = longer] ELSE Append(runs, new)
  BY DEF Extended
<1>2. i \in Nat /\ i >= 1 /\ i <= Len(a) /\ a[i] \in Value /\ Len(a) \in Nat
  OBVIOUS
<1>3. CASE runs # <<>> /\ Joins(last, cell)
  <2>1. i = last.a - 1 /\ j = last.b - 1
    BY <1>3 DEF Joins
  <2>2. n \in 1 .. n
    BY <1>3
  <2>3. last \in S
    BY <2>2
  <2>4. longer \in S /\ longer.a = i /\ longer.cells = last.cells + 1
    <3>1. last.a \in Nat /\ last.cells \in Nat /\ last.a + last.cells - 1 <= Len(a)
      BY <2>3 DEF StretchesOf, Stretches
    <3>2. longer \in Stretches
      BY <3>1, <1>2 DEF Stretches
    <3>3. i + (last.cells + 1) - 1 <= Len(a)
      <4> DEFINE x == last.a
                 y == last.cells
                 z == Len(a)
      <4>1. x \in Nat /\ y \in Nat /\ z \in Nat /\ x + y - 1 <= z /\ i = x - 1 /\ i \in Nat
        BY <3>1, <2>1, <1>2
      <4> HIDE DEF x, y, z
      <4>2. i + (y + 1) - 1 <= z
        BY <4>1
      <4> QED BY <4>2 DEF y, z
    <3> QED BY <3>2, <3>3, <1>2 DEF StretchesOf
  <2>5. runs \in Seq(S)
    OBVIOUS
  <2> HIDE DEF S, last, longer
  <2>6. PICK front \in Seq(S) : IsFront(front, runs, longer)
    BY <2>4, <2>5, <1>3, FrontLast
  <2>7. runs = Append(front, last) /\ said = Append(front, longer)
    BY <2>6, <1>1, <1>3 DEF last, IsFront
  <2>8. /\ Spelled(a, front) \in Seq(Value)
        /\ Spelled(a, Append(front, last)) = Piece(a, last) \o Spelled(a, front)
        /\ Spelled(a, Append(front, longer)) = Piece(a, longer) \o Spelled(a, front)
    BY <2>3, <2>4, SpelledAppend DEF S
  <2>9. Piece(a, longer) = <<a[i]>> \o Piece(a, last)
    <3>1. longer.a = last.a - 1
      BY <2>1, <2>4
    <3>2. Piece(a, longer) = <<a[longer.a]>> \o Piece(a, last)
      BY <2>3, <2>4, <3>1, PieceEarlier DEF S
    <3> QED BY <3>2, <2>4
  <2>10. Piece(a, last) \in Seq(Value)
    BY <2>3, PieceIs DEF S
  <2>11. (<<a[i]>> \o Piece(a, last)) \o Spelled(a, front) = <<a[i]>> \o (Piece(a, last) \o Spelled(a, front))
    <3> DEFINE e == a[i]
               piece == Piece(a, last)
               rest == Spelled(a, front)
    <3>1. e \in Value /\ piece \in Seq(Value) /\ rest \in Seq(Value)
      BY <2>8, <2>10, <1>2
    <3> HIDE DEF e, piece, rest
    <3>2. (<<e>> \o piece) \o rest = <<e>> \o (piece \o rest)
      BY <3>1, ConcatFacts
    <3> QED BY <3>2 DEF e, piece, rest
  <2>12. said \in Seq(S)
    <3>1. Append(front, longer) \in Seq(S)
      BY <2>4, <2>6
    <3> QED BY <3>1, <2>7
  <2>13. Spelled(a, said) = <<a[i]>> \o Spelled(a, runs)
    <3>1. Spelled(a, said) = Piece(a, longer) \o Spelled(a, front)
      BY <2>7, <2>8
    <3>2. Spelled(a, runs) = Piece(a, last) \o Spelled(a, front)
      BY <2>7, <2>8, Zenon
    <3> HIDE DEF said
    <3> QED BY <3>1, <3>2, <2>9, <2>11
  <2> QED BY <2>12, <2>13 DEF S
<1>4. CASE ~(runs # <<>> /\ Joins(last, cell))
  <2>1. said = Append(runs, new)
    BY <1>1, <1>4
  <2>2. new \in S
    <3>1. new \in Stretches /\ i + 1 - 1 <= Len(a)
      BY <1>2 DEF Stretches
    <3> QED BY <3>1, <1>2 DEF StretchesOf
  <2>3. Spelled(a, Append(runs, new)) = Piece(a, new) \o Spelled(a, runs)
    BY <2>2, SpelledAppend
  <2>4. Piece(a, new) = <<a[i]>>
    <3> DEFINE t == Piece(a, new)
               e == a[i]
               s == <<e>>
    <3>1. t \in Seq(Value) /\ Len(t) = 1 /\ \A k \in 1 .. 1 : t[k] = a[i + k - 1]
      <4>1. new.cells = 1 /\ new.a = i
        OBVIOUS
      <4> HIDE DEF new, S
      <4> QED BY <2>2, <4>1, PieceIs DEF S
    <3>2. 1 \in 1 .. 1 /\ i + 1 - 1 = i
      BY <1>2
    <3> HIDE DEF t
    <3>3. t[1] = e
      BY <3>1, <3>2
    <3> HIDE DEF e
    <3>4. s \in Seq({e}) /\ Len(s) = 1 /\ s[1] = e
      OBVIOUS
    <3> HIDE DEF s
    <3>5. \A k \in 1 .. Len(t) : t[k] = s[k]
      BY <3>1, <3>3, <3>4
    <3>6. t = s
      BY <3>1, <3>4, <3>5, SeqEqual
    <3> QED BY <3>6 DEF t, s, e
  <2>5. said \in Seq(S)
    <3> HIDE DEF S, new
    <3>1. runs \in Seq(S)
      BY DEF S
    <3>2. Append(runs, new) \in Seq(S)
      BY <2>2, <3>1
    <3> QED BY <2>1, <3>2
  <2> HIDE DEF said
  <2> QED BY <2>1, <2>3, <2>4, <2>5 DEF said
<1> QED BY <1>3, <1>4

-----------------------------------------------------------------------------
(* Runs of cells *)

(* A cell goes on with the last run, or begins one. *)
Lengthens(E, R, i, j) ==
    /\ R # <<>> /\ Joins(R[Len(R)], <<i, j>>) /\ Len(E) = Len(R)
    /\ E[Len(R)] = [a |-> i, b |-> j, cells |-> R[Len(R)].cells + 1]
    /\ \A k \in 1 .. Len(R) - 1 : E[k] = R[k]

Begins(E, R, i, j) ==
    /\ R = <<>> \/ ~Joins(R[Len(R)], <<i, j>>)
    /\ Len(E) = Len(R) + 1
    /\ E[Len(R) + 1] = [a |-> i, b |-> j, cells |-> 1]
    /\ \A k \in 1 .. Len(R) : E[k] = R[k]

(* A cell does one or the other. *)
LEMMA ExtendedIs ==
  ASSUME NEW R \in Seq(Stretches), NEW i \in Nat, NEW j \in Nat
  PROVE  /\ Extended(R, <<i, j>>) \in Seq(Stretches)
         /\ Lengthens(Extended(R, <<i, j>>), R, i, j) \/ Begins(Extended(R, <<i, j>>), R, i, j)
<1> DEFINE n == Len(R)
           cell == <<i, j>>
           last == R[n]
           new == [a |-> i, b |-> j, cells |-> 1]
           longer == [a |-> i, b |-> j, cells |-> last.cells + 1]
           E == Extended(R, cell)
<1>1. E = IF R # <<>> /\ Joins(last, cell) THEN [R EXCEPT ![n] = longer] ELSE Append(R, new)
  BY DEF Extended
<1>2. n \in Nat /\ new \in Stretches /\ R \in Seq(Stretches)
  BY DEF Stretches
<1> HIDE DEF E
<1>3. CASE R # <<>> /\ Joins(last, cell)
  <2>1. n \in 1 .. n
    BY <1>3
  <2>2. last \in Stretches
    BY <2>1
  <2>3. longer \in Stretches
    <3>1. last.cells + 1 \in Nat
      BY <2>2 DEF Stretches
    <3> QED BY <3>1 DEF Stretches
  <2>4. E = [R EXCEPT ![n] = longer]
    BY <1>1, <1>3
  <2> HIDE DEF longer, last
  <2>5. /\ E \in Seq(Stretches) /\ Len(E) = n /\ E[n] = longer
        /\ \A k \in 1 .. n - 1 : E[k] = R[k]
    BY <2>1, <2>3, <2>4
  <2>6. Lengthens(E, R, i, j)
    BY <1>3, <2>5 DEF Lengthens, longer, last
  <2> QED BY <2>5, <2>6 DEF E
<1>4. CASE ~(R # <<>> /\ Joins(last, cell))
  <2>1. E = Append(R, new)
    BY <1>1, <1>4
  <2> HIDE DEF new
  <2>2. /\ E \in Seq(Stretches) /\ Len(E) = n + 1 /\ E[n + 1] = new
        /\ \A k \in 1 .. n : E[k] = R[k]
    BY <1>2, <2>1
  <2>3. Begins(E, R, i, j)
    BY <1>4, <2>2 DEF Begins, new
  <2> QED BY <2>2, <2>3 DEF E
<1> QED BY <1>3, <1>4

(* f[k]: the runs of the first k cells. *)
IsCutting(f, cells) ==
    /\ f \in [0 .. Len(cells) -> Seq(Stretches)] /\ f[0] = <<>>
    /\ \A k \in 1 .. Len(cells) : f[k] = Extended(f[k - 1], cells[k])

(* The runs are cut cell by cell. *)
LEMMA RunsCutUp ==
  ASSUME NEW cells \in Seq(Nat \X Nat)
  PROVE  \E f : IsCutting(f, cells) /\ Runs(cells) = f[Len(cells)]
<1> DEFINE N == Len(cells)
           S == Seq(Stretches)
           c == <<>>
           op(k, v) == Extended(v, cells[k])
           Rec(f) == f = [k \in 0 .. N |-> IF k = 0 THEN c ELSE op(k, f[k - 1])]
           step == [k \in 1 .. N |-> [v \in S |-> op(k, v)]]
           fc == CHOOSE f : Rec(f)
<1>1. N \in Nat
  OBVIOUS
<1>2. \A k \in 1 .. N : \A v \in S : op(k, v) \in S
  <2> TAKE k \in 1 .. N
  <2> TAKE v \in S
  <2>1. cells[k] \in Nat \X Nat
    OBVIOUS
  <2>2. PICK i \in Nat, j \in Nat : cells[k] = <<i, j>>
    BY <2>1
  <2>3. Extended(v, <<i, j>>) \in S
    BY ExtendedIs
  <2> QED BY <2>2, <2>3
<1>3. c \in S
  OBVIOUS
<1>4. Runs(cells) = fc[N]
  BY Zenon DEF Runs
<1> HIDE DEF N, S, c, op
<1>5. PICK g : Made(g, N, S, c, step)
  <2>1. step \in [1 .. N -> [S -> S]]
    BY <1>2
  <2> HIDE DEF step
  <2> QED BY <2>1, <1>1, <1>3, Recursion
<1>6. g \in [0 .. N -> S] /\ g[0] = c /\ \A m \in 1 .. N : g[m] = op(m, g[m - 1])
  <2>1. g \in [0 .. N -> S] /\ g[0] = c /\ \A m \in 1 .. N : g[m] = step[m][g[m - 1]]
    <3> HIDE DEF step
    <3> QED BY <1>5 DEF Made
  <2>2. \A m \in 1 .. N : g[m - 1] \in S
    <3> TAKE m \in 1 .. N
    <3>1. m - 1 \in 0 .. N
      BY <1>1
    <3> QED BY <3>1, <2>1
  <2> QED BY <2>1, <2>2
<1>7. Rec(fc)
  <2>1. g = [k \in 0 .. N |-> g[k]]
    BY <1>6
  <2>2. \A k \in 0 .. N : g[k] = IF k = 0 THEN c ELSE op(k, g[k - 1])
    <3> TAKE k \in 0 .. N
    <3>1. k # 0 => k \in 1 .. N
      BY <1>1
    <3> QED BY <3>1, <1>6
  <2>3. Rec(g)
    BY <2>1, <2>2, Zenon
  <2> HIDE DEF Rec
  <2> QED BY <2>3
<1> HIDE DEF fc
<1>8. /\ fc = [k \in 0 .. N |-> fc[k]]
      /\ \A k \in 0 .. N : fc[k] = IF k = 0 THEN c ELSE op(k, fc[k - 1])
  BY <1>7, Zenon
<1> HIDE DEF step, Rec
<1>9. fc[0] = c /\ \A m \in 1 .. N : fc[m] = op(m, fc[m - 1])
  <2>1. 0 \in 0 .. N /\ \A m \in 1 .. N : m \in 0 .. N /\ m # 0
    BY <1>1
  <2> QED BY <2>1, <1>8
<1>10. \A k \in 0 .. N : fc[k] = g[k]
  <2>1. fc[0] = g[0]
    BY <1>6, <1>9
  <2>2. \A m \in 1 .. N : fc[m - 1] = g[m - 1] => fc[m] = g[m]
    BY <1>6, <1>9
  <2>3. Alike(fc, g, N)
    BY <2>1, <2>2 DEF Alike
  <2> QED BY <2>3, <1>1, AlikeChain
<1>11. fc \in [0 .. N -> S]
  <2>1. \A k \in 0 .. N : fc[k] \in S
    BY <1>6, <1>10
  <2> QED BY <2>1, <1>8
<1>12. IsCutting(fc, cells)
  BY <1>9, <1>11 DEF IsCutting, N, S, c, op
<1> QED BY <1>4, <1>12 DEF N

(* A stretch that is equal in both strings. *)
Equal(r, a, b) ==
    /\ r \in Stretches /\ r.a >= 1 /\ r.b >= 1 /\ r.cells >= 1
    /\ r.a + r.cells - 1 <= Len(a) /\ r.b + r.cells - 1 <= Len(b)
    /\ \A c \in 0 .. r.cells - 1 : a[r.a + c] = b[r.b + c]

(* One run ends before another begins, and they do not meet. *)
Precedes(r, s) ==
    /\ r.a + r.cells <= s.a /\ r.b + r.cells <= s.b
    /\ ~(r.a + r.cells = s.a /\ r.b + r.cells = s.b)

(* Runs from the last to the first, the last of them at (i, j). *)
Cut(R, a, b, i, j) ==
    /\ R \in Seq(Stretches)
    /\ \A k \in 1 .. Len(R) : Equal(R[k], a, b)
    /\ \A k \in 2 .. Len(R) : Precedes(R[k], R[k - 1])
    /\ R # <<>> => R[Len(R)].a = i /\ R[Len(R)].b = j

(* A stretch lengthened by an equal pair stays equal in both strings. *)
LEMMA LengthenedEqual ==
  ASSUME NEW a \in Seq(Value), NEW b \in Seq(Value), NEW s, Equal(s, a, b), NEW i \in 1 .. Len(a),
         NEW j \in 1 .. Len(b),
         a[i] = b[j], i = s.a - 1, j = s.b - 1
  PROVE  Equal([a |-> i, b |-> j, cells |-> s.cells + 1], a, b)
<1> DEFINE r == [a |-> i, b |-> j, cells |-> s.cells + 1]
           x == s.a
           y == s.b
           n == s.cells
           N == n + 1
<1>1. /\ x \in Nat /\ y \in Nat /\ n \in Nat /\ n >= 1 /\ x + n - 1 <= Len(a) /\ y + n - 1 <= Len(b)
      /\ \A c \in 0 .. n - 1 : a[x + c] = b[y + c]
  BY DEF Equal, Stretches
<1>2. /\ i = x - 1 /\ j = y - 1 /\ i >= 1 /\ j >= 1
      /\ i \in Nat /\ j \in Nat /\ Len(a) \in Nat /\ Len(b) \in Nat
  OBVIOUS
<1> HIDE DEF x, y, n
<1>3. N \in Nat /\ N >= 1 /\ i + N - 1 <= Len(a) /\ j + N - 1 <= Len(b)
  BY <1>1, <1>2
<1>4. \A c \in 0 .. N - 1 : a[i + c] = b[j + c]
  <2> TAKE c \in 0 .. N - 1
  <2>1. CASE c = 0
    <3>1. i + c = i /\ j + c = j
      BY <2>1, <1>2
    <3> QED BY <3>1
  <2>2. CASE c # 0
    <3> DEFINE d == c - 1
    <3>0. c \in Nat /\ c <= n
      BY <1>1
    <3>1. d \in 0 .. n - 1 /\ i + c = x + d /\ j + c = y + d
      <4>1. d \in 0 .. n - 1
        BY <2>2, <3>0, <1>1
      <4>2. \A p, q, e \in Int : p = q - 1 => p + e = q + (e - 1)
        OBVIOUS
      <4>3. x \in Int /\ y \in Int /\ c \in Int /\ i \in Int /\ j \in Int /\ i = x - 1 /\ j = y - 1
        BY <3>0, <1>1, <1>2
      <4>4. i + c = x + (c - 1) /\ j + c = y + (c - 1)
        BY <4>2, <4>3, Zenon
      <4> QED BY <4>1, <4>4
    <3> HIDE DEF d
    <3>2. a[x + d] = b[y + d]
      BY <3>1, <1>1
    <3> QED BY <3>1, <3>2
  <2> QED BY <2>1, <2>2
<1>5. r = [a |-> i, b |-> j, cells |-> N]
  BY DEF n
<1> HIDE DEF r, N
<1>6. r \in Stretches /\ r.a = i /\ r.b = j /\ r.cells = N
  BY <1>2, <1>3, <1>5 DEF Stretches
<1>7. Equal(r, a, b)
  BY <1>2, <1>3, <1>4, <1>6 DEF Equal
<1> QED BY <1>7 DEF r

(* One more cell, before the others, keeps the runs in order and apart. *)
LEMMA CutExtends ==
  ASSUME NEW a \in Seq(Value), NEW b \in Seq(Value), NEW R, NEW i \in Nat, NEW j \in Nat,
         Cut(R, a, b, i, j),
         NEW k \in 1 .. Len(a), NEW l \in 1 .. Len(b), a[k] = b[l], R # <<>> => k < i /\ l < j
  PROVE  Cut(Extended(R, <<k, l>>), a, b, k, l)
<1> DEFINE E == Extended(R, <<k, l>>)
           n == Len(R)
           last == R[n]
<1>1. /\ R \in Seq(Stretches) /\ \A x \in 1 .. n : Equal(R[x], a, b)
      /\ \A x \in 2 .. n : Precedes(R[x], R[x - 1])
      /\ R # <<>> => last.a = i /\ last.b = j
  BY DEF Cut
<1>2. n \in Nat /\ k \in Nat /\ l \in Nat /\ k >= 1 /\ l >= 1 /\ k <= Len(a) /\ l <= Len(b)
      /\ Len(a) \in Nat /\ Len(b) \in Nat
  BY <1>1
<1>3. E \in Seq(Stretches) /\ (Lengthens(E, R, k, l) \/ Begins(E, R, k, l))
  BY <1>1, <1>2, ExtendedIs
<1> HIDE DEF E, n
<1>4. CASE Lengthens(E, R, k, l)
  <2> DEFINE r == [a |-> k, b |-> l, cells |-> last.cells + 1]
  <2>1. /\ R # <<>> /\ Joins(last, <<k, l>>) /\ Len(E) = n /\ E[n] = r
        /\ \A x \in 1 .. n - 1 : E[x] = R[x]
    BY <1>4 DEF Lengthens, n
  <2>2. k = last.a - 1 /\ l = last.b - 1 /\ last.a = i /\ last.b = j
    BY <2>1, <1>1 DEF Joins
  <2>3. n \in 1 .. n
    BY <1>1, <1>2, <2>1 DEF n
  <2>4. Equal(last, a, b)
    BY <1>1, <2>3
  <2>5. Equal(r, a, b)
    <3> HIDE DEF last
    <3> QED BY <2>2, <2>4, LengthenedEqual
  <2>6. r.a = k /\ r.b = l /\ r.cells = last.cells + 1 /\ last.cells \in Nat
    BY <2>4 DEF Equal, Stretches
  <2> HIDE DEF r, last
  <2>7. \A x \in 1 .. n : Equal(E[x], a, b)
    <3> TAKE x \in 1 .. n
    <3>1. x = n \/ x \in 1 .. n - 1
      BY <1>2
    <3> QED BY <3>1, <1>1, <2>1, <2>5
  <2>8. \A x \in 2 .. n : Precedes(E[x], E[x - 1])
    <3> TAKE x \in 2 .. n
    <3>0. x - 1 \in 1 .. n - 1
      BY <1>2
    <3>1. E[x - 1] = R[x - 1] /\ Precedes(R[x], R[x - 1])
      BY <3>0, <1>1, <2>1
    <3>2. CASE x # n
      <4>1. x \in 1 .. n - 1
        BY <3>2, <1>2
      <4> QED BY <4>1, <3>1, <2>1
    <3>3. CASE x = n
      <4> DEFINE s == R[x - 1]
      <4>1. Precedes(last, s)
        BY <3>1, <3>3 DEF last
      <4>2. r.a + r.cells = last.a + last.cells /\ r.b + r.cells = last.b + last.cells
        <5> DEFINE p == last.cells
        <5>1. /\ r.a = k /\ r.b = l /\ r.cells = p + 1 /\ p \in Nat
              /\ last.a = i /\ last.b = j /\ k = i - 1 /\ l = j - 1
          BY <2>2, <2>6
        <5> HIDE DEF p
        <5>2. k + (p + 1) = i + p /\ l + (p + 1) = j + p
          BY <5>1
        <5> QED BY <5>1, <5>2 DEF p
      <4>3. Precedes(r, s)
        BY <4>1, <4>2 DEF Precedes
      <4> QED BY <4>3, <3>1, <3>3, <2>1
    <3> QED BY <3>2, <3>3
  <2>9. E[Len(E)].a = k /\ E[Len(E)].b = l
    BY <2>1, <2>6
  <2> QED BY <1>3, <2>1, <2>7, <2>8, <2>9 DEF Cut, E
<1>5. CASE Begins(E, R, k, l)
  <2> DEFINE r == [a |-> k, b |-> l, cells |-> 1]
             m == n + 1
  <2>1. /\ R = <<>> \/ ~Joins(last, <<k, l>>)
        /\ Len(E) = m /\ E[m] = r
        /\ \A x \in 1 .. n : E[x] = R[x]
    BY <1>5 DEF Begins, n
  <2>2. r \in Stretches /\ r.a = k /\ r.b = l /\ r.cells = 1
    BY <1>2 DEF Stretches
  <2> HIDE DEF r
  <2>3. Equal(r, a, b)
    <3>1. \A c \in 0 .. 1 - 1 : a[k + c] = b[l + c]
      <4> TAKE c \in 0 .. 1 - 1
      <4>1. k + c = k /\ l + c = l
        BY <1>2
      <4> QED BY <4>1
    <3>2. k + 1 - 1 <= Len(a) /\ l + 1 - 1 <= Len(b)
      BY <1>2
    <3> QED BY <2>2, <3>1, <3>2, <1>2 DEF Equal
  <2>4. m \in Nat /\ m - 1 = n
    BY <1>2
  <2>5. \A x \in 1 .. m : Equal(E[x], a, b)
    <3> TAKE x \in 1 .. m
    <3>1. x = m \/ x \in 1 .. n
      BY <1>2
    <3> QED BY <3>1, <1>1, <2>1, <2>3
  <2>6. \A x \in 2 .. m : Precedes(E[x], E[x - 1])
    <3> TAKE x \in 2 .. m
    <3>0. x - 1 \in 1 .. n
      BY <1>2
    <3>1. E[x - 1] = R[x - 1]
      BY <3>0, <2>1
    <3>2. CASE x # m
      <4>1. x \in 2 .. n /\ x \in 1 .. n
        BY <3>2, <1>2
      <4> QED BY <4>1, <3>1, <1>1, <2>1
    <3>3. CASE x = m
      <4>1. x - 1 = n /\ n \in 1 .. n
        BY <3>0, <3>3, <2>4
      <4>2. R # <<>>
        <5>1. n # 0
          BY <4>1, <1>2
        <5> QED BY <5>1 DEF n
      <4>3. last.a = i /\ last.b = j /\ k < i /\ l < j
        BY <4>2, <1>1
      <4>4. ~(k = last.a - 1 /\ l = last.b - 1)
        BY <4>2, <2>1 DEF Joins
      <4> HIDE DEF last
      <4>5. Precedes(r, last)
        <5>1. k + 1 <= i /\ l + 1 <= j /\ ~(k + 1 = i /\ l + 1 = j)
          BY <4>3, <4>4, <1>2
        <5> QED BY <5>1, <4>3, <2>2 DEF Precedes
      <4> QED BY <4>1, <4>5, <3>1, <3>3, <2>1 DEF last
    <3> QED BY <3>2, <3>3
  <2>7. E[Len(E)].a = k /\ E[Len(E)].b = l
    BY <2>1, <2>2
  <2> HIDE DEF m
  <2> QED BY <1>3, <2>1, <2>5, <2>6, <2>7 DEF Cut, E
<1> QED BY <1>3, <1>4, <1>5

(* The text of the first n of the cells. *)
TextUpTo(a, cells, n) == [i \in 1 .. n |-> a[cells[n + 1 - i][1]]]

(* One more cell puts its character before the text. *)
LEMMA TextGrows ==
  ASSUME NEW a \in Seq(Value), NEW b \in Seq(Value), NEW cells, Matching(cells, a, b),
         NEW n \in 0 .. Len(cells) - 1
  PROVE  TextUpTo(a, cells, n + 1) = <<a[cells[n + 1][1]]>> \o TextUpTo(a, cells, n)
<1> DEFINE m == n + 1
           e == a[cells[m][1]]
           s == <<e>>
           t == TextUpTo(a, cells, n)
           u == TextUpTo(a, cells, m)
           v == s \o t
<1>0. /\ cells \in Seq(Nat \X Nat) /\ Len(cells) \in Nat
      /\ m \in 1 .. Len(cells) /\ n \in Nat /\ m \in Nat
  BY DEF Matching
<1>1. \A k \in 1 .. Len(cells) : a[cells[k][1]] \in Value
  <2>1. \A x \in 1 .. Len(a) : a[x] \in Value
    OBVIOUS
  <2>2. \A k \in 1 .. Len(cells) : cells[k][1] \in 1 .. Len(a)
    BY DEF Matching
  <2> QED BY <2>1, <2>2
<1>2. s \in Seq(Value) /\ Len(s) = 1 /\ s[1] = e
  <2>1. e \in Value
    <3> HIDE DEF m
    <3> QED BY <1>0, <1>1
  <2> HIDE DEF e
  <2> QED BY <2>1
<1>3. t \in Seq(Value) /\ Len(t) = n /\ \A i \in 1 .. n : t[i] = a[cells[n + 1 - i][1]]
  <2>1. \A i \in 1 .. n : n + 1 - i \in 1 .. Len(cells)
    BY <1>0
  <2>2. t \in [1 .. n -> Value]
    BY <1>1, <2>1 DEF TextUpTo
  <2>3. \A i \in 1 .. n : t[i] = a[cells[n + 1 - i][1]]
    BY DEF TextUpTo
  <2> HIDE DEF t
  <2>4. t \in Seq(Value) /\ Len(t) = n
    <3>1. n \in Nat
      BY <1>0
    <3> QED BY <2>2, <3>1
  <2> QED BY <2>3, <2>4
<1>4. u \in Seq(Value) /\ Len(u) = m /\ \A i \in 1 .. m : u[i] = a[cells[m + 1 - i][1]]
  <2> HIDE DEF m
  <2>1. \A i \in 1 .. m : m + 1 - i \in 1 .. Len(cells)
    BY <1>0
  <2>2. u \in [1 .. m -> Value]
    BY <1>1, <2>1 DEF TextUpTo
  <2>3. \A i \in 1 .. m : u[i] = a[cells[m + 1 - i][1]]
    BY DEF TextUpTo
  <2> HIDE DEF u
  <2> QED BY <1>0, <2>2, <2>3
<1> HIDE DEF s, t, u
<1>5. /\ v \in Seq(Value) /\ Len(v) = Len(s) + Len(t)
      /\ \A k \in 1 .. Len(s) + Len(t) : v[k] = IF k <= Len(s) THEN s[k] ELSE t[k - Len(s)]
  BY <1>2, <1>3, ConcatProperties
<1> HIDE DEF v
<1>6. Len(v) = m /\ \A k \in 1 .. m : v[k] = IF k <= 1 THEN s[k] ELSE t[k - 1]
  BY <1>0, <1>2, <1>3, <1>5
<1>7. \A i \in 1 .. Len(u) : u[i] = v[i]
  <2> TAKE i \in 1 .. Len(u)
  <2>1. i \in 1 .. m
    BY <1>4
  <2>2. CASE i = 1
    <3>1. m + 1 - i = m /\ i <= 1
      BY <2>2, <1>0
    <3> HIDE DEF m
    <3>2. u[i] = e /\ v[i] = s[1]
      BY <2>1, <2>2, <3>1, <1>4, <1>6
    <3> QED BY <3>2, <1>2
  <2>3. CASE i # 1
    <3> DEFINE h == i - 1
    <3>1. h \in 1 .. n /\ m + 1 - i = n + 1 - h /\ ~(i <= 1)
      BY <2>1, <2>3, <1>0
    <3>2. v[i] = t[h]
      BY <2>1, <3>1, <1>6
    <3>3. u[i] = a[cells[n + 1 - h][1]]
      <4>1. u[i] = a[cells[m + 1 - i][1]]
        BY <2>1, <1>4
      <4> HIDE DEF h
      <4> QED BY <3>1, <4>1
    <3> HIDE DEF h
    <3> QED BY <3>1, <3>2, <3>3, <1>3
  <2> QED BY <2>2, <2>3
<1>8. u = v
  BY <1>4, <1>5, <1>6, <1>7, SeqEqual
<1> QED BY <1>8 DEF u, v, s, t

(* The runs of matching cells are cut as they should be, and spell what    *)
(* the cells do.                                                           *)
LEMMA RunsOfMatching ==
  ASSUME NEW a \in Seq(Value), NEW b \in Seq(Value), NEW cells, Matching(cells, a, b)
  PROVE  /\ \E i, j \in Nat : Cut(Runs(cells), a, b, i, j)
         /\ Spelled(a, Runs(cells)) = Text(a, cells)
<1> DEFINE K == Len(cells)
<1>1. /\ cells \in Seq(Nat \X Nat) /\ K \in Nat
      /\ \A k \in 1 .. K : /\ cells[k][1] \in 1 .. Len(a) /\ cells[k][2] \in 1 .. Len(b)
                           /\ a[cells[k][1]] = b[cells[k][2]]
      /\ \A k \in 2 .. K : cells[k][1] < cells[k - 1][1] /\ cells[k][2] < cells[k - 1][2]
  BY DEF Matching
<1>2. PICK f : IsCutting(f, cells) /\ Runs(cells) = f[K]
  BY <1>1, RunsCutUp
<1>3. /\ f \in [0 .. K -> Seq(Stretches)] /\ f[0] = <<>>
      /\ \A k \in 1 .. K : f[k] = Extended(f[k - 1], cells[k])
  BY <1>2 DEF IsCutting
<1> HIDE DEF K
<1> DEFINE i(k) == IF k = 0 THEN 0 ELSE cells[k][1]
           j(k) == IF k = 0 THEN 0 ELSE cells[k][2]
           G == {k \in Nat : /\ Cut(f[k], a, b, i(k), j(k)) /\ (f[k] # <<>> => k # 0)
                             /\ f[k] \in Seq(StretchesOf(a))
                             /\ Spelled(a, f[k]) = TextUpTo(a, cells, k)}
<1>4. 0 \in G
  <2>1. <<>> \in Seq(Stretches) /\ <<>> \in Seq(StretchesOf(a)) /\ Len(<<>>) = 0
    OBVIOUS
  <2>2. Cut(<<>>, a, b, 0, 0)
    BY <2>1 DEF Cut
  <2> DEFINE none == <<>>
  <2>3. none \in Seq(StretchesOf(a)) /\ Len(none) = 0
    BY <2>1
  <2> HIDE DEF none
  <2>4. PICK g : IsSpelling(g, a, none) /\ Spelled(a, none) = g[Len(none)]
    BY <2>3, SpelledSpells
  <2>5. Spelled(a, none) = <<>>
    BY <2>3, <2>4 DEF IsSpelling
  <2>6. TextUpTo(a, cells, 0) = <<>>
    BY DEF TextUpTo
  <2>7. f[0] = none /\ i(0) = 0 /\ j(0) = 0
    BY <1>3 DEF none
  <2>8. Cut(none, a, b, 0, 0) /\ none \in Seq(StretchesOf(a))
    BY <2>1, <2>2 DEF none
  <2>9. Spelled(a, none) = TextUpTo(a, cells, 0)
    BY <2>5, <2>6
  <2>10. none = <<>>
    BY DEF none
  <2> HIDE DEF i, j
  <2> QED BY <2>7, <2>8, <2>9, <2>10
<1>5. \A k \in 0 .. K - 1 : k \in G => k + 1 \in G
  <2> TAKE k \in 0 .. K - 1
  <2> HAVE k \in G
  <2> DEFINE l == k + 1
             R == f[k]
             x == cells[l][1]
             y == cells[l][2]
             E == Extended(R, <<x, y>>)
  <2>1. k \in Nat /\ k \in 0 .. K /\ l \in Nat /\ l \in 1 .. K /\ l - 1 = k /\ l # 0
    BY <1>1
  <2>2. Cut(R, a, b, i(k), j(k)) /\ (R # <<>> => k # 0) /\ R \in Seq(StretchesOf(a))
        /\ Spelled(a, R) = TextUpTo(a, cells, k)
    OBVIOUS
  <2>3. x \in 1 .. Len(a) /\ y \in 1 .. Len(b) /\ a[x] = b[y] /\ cells[l] = <<x, y>>
    <3>1. cells[l] \in Nat \X Nat
      <4> HIDE DEF l
      <4> QED BY <1>1, <2>1 DEF K
    <3>2. cells[l] = <<cells[l][1], cells[l][2]>>
      <4> HIDE DEF l
      <4> QED BY <3>1
    <3>3. /\ cells[l][1] \in 1 .. Len(a)
          /\ cells[l][2] \in 1 .. Len(b) /\ a[cells[l][1]] = b[cells[l][2]]
      <4> HIDE DEF l
      <4> QED BY <1>1, <2>1
    <3> QED BY <3>2, <3>3
  <2>4. f[l] = E
    <3>1. f[l] = Extended(f[l - 1], cells[l])
      <4> HIDE DEF l
      <4> QED BY <1>3, <2>1
    <3> QED BY <3>1, <2>1, <2>3
  <2>5. i(k) \in Nat /\ j(k) \in Nat /\ (R # <<>> => x < i(k) /\ y < j(k))
    <3>1. CASE k = 0
      BY <3>1, <2>2
    <3>2. CASE k # 0
      <4>1. k \in 1 .. K /\ l \in 2 .. K
        BY <3>2, <1>1
      <4>2. cells[k][1] \in 1 .. Len(a) /\ cells[k][2] \in 1 .. Len(b)
        BY <4>1, <1>1
      <4>3. cells[l][1] < cells[l - 1][1] /\ cells[l][2] < cells[l - 1][2]
        <5> HIDE DEF l
        <5> QED BY <4>1, <1>1
      <4>4. x < cells[k][1] /\ y < cells[k][2]
        BY <4>3, <2>1
      <4>5. cells[k][1] \in Nat /\ cells[k][2] \in Nat
        BY <4>2
      <4>6. i(k) = cells[k][1] /\ j(k) = cells[k][2]
        BY <3>2
      <4> HIDE DEF i, j, x, y
      <4> QED BY <4>4, <4>5, <4>6
    <3> QED BY <3>1, <3>2
  <2>6. Cut(E, a, b, x, y)
    <3> DEFINE u == i(k)
               v == j(k)
    <3>1. u \in Nat /\ v \in Nat /\ Cut(R, a, b, u, v) /\ (R # <<>> => x < u /\ y < v)
      BY <2>2, <2>5
    <3> HIDE DEF u, v, R, x, y, i, j
    <3> QED BY <2>3, <3>1, CutExtends
  <2>7. E \in Seq(StretchesOf(a)) /\ Spelled(a, E) = <<a[x]>> \o Spelled(a, R)
    <3>1. y \in Nat
      BY <2>3
    <3> HIDE DEF R, x, y
    <3> QED BY <2>2, <2>3, <3>1, SpelledExtended
  <2>8. Spelled(a, E) = TextUpTo(a, cells, l)
    <3>1. TextUpTo(a, cells, k + 1) = <<a[cells[k + 1][1]]>> \o TextUpTo(a, cells, k)
      BY TextGrows DEF K
    <3> QED BY <3>1, <2>2, <2>7
  <2>9. i(l) = x /\ j(l) = y
    BY <2>1
  <2>10. l \in G
    <3> HIDE DEF i, j, l, E
    <3> QED BY <2>1, <2>4, <2>6, <2>7, <2>8, <2>9
  <2> QED BY <2>10
<1>6. K \in G
  <2>1. 0 .. K \subseteq G
    <3> HIDE DEF G
    <3> QED BY <1>1, <1>4, <1>5, InductionUpTo
  <2>2. K \in 0 .. K
    BY <1>1
  <2> QED BY <2>1, <2>2
<1>7. i(K) \in Nat /\ j(K) \in Nat
  <2>1. CASE K = 0
    BY <2>1
  <2>2. CASE K # 0
    <3>1. K \in 1 .. K
      BY <2>2, <1>1
    <3>2. cells[K][1] \in 1 .. Len(a) /\ cells[K][2] \in 1 .. Len(b)
      BY <3>1, <1>1
    <3> QED BY <2>2, <3>2
  <2> QED BY <2>1, <2>2
<1>8. Cut(Runs(cells), a, b, i(K), j(K)) /\ Spelled(a, Runs(cells)) = TextUpTo(a, cells, K)
  BY <1>2, <1>6
<1>9. TextUpTo(a, cells, K) = Text(a, cells)
  BY DEF TextUpTo, Text, K
<1> HIDE DEF i, j
<1> QED BY <1>7, <1>8, <1>9

-----------------------------------------------------------------------------
(* The second walk *)

(* A bounded set of natural numbers has a greatest element. *)
LEMMA GreatestBounded ==
  ASSUME NEW N \in Nat, NEW S, S \subseteq 0 .. N, S # {}
  PROVE  Greatest(S) \in S /\ \A y \in S : y <= Greatest(S)
<1> DEFINE U == {N - x : x \in S}
<1>1. U \subseteq Nat /\ U # {}
  <2>1. \A x \in S : N - x \in Nat
    OBVIOUS
  <2>2. PICK y : y \in S
    OBVIOUS
  <2>3. N - y \in U
    BY <2>2
  <2> QED BY <2>1, <2>3
<1>2. PICK u \in U : \A y \in U : u <= y
  <2> HIDE DEF U
  <2> QED BY <1>1, LeastNatural
<1>3. PICK x \in S : u = N - x
  BY <1>2
<1>4. \A y \in S : y <= x
  <2> TAKE y \in S
  <2>1. N - y \in U
    OBVIOUS
  <2>2. u <= N - y
    BY <1>2, <2>1
  <2> QED BY <1>3, <2>2
<1>5. \E z \in S : \A y \in S : y <= z
  BY <1>4
<1>6. Greatest(S) = CHOOSE z \in S : \A y \in S : y <= z
  BY DEF Greatest
<1> HIDE DEF U
<1> QED BY <1>5, <1>6

(* The last occurrence before p, if there is one. *)
LEMMA LastBeforeIs ==
  ASSUME NEW x, NEW p \in Nat, NEW c
  PROVE  /\ LastBefore(x, p, c) \in Nat
         /\ \A q \in 1 .. p - 1 : x[q] = c =>
              /\ q <= LastBefore(x, p, c)
              /\ LastBefore(x, p, c) \in 1 .. p - 1 /\ x[LastBefore(x, p, c)] = c
<1> DEFINE S == {0} \cup {q \in 1 .. p - 1 : x[q] = c}
           g == Greatest(S)
<1>1. S \subseteq 0 .. p /\ S # {}
  OBVIOUS
<1>2. g \in S /\ \A y \in S : y <= g
  <2> HIDE DEF S
  <2> QED BY <1>1, GreatestBounded
<1>3. LastBefore(x, p, c) = g
  BY DEF LastBefore
<1> HIDE DEF g
<1>4. \A q \in 1 .. p - 1 : x[q] = c => q <= g /\ g \in 1 .. p - 1 /\ x[g] = c
  <2> SUFFICES ASSUME NEW q \in 1 .. p - 1, x[q] = c
               PROVE  q <= g /\ g \in 1 .. p - 1 /\ x[g] = c
    OBVIOUS
  <2>1. q \in S
    OBVIOUS
  <2>2. q <= g
    <3> HIDE DEF S
    <3> QED BY <1>2, <2>1
  <2>3. g # 0
    BY <1>1, <1>2, <2>2
  <2> QED BY <1>2, <2>2, <2>3
<1> QED BY <1>1, <1>2, <1>3, <1>4

(* f[k]: the k-th cell of the second walk. *)
IsRightmost(f, a, b, text) ==
    /\ f \in [0 .. Len(text) -> Nat \X Nat]
    /\ f[0] = <<Len(a) + 1, Len(b) + 1>>
    /\ \A k \in 1 .. Len(text) :
         f[k] = <<LastBefore(a, f[k - 1][1], text[Len(text) + 1 - k]),
                  LastBefore(b, f[k - 1][2], text[Len(text) + 1 - k])>>

(* The second walk, over the text from its last character. *)
LEMMA RightmostWalked ==
  ASSUME NEW a \in Seq(Value), NEW b \in Seq(Value), NEW text \in Seq(Value)
  PROVE  \E f : IsRightmost(f, a, b, text) /\ Rightmost(a, b, text) = [k \in 1 .. Len(text) |-> f[k]]
<1> DEFINE N == Len(text)
           S == Nat \X Nat
           c == <<Len(a) + 1, Len(b) + 1>>
           op(k, v) == <<LastBefore(a, v[1], text[N + 1 - k]), LastBefore(b, v[2], text[N + 1 - k])>>
           Rec(f) == f = [k \in 0 .. N |-> IF k = 0 THEN c ELSE op(k, f[k - 1])]
           step == [k \in 1 .. N |-> [v \in S |-> op(k, v)]]
           fc == CHOOSE f : Rec(f)
<1>1. N \in Nat
  OBVIOUS
<1>2. \A k \in 1 .. N : \A v \in S : op(k, v) \in S
  <2> TAKE k \in 1 .. N
  <2> TAKE v \in S
  <2>1. v[1] \in Nat /\ v[2] \in Nat
    OBVIOUS
  <2>2. /\ LastBefore(a, v[1], text[N + 1 - k]) \in Nat
        /\ LastBefore(b, v[2], text[N + 1 - k]) \in Nat
    <3> HIDE DEF N
    <3> QED BY <2>1, LastBeforeIs
  <2> QED BY <2>2
<1>3. c \in S
  OBVIOUS
<1>4. Rightmost(a, b, text) = [k \in 1 .. N |-> fc[k]]
  BY Zenon DEF Rightmost
<1> HIDE DEF N, S, c, op
<1>5. PICK g : Made(g, N, S, c, step)
  <2>1. step \in [1 .. N -> [S -> S]]
    BY <1>2
  <2> HIDE DEF step
  <2> QED BY <2>1, <1>1, <1>3, Recursion
<1>6. g \in [0 .. N -> S] /\ g[0] = c /\ \A m \in 1 .. N : g[m] = op(m, g[m - 1])
  <2>1. g \in [0 .. N -> S] /\ g[0] = c /\ \A m \in 1 .. N : g[m] = step[m][g[m - 1]]
    <3> HIDE DEF step
    <3> QED BY <1>5 DEF Made
  <2>2. \A m \in 1 .. N : g[m - 1] \in S
    <3> TAKE m \in 1 .. N
    <3>1. m - 1 \in 0 .. N
      BY <1>1
    <3> QED BY <3>1, <2>1
  <2> QED BY <2>1, <2>2
<1>7. Rec(fc)
  <2>1. g = [k \in 0 .. N |-> g[k]]
    BY <1>6
  <2>2. \A k \in 0 .. N : g[k] = IF k = 0 THEN c ELSE op(k, g[k - 1])
    <3> TAKE k \in 0 .. N
    <3>1. k # 0 => k \in 1 .. N
      BY <1>1
    <3> QED BY <3>1, <1>6
  <2>3. Rec(g)
    BY <2>1, <2>2, Zenon
  <2> HIDE DEF Rec
  <2> QED BY <2>3
<1> HIDE DEF fc
<1>8. /\ fc = [k \in 0 .. N |-> fc[k]]
      /\ \A k \in 0 .. N : fc[k] = IF k = 0 THEN c ELSE op(k, fc[k - 1])
  BY <1>7, Zenon
<1> HIDE DEF step, Rec
<1>9. fc[0] = c /\ \A m \in 1 .. N : fc[m] = op(m, fc[m - 1])
  <2>1. 0 \in 0 .. N /\ \A m \in 1 .. N : m \in 0 .. N /\ m # 0
    BY <1>1
  <2> QED BY <2>1, <1>8
<1>10. \A k \in 0 .. N : fc[k] = g[k]
  <2>1. fc[0] = g[0]
    BY <1>6, <1>9
  <2>2. \A m \in 1 .. N : fc[m - 1] = g[m - 1] => fc[m] = g[m]
    BY <1>6, <1>9
  <2>3. Alike(fc, g, N)
    BY <2>1, <2>2 DEF Alike
  <2> QED BY <2>3, <1>1, AlikeChain
<1>11. fc \in [0 .. N -> S]
  <2>1. \A k \in 0 .. N : fc[k] \in S
    BY <1>6, <1>10
  <2> QED BY <2>1, <1>8
<1>12. IsRightmost(fc, a, b, text)
  BY <1>9, <1>11 DEF IsRightmost, N, S, c, op
<1> QED BY <1>4, <1>12 DEF N

(* The second walk is never to the left of the first, so it finds as much. *)
LEMMA RightmostMatches ==
  ASSUME NEW a \in Seq(Value), NEW b \in Seq(Value), NEW cells, Matching(cells, a, b),
         NEW text, text = Text(a, cells)
  PROVE  /\ Matching(Rightmost(a, b, text), a, b)
         /\ Text(a, Rightmost(a, b, text)) = text
<1> DEFINE K == Len(cells)
           R == Rightmost(a, b, text)
           ch(k) == text[K + 1 - k]
<1>1. /\ cells \in Seq(Nat \X Nat) /\ K \in Nat
      /\ \A k \in 1 .. K : /\ cells[k][1] \in 1 .. Len(a) /\ cells[k][2] \in 1 .. Len(b)
                           /\ a[cells[k][1]] = b[cells[k][2]]
      /\ \A k \in 2 .. K : cells[k][1] < cells[k - 1][1] /\ cells[k][2] < cells[k - 1][2]
  BY DEF Matching
<1>2. text \in Seq(Value) /\ Len(text) = K
  BY TextCommon
<1>3. text = [i \in 1 .. K |-> a[cells[K + 1 - i][1]]]
  BY DEF Text
<1> HIDE DEF K
<1>4. \A k \in 1 .. K : ch(k) = a[cells[k][1]] /\ ch(k) = b[cells[k][2]]
  <2> TAKE k \in 1 .. K
  <2> DEFINE i == K + 1 - k
  <2>1. i \in 1 .. K /\ K + 1 - i = k
    BY <1>1
  <2>2. text[i] = a[cells[K + 1 - i][1]]
    <3> HIDE DEF i
    <3> QED BY <2>1, <1>3
  <2>3. text[i] = a[cells[k][1]]
    BY <2>1, <2>2
  <2> QED BY <2>3, <1>1
<1>5. PICK f : IsRightmost(f, a, b, text) /\ R = [k \in 1 .. K |-> f[k]]
  <2>1. PICK f : IsRightmost(f, a, b, text) /\ Rightmost(a, b, text) = [k \in 1 .. Len(text) |-> f[k]]
    <3>1. text \in Seq(Value)
      BY <1>2
    <3> HIDE DEF R
    <3> QED BY <3>1, RightmostWalked
  <2>2. R = [k \in 1 .. K |-> f[k]]
    BY <1>2, <2>1
  <2> HIDE DEF R
  <2> QED BY <2>1, <2>2
<1>6. /\ f \in [0 .. K -> Nat \X Nat] /\ f[0] = <<Len(a) + 1, Len(b) + 1>>
      /\ \A k \in 1 .. K : f[k] = <<LastBefore(a, f[k - 1][1], ch(k)), LastBefore(b, f[k - 1][2], ch(k))>>
  BY <1>2, <1>5 DEF IsRightmost
<1> HIDE DEF R, ch
<1>7. Len(a) \in Nat /\ Len(b) \in Nat
  OBVIOUS
<1> DEFINE Good(k) ==
             /\ f[k][1] \in 1 .. Len(a) /\ f[k][2] \in 1 .. Len(b)
             /\ a[f[k][1]] = ch(k) /\ b[f[k][2]] = ch(k)
             /\ cells[k][1] <= f[k][1] /\ cells[k][2] <= f[k][2]
             /\ f[k][1] < f[k - 1][1] /\ f[k][2] < f[k - 1][2]
           G == {k \in Nat : k >= 1 => Good(k)}
<1>8. 0 \in G
  OBVIOUS
<1>9. \A k \in 0 .. K - 1 : k \in G => k + 1 \in G
  <2> TAKE k \in 0 .. K - 1
  <2> HAVE k \in G
  <2> DEFINE l == k + 1
             p == f[k][1]
             q == f[k][2]
             x == cells[l][1]
             y == cells[l][2]
             c == ch(l)
             g == LastBefore(a, p, c)
             h == LastBefore(b, q, c)
  <2>1. k \in 0 .. K /\ l \in 1 .. K /\ l - 1 = k /\ l \in Nat /\ l >= 1
    BY <1>1
  <2>2. x \in 1 .. Len(a) /\ y \in 1 .. Len(b) /\ a[x] = c /\ b[y] = c
    <3> HIDE DEF l
    <3> QED BY <1>1, <1>4, <2>1
  <2>3. p \in Nat /\ q \in Nat /\ p <= Len(a) + 1 /\ q <= Len(b) + 1 /\ x < p /\ y < q
    <3>1. CASE k = 0
      <4>1. p = Len(a) + 1 /\ q = Len(b) + 1
        BY <1>6, <3>1
      <4> HIDE DEF p, q, x, y
      <4> QED BY <4>1, <2>2, <1>7
    <3>2. CASE k # 0
      <4>1. k >= 1 /\ k \in 1 .. K /\ l \in 2 .. K
        BY <3>2, <1>1
      <4>2. Good(k)
        BY <4>1
      <4>3. /\ p \in 1 .. Len(a) /\ q \in 1 .. Len(b)
            /\ cells[k][1] <= p /\ cells[k][2] <= q
        BY <4>2
      <4>4. x < cells[k][1] /\ y < cells[k][2]
        <5>1. cells[l][1] < cells[l - 1][1] /\ cells[l][2] < cells[l - 1][2]
          <6> HIDE DEF l
          <6> QED BY <1>1, <4>1
        <5> QED BY <5>1, <2>1
      <4> DEFINE u == cells[k][1]
                 v == cells[k][2]
      <4>5. u \in 1 .. Len(a) /\ v \in 1 .. Len(b)
        BY <1>1, <4>1
      <4>6. u <= p /\ v <= q /\ x < u /\ y < v
        BY <4>3, <4>4
      <4> HIDE DEF p, q, x, y, u, v
      <4> QED BY <4>3, <4>5, <4>6, <2>2, <1>7
    <3> QED BY <3>1, <3>2
  <2>4. f[l] = <<g, h>>
    <3>1. f[l] = <<LastBefore(a, f[l - 1][1], ch(l)), LastBefore(b, f[l - 1][2], ch(l))>>
      <4> HIDE DEF l
      <4> QED BY <1>6, <2>1
    <3> QED BY <3>1, <2>1
  <2> HIDE DEF p, q, x, y, c
  <2>5. x <= g /\ g \in 1 .. p - 1 /\ a[g] = c
    <3>1. x \in 1 .. p - 1
      BY <2>2, <2>3
    <3> QED BY <3>1, <2>2, <2>3, LastBeforeIs
  <2>6. y <= h /\ h \in 1 .. q - 1 /\ b[h] = c
    <3>1. y \in 1 .. q - 1
      BY <2>2, <2>3
    <3> QED BY <3>1, <2>2, <2>3, LastBeforeIs
  <2> HIDE DEF g, h
  <2>7. g \in 1 .. Len(a) /\ h \in 1 .. Len(b) /\ g < p /\ h < q
    BY <1>7, <2>3, <2>5, <2>6
  <2>8. f[l][1] = g /\ f[l][2] = h
    BY <2>4
  <2>9. f[l - 1][1] = p /\ f[l - 1][2] = q
    BY <2>1 DEF p, q
  <2>10. Good(l)
    <3> HIDE DEF l
    <3> QED BY <2>5, <2>6, <2>7, <2>8, <2>9 DEF x, y, c
  <2> HIDE DEF Good
  <2> QED BY <2>1, <2>10
<1>10. \A k \in 1 .. K : Good(k)
  <2>1. 0 .. K \subseteq G
    <3> HIDE DEF G
    <3> QED BY <1>1, <1>8, <1>9, InductionUpTo
  <2>2. \A k \in 1 .. K : k \in 0 .. K /\ k >= 1
    BY <1>1
  <2> HIDE DEF Good
  <2> QED BY <2>1, <2>2
<1>11. R \in Seq(Nat \X Nat) /\ Len(R) = K /\ \A k \in 1 .. K : R[k] = f[k]
  <2>1. \A k \in 1 .. K : k \in 0 .. K
    BY <1>1
  <2>2. \A k \in 1 .. K : f[k] \in Nat \X Nat
    BY <2>1, <1>6
  <2>3. R \in [1 .. K -> Nat \X Nat]
    BY <2>2, <1>5
  <2>4. R \in Seq(Nat \X Nat) /\ Len(R) = K
    BY <1>1, <2>3
  <2>5. \A k \in 1 .. K : R[k] = f[k]
    BY <1>5
  <2> QED BY <2>4, <2>5
<1>12. Matching(R, a, b)
  <2>1. \A k \in 1 .. K : R[k][1] \in 1 .. Len(a) /\ R[k][2] \in 1 .. Len(b) /\ a[R[k][1]] = b[R[k][2]]
    <3> TAKE k \in 1 .. K
    <3>1. R[k] = f[k]
      BY <1>11
    <3>2. Good(k)
      <4> HIDE DEF Good
      <4> QED BY <1>10
    <3>3. /\ f[k][1] \in 1 .. Len(a) /\ f[k][2] \in 1 .. Len(b)
          /\ a[f[k][1]] = b[f[k][2]]
      BY <3>2
    <3> QED BY <3>1, <3>3
  <2>2. \A k \in 2 .. K : R[k][1] < R[k - 1][1] /\ R[k][2] < R[k - 1][2]
    <3> TAKE k \in 2 .. K
    <3>1. k \in 1 .. K /\ k - 1 \in 1 .. K
      BY <1>1
    <3>2. R[k] = f[k] /\ R[k - 1] = f[k - 1]
      BY <3>1, <1>11
    <3>3. Good(k)
      BY <3>1, <1>10
    <3> QED BY <3>2, <3>3
  <2> HIDE DEF Good
  <2> QED BY <1>11, <2>1, <2>2 DEF Matching
<1>13. Text(a, R) = text
  <2>1. Text(a, R) = [i \in 1 .. K |-> a[R[K + 1 - i][1]]]
    BY <1>11 DEF Text
  <2>2. \A i \in 1 .. K : a[R[K + 1 - i][1]] = text[i]
    <3> TAKE i \in 1 .. K
    <3> DEFINE k == K + 1 - i
    <3>1. k \in 1 .. K /\ K + 1 - k = i
      BY <1>1
    <3>2. a[R[k][1]] = ch(k)
      <4> HIDE DEF k
      <4> QED BY <3>1, <1>10, <1>11
    <3>3. ch(k) = text[i]
      <4>1. ch(k) = text[K + 1 - k]
        BY DEF ch
      <4> QED BY <3>1, <4>1
    <3> QED BY <3>2, <3>3
  <2>3. text = [i \in 1 .. K |-> text[i]]
    BY <1>3
  <2> QED BY <2>1, <2>2, <2>3
<1> QED BY <1>12, <1>13 DEF R

-----------------------------------------------------------------------------
(* One run ends before another begins. *)
Before(r, s) == r.a + r.cells <= s.a /\ r.b + r.cells <= s.b

(* Every run ends before all those that come earlier in the list begin. *)
LEMMA CutOrdered ==
  ASSUME NEW a \in Seq(Value), NEW b \in Seq(Value), NEW R, NEW i, NEW j, Cut(R, a, b, i, j),
         NEW p \in 1 .. Len(R), NEW o \in 1 .. Len(R), o < p
  PROVE  Before(R[p], R[o])
<1> DEFINE n == Len(R)
           N == n - (o + 1)
           G == {d \in Nat : Before(R[o + 1 + d], R[o])}
<1>1. /\ R \in Seq(Stretches) /\ n \in Nat /\ N \in Nat
      /\ \A k \in 1 .. n : R[k] \in Stretches
      /\ \A k \in 2 .. n : Before(R[k], R[k - 1])
  BY DEF Cut, Precedes, Before
<1>2. 0 \in G
  <2>1. o + 1 \in 2 .. n /\ (o + 1) - 1 = o /\ o + 1 + 0 = o + 1
    BY <1>1
  <2> DEFINE k == o + 1
  <2>2. Before(R[k], R[k - 1])
    <3> HIDE DEF k
    <3> QED BY <1>1, <2>1 DEF k
  <2> QED BY <2>1, <2>2
<1>3. \A d \in 0 .. N - 1 : d \in G => d + 1 \in G
  <2> TAKE d \in 0 .. N - 1
  <2> HAVE d \in G
  <2> DEFINE k == o + 1 + d
             l == o + 1 + (d + 1)
             r == R[l]
             s == R[k]
             t == R[o]
  <2>1. k \in 1 .. n /\ l \in 2 .. n /\ l \in 1 .. n /\ l - 1 = k /\ d + 1 \in Nat
    BY <1>1
  <2>2. r \in Stretches /\ s \in Stretches /\ t \in Stretches
    <3> HIDE DEF k, l
    <3> QED BY <1>1, <2>1
  <2>3. Before(r, s)
    <3>1. Before(R[l], R[l - 1])
      <4> HIDE DEF l
      <4> QED BY <1>1, <2>1
    <3> QED BY <3>1, <2>1
  <2>4. Before(s, t)
    OBVIOUS
  <2>5. Before(r, t)
    <3> HIDE DEF r, s, t
    <3> DEFINE m == r.a + r.cells
               u == r.b + r.cells
               x == s.a
               y == s.b
               z == s.cells
    <3>1. /\ m \in Nat /\ u \in Nat /\ x \in Nat
          /\ y \in Nat /\ z \in Nat /\ t.a \in Nat /\ t.b \in Nat
      <4>1. r.a \in Nat /\ r.b \in Nat /\ r.cells \in Nat
        BY <2>2 DEF Stretches
      <4>2. s.a \in Nat /\ s.b \in Nat /\ s.cells \in Nat
        BY <2>2 DEF Stretches
      <4>3. t.a \in Nat /\ t.b \in Nat
        BY <2>2 DEF Stretches
      <4>4. \A k1, k2 \in Nat : k1 + k2 \in Nat
        OBVIOUS
      <4>5. m \in Nat /\ u \in Nat
        BY <4>1, <4>4, Zenon
      <4> QED BY <4>2, <4>3, <4>5, Zenon
    <3>2. m <= x /\ u <= y /\ x + z <= t.a /\ y + z <= t.b
      BY <2>3, <2>4 DEF Before
    <3> HIDE DEF m, u, x, y, z
    <3>3. m <= t.a /\ u <= t.b
      <4>1. \A k1, k2, k3, k4 \in Nat : k1 <= k2 /\ k2 + k3 <= k4 => k1 <= k4
        OBVIOUS
      <4>2. z \in Nat
        BY <2>2 DEF Stretches, z
      <4> QED BY <3>1, <3>2, <4>1, <4>2, Zenon
    <3> QED BY <3>3 DEF Before, m, u
  <2> QED BY <2>1, <2>5
<1>4. 0 .. N \subseteq G
  <2> HIDE DEF G, N
  <2> QED BY <1>1, <1>2, <1>3, InductionUpTo
<1> DEFINE d == p - (o + 1)
<1>5. d \in 0 .. N /\ o + 1 + d = p
  BY <1>1
<1>6. Before(R[o + 1 + d], R[o])
  <2> HIDE DEF d, N
  <2> QED BY <1>4, <1>5
<1> QED BY <1>5, <1>6

(* Runs picked in order are runs in order. *)
LEMMA PickedRuns ==
  ASSUME NEW a \in Seq(Value), NEW b \in Seq(Value), NEW R, NEW i, NEW j, Cut(R, a, b, i, j),
         NEW least \in Nat
  PROVE  LET ms == Picked(R, {k \in DOMAIN R : R[k].cells >= least})
         IN /\ ms \in Seq(Stretches)
            /\ \A k \in 1 .. Len(ms) : Equal(ms[k], a, b) /\ ms[k].cells >= least
            /\ \A k \in 2 .. Len(ms) : Before(ms[k], ms[k - 1])
            /\ least = 1 => ms = R
<1> DEFINE n == Len(R)
           P == {k \in DOMAIN R : R[k].cells >= least}
           ms == Picked(R, P)
<1>1. R \in Seq(Stretches) /\ n \in Nat /\ DOMAIN R = 1 .. n /\ \A k \in 1 .. n : Equal(R[k], a, b)
  BY DEF Cut
<1>2. \A k \in P : k \in 1 .. n /\ R[k].cells >= least
  BY <1>1
<1>3. ms \in Seq(Stretches)
  BY <1>1, PickedFacts
<1>4. Len(ms) \in Nat
  BY <1>3
<1>5. \A k \in 1 .. Len(ms) : /\ Equal(ms[k], a, b) /\ ms[k].cells >= least
                              /\ k > 1 => Before(ms[k], ms[k - 1])
  <2> TAKE k \in 1 .. Len(ms)
  <2>1. PICK p \in P \cap (1 .. n) :
             /\ Count(P, p) = k /\ ms[k] = R[p]
             /\ k > 1 => \E o \in P \cap (1 .. n) :
                           Count(P, o) = k - 1 /\ o < p /\ ms[k - 1] = R[o]
    <3> HIDE DEF P
    <3> QED BY <1>1, PickedInOrder
  <2>2. k > 1 => Before(ms[k], ms[k - 1])
    <3> SUFFICES ASSUME k > 1 PROVE Before(ms[k], ms[k - 1])
      OBVIOUS
    <3>1. PICK o \in P \cap (1 .. n) : Count(P, o) = k - 1 /\ o < p /\ ms[k - 1] = R[o]
      BY <2>1
    <3> HIDE DEF P, ms
    <3>2. Before(R[p], R[o])
      BY <2>1, <3>1, CutOrdered
    <3> QED BY <2>1, <3>1, <3>2
  <2> HIDE DEF P, ms
  <2> QED BY <1>1, <1>2, <2>1, <2>2
<1>6. least = 1 => ms = R
  <2> SUFFICES ASSUME least = 1 PROVE ms = R
    OBVIOUS
  <2>1. \A k \in 1 .. n : k \in P
    BY <1>1 DEF Equal
  <2> HIDE DEF P
  <2>2. Stretch(P, n, 1, n)
    BY <1>1, <2>1 DEF Stretch
  <2>3. ms = SubSeq(R, 1, n)
    BY <1>1, <2>2, PickedStretch
  <2>4. SubSeq(R, 1, n) = R
    BY <1>1, SubSeqFull
  <2> QED BY <2>3, <2>4
<1> HIDE DEF ms
<1>7. \A k \in 2 .. Len(ms) : Before(ms[k], ms[k - 1])
  <2>1. \A k \in 2 .. Len(ms) : k \in 1 .. Len(ms) /\ k > 1
    BY <1>4
  <2> QED BY <1>5, <2>1
<1> QED BY <1>3, <1>5, <1>6, <1>7 DEF ms, P

-----------------------------------------------------------------------------
(* LCS *)

(* The walk back spells a longest common subsequence. *)
LEMMA LcsTextLongest ==
  ASSUME NEW a \in Seq(Value), NEW b \in Seq(Value)
  PROVE  LET text == Spelled(a, Runs(LcsPath(a, b)))
             common == Subsequences(a) \cap Subsequences(b)
             len == LcsTable(a, b)[Len(a)][Len(b)]
         IN /\ text = Text(a, LcsPath(a, b))
            /\ text \in common /\ Len(text) = len
            /\ \A s \in common : Len(s) <= len
<1> DEFINE cells == LcsPath(a, b)
           common == Subsequences(a) \cap Subsequences(b)
           T == LcsTable(a, b)
           len == T[Len(a)][Len(b)]
<1>1. Matching(cells, a, b) /\ Len(cells) = len
  BY PathMatches
<1> HIDE DEF cells
<1>2. Spelled(a, Runs(cells)) = Text(a, cells)
  BY <1>1, RunsOfMatching
<1>3. Text(a, cells) \in common /\ Len(Text(a, cells)) = Len(cells)
  <2> HIDE DEF len
  <2> QED BY <1>1, TextCommon
<1>4. IsTable(T, a, b)
  BY TableFilled
<1>5. \A s \in common : Len(s) <= len
  <2> HIDE DEF T
  <2> TAKE s \in common
  <2>1. s \in Seq(Value) /\ \E p : Places(p, s, a)
    BY PickedPlaces
  <2>2. \E p : Places(p, s, b)
    BY PickedPlaces
  <2>3. PICK p : Places(p, s, a)
    BY <2>1
  <2>4. PICK q : Places(q, s, b)
    BY <2>2
  <2>5. Len(s) \in Nat
    BY <2>1
  <2> QED BY <1>4, <2>3, <2>4, <2>5, TableLongest
<1> HIDE DEF common, len
<1>6. /\ Spelled(a, Runs(cells)) = Text(a, cells)
      /\ Spelled(a, Runs(cells)) \in common /\ Len(Spelled(a, Runs(cells))) = len
      /\ \A s \in common : Len(s) <= len
  BY <1>1, <1>2, <1>3, <1>5
<1> QED BY <1>6, Zenon DEF cells, common, len, T

(* The second walk, cut into runs, tells where that text stands. *)
LEMMA LcsRunsAlign ==
  ASSUME NEW a \in Seq(Value), NEW b \in Seq(Value), NEW least \in Nat \ {0}
  PROVE  LET text == Spelled(a, Runs(LcsPath(a, b)))
             R == Runs(Rightmost(a, b, text))
             ms == Picked(R, {k \in DOMAIN R : R[k].cells >= least})
         IN /\ ms \in Seq(Stretches)
            /\ \A k \in 1 .. Len(ms) : Equal(ms[k], a, b) /\ ms[k].cells >= least
            /\ \A k \in 2 .. Len(ms) : Before(ms[k], ms[k - 1])
            /\ least = 1 => \A k \in 2 .. Len(ms) : Precedes(ms[k], ms[k - 1])
            /\ least = 1 => Spelled(a, ms) = text
<1> DEFINE cells == LcsPath(a, b)
           text == Spelled(a, Runs(cells))
           right == Rightmost(a, b, text)
           R == Runs(right)
           ms == Picked(R, {k \in DOMAIN R : R[k].cells >= least})
<1>1. Matching(cells, a, b)
  BY PathMatches
<1>2. text = Text(a, cells)
  BY LcsTextLongest
<1> HIDE DEF cells, text
<1>3. Matching(right, a, b) /\ Text(a, right) = text
  BY <1>1, <1>2, RightmostMatches
<1> HIDE DEF right
<1>4. (\E i, j \in Nat : Cut(R, a, b, i, j)) /\ Spelled(a, R) = text
  BY <1>3, RunsOfMatching
<1>5. PICK i \in Nat, j \in Nat : Cut(R, a, b, i, j)
  BY <1>4
<1>6. \A k \in 2 .. Len(R) : Precedes(R[k], R[k - 1])
  BY <1>5 DEF Cut
<1> HIDE DEF R
<1>7. /\ ms \in Seq(Stretches)
      /\ \A k \in 1 .. Len(ms) : Equal(ms[k], a, b) /\ ms[k].cells >= least
      /\ \A k \in 2 .. Len(ms) : Before(ms[k], ms[k - 1])
      /\ least = 1 => ms = R
  BY <1>5, PickedRuns
<1> HIDE DEF ms
<1>8. /\ least = 1 => \A k \in 2 .. Len(ms) : Precedes(ms[k], ms[k - 1])
      /\ least = 1 => Spelled(a, ms) = text
  BY <1>4, <1>6, <1>7
<1> QED BY <1>7, <1>8, Zenon DEF ms, R, right, text, cells

(* A reply of LCS is exact. *)
LEMMA LcsHolds == ReplyInv => LcsExact
<1> SUFFICES ASSUME ReplyInv, reply.command = "LCS" PROVE LcsExact
  BY DEF LcsExact, LcsLongest, LcsIndexesAlign
<1>1. query \in Query /\ query.command = "LCS" /\ reply.result = Answered(query).result
  BY ReplyGiven
<1>2. reply.result = LCS(query)
  BY <1>1 DEF Answered
<1>3. query \in LcsQuery
  BY <1>1, QueryForms
<1> DEFINE a == query.a
           b == query.b
           least == query.minmatchlen
           text == Spelled(a, Runs(LcsPath(a, b)))
           len == LcsTable(a, b)[Len(a)][Len(b)]
           R == Runs(Rightmost(a, b, text))
           ms == Picked(R, {k \in DOMAIN R : R[k].cells >= least})
<1>4. a \in Seq(Value) /\ b \in Seq(Value) /\ least \in Nat \ {0}
  BY <1>3 DEF LcsQuery
<1>5. reply.result = [text |-> text, len |-> len, matches |-> ms]
  BY <1>2, Zenon DEF LCS
<1>6. reply.result.text = text /\ reply.result.len = len /\ reply.result.matches = ms
  <2> HIDE DEF text, len, ms
  <2> QED BY <1>5
<1>7. /\ text \in Subsequences(a) \cap Subsequences(b) /\ Len(text) = len
      /\ \A s \in Subsequences(a) \cap Subsequences(b) : Len(s) <= len
  <2> HIDE DEF a, b
  <2> QED BY <1>4, LcsTextLongest
<1>8. /\ ms \in Seq(Stretches)
      /\ \A k \in 1 .. Len(ms) : Equal(ms[k], a, b) /\ ms[k].cells >= least
      /\ \A k \in 2 .. Len(ms) : Before(ms[k], ms[k - 1])
      /\ least = 1 => \A k \in 2 .. Len(ms) : Precedes(ms[k], ms[k - 1])
      /\ least = 1 => Spelled(a, ms) = text
  <2> HIDE DEF a, b, least
  <2> QED BY <1>4, LcsRunsAlign, Zenon
<1> HIDE DEF text, len, ms, R
<1>9. LcsLongest
  BY <1>6, <1>7, Zenon DEF LcsLongest
<1>10. DOMAIN ms = 1 .. Len(ms)
  BY <1>8
<1>11. \A k \in DOMAIN ms :
         /\ ms[k].a >= 1 /\ ms[k].b >= 1 /\ ms[k].cells >= least
         /\ \A c \in 0 .. ms[k].cells - 1 : a[ms[k].a + c] = b[ms[k].b + c]
  <2> TAKE k \in DOMAIN ms
  <2>1. Equal(ms[k], a, b) /\ ms[k].cells >= least
    <3> HIDE DEF a, b, least
    <3> QED BY <1>8, <1>10
  <2> QED BY <2>1, Zenon DEF Equal
<1>12. \A k \in 2 .. Len(ms) :
         /\ ms[k].a + ms[k].cells <= ms[k - 1].a
         /\ ms[k].b + ms[k].cells <= ms[k - 1].b
         /\ least = 1 => ~(ms[k].a + ms[k].cells = ms[k - 1].a /\ ms[k].b + ms[k].cells = ms[k - 1].b)
  BY <1>8, Zenon DEF Before, Precedes
<1>13. LcsIndexesAlign
  BY <1>6, <1>8, <1>11, <1>12, Zenon DEF LcsIndexesAlign
<1> QED BY <1>9, <1>13 DEF LcsExact

(* What LCS answers -- the text, its length and, with IDX, its places in   *)
(* both strings -- is exact, whatever the strings.                         *)
THEOREM LcsIsExact == QuerySpec => []LcsExact
BY LcsHolds, AskedHolds, AnswerKept, PTL DEF QuerySpec
=============================================================================
