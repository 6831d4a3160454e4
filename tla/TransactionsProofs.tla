------------------------- MODULE TransactionsProofs -------------------------
(***************************************************************************)
(* EXEC's abort condition is exact for every number of connections, keys   *)
(* and commands, over any store that keeps the promise of Versioned.       *)
(***************************************************************************)
EXTENDS Transactions, SequenceTheorems, TLAPS

USE TransactionsAssumption

(* What a WATCH stamp still knows about a key no flush has hit: the        *)
(* generation only grows, a key cannot come to life under the watched      *)
(* generation, and a moved generation or liveness is exactly a disturbance.*)
StampExact(s, k) ==
    LET w == watched[s][k]
    IN /\ w = Unwatched => k \notin disturbed[s] /\ k \notin flushed[s]
       /\ (w # Unwatched /\ k \notin flushed[s]) =>
            /\ generation[k] >= w.generation
            /\ (generation[k] = w.generation /\ Live(k)) => w.live
            /\ k \in disturbed[s] <=> (generation[k] # w.generation \/ Live(k) # w.live)

IInv == TypeOK /\ NoLeftoverCommands /\ \A s \in Session, k \in Key : StampExact(s, k)

(* The inductive invariant implies the property. *)
LEMMA IInvExact == IInv => ExecAbortsExactly
<1> SUFFICES ASSUME IInv, NEW s \in Session, flushed[s] = {}
             PROVE  Dirty(s) <=> disturbed[s] # {}
  BY DEF ExecAbortsExactly
<1>1. \A k \in Key : StampExact(s, k)
  BY DEF IInv
<1>2. \A k \in Key : k \in disturbed[s] <=>
         /\ watched[s][k] # Unwatched
         /\ generation[k] # watched[s][k].generation \/ Live(k) # watched[s][k].live
  BY <1>1 DEF StampExact
<1>3. disturbed[s] \subseteq Key
  BY DEF IInv, TypeOK
<1> QED BY <1>2, <1>3 DEF Dirty

LEMMA InitIInv == Init => IInv
<1> SUFFICES ASSUME Init PROVE IInv
  OBVIOUS
<1>1. TypeOK
  BY DEF Init, S!Init, TypeOK, NoWatch
<1>2. NoLeftoverCommands
  BY DEF Init, NoLeftoverCommands
<1>3. \A s \in Session, k \in Key : StampExact(s, k)
  BY DEF Init, NoWatch, StampExact
<1> QED BY <1>1, <1>2, <1>3 DEF IInv

(* A store step keeps every stamp exact: a write moves the generation past *)
(* the stamp, a silent disappearance moves the liveness.                   *)
LEMMA StoreStep ==
    ASSUME IInv, UNCHANGED watched, content' \in [Key -> Content \cup {Absent}],
           generation' \in [Key -> Nat], NEW isFlush \in BOOLEAN, Record(isFlush),
           isFlush \/ S!Proceed
    PROVE  /\ disturbed' \in [Session -> SUBSET Key]
           /\ flushed' \in [Session -> SUBSET Key]
           /\ \A s \in Session, k \in Key : StampExact(s, k)'
<1>1. /\ disturbed' \in [Session -> SUBSET Key]
      /\ flushed' \in [Session -> SUBSET Key]
  BY DEF IInv, TypeOK, Record
<1>2. ASSUME NEW s \in Session, NEW k \in Key
      PROVE  StampExact(s, k)'
  <2>1. /\ StampExact(s, k) /\ TypeOK
        /\ watched[s][k] \in Stamp \cup {Unwatched}
        /\ generation[k] \in Nat /\ generation'[k] \in Nat
    BY DEF IInv, TypeOK
  <2>2. /\ k \in disturbed'[s] <=>
              (k \in disturbed[s] \/ (watched[s][k] # Unwatched /\ Changed(k)))
        /\ k \in flushed'[s] <=>
              (k \in flushed[s] \/ (isFlush /\ watched[s][k] # Unwatched))
    BY DEF Record
  <2>3. CASE watched[s][k] = Unwatched
    BY <2>1, <2>2, <2>3 DEF StampExact
  <2>4. CASE watched[s][k] # Unwatched /\ k \in flushed'[s]
    BY <2>4 DEF StampExact
  <2>5. CASE watched[s][k] # Unwatched /\ k \notin flushed'[s]
    <3>1. S!Proceed /\ k \notin flushed[s]
      BY <2>2, <2>5
    <3>2. /\ watched[s][k].generation \in Nat
          /\ watched[s][k].live \in BOOLEAN
      BY <2>1, <2>5 DEF Stamp
    <3>3. \/ generation'[k] > generation[k]
          \/ generation'[k] = generation[k] /\ content'[k] \in {content[k], Absent}
      BY <3>1 DEF S!Proceed
    <3>4. CASE generation'[k] > generation[k]
      BY <2>1, <2>2, <2>5, <3>1, <3>2, <3>4 DEF StampExact, Changed, Live
    <3>5. CASE generation'[k] = generation[k] /\ content'[k] = content[k]
      BY <2>1, <2>2, <2>5, <3>1, <3>2, <3>5 DEF StampExact, Changed, Live
    <3>6. CASE generation'[k] = generation[k] /\ content'[k] = Absent /\ content[k] # Absent
      BY <2>1, <2>2, <2>5, <3>1, <3>2, <3>6 DEF StampExact, Changed, Live
    <3> QED BY <3>3, <3>4, <3>5, <3>6
  <2> QED BY <2>3, <2>4, <2>5
<1> QED BY <1>1, <1>2

(* Dropping a session's watches leaves the others as they were. *)
LEMMA ForgetStep ==
    ASSUME IInv, NEW s \in Session, ClearWatched(s), ForgetHistory(s), UNCHANGED store
    PROVE  /\ watched' \in [Session -> [Key -> Stamp \cup {Unwatched}]]
           /\ disturbed' \in [Session -> SUBSET Key]
           /\ flushed' \in [Session -> SUBSET Key]
           /\ \A r \in Session, k \in Key : StampExact(r, k)'
<1>1. /\ watched' \in [Session -> [Key -> Stamp \cup {Unwatched}]]
      /\ disturbed' \in [Session -> SUBSET Key]
      /\ flushed' \in [Session -> SUBSET Key]
  BY DEF IInv, TypeOK, ClearWatched, ForgetHistory, NoWatch
<1>2. ASSUME NEW r \in Session, NEW k \in Key
      PROVE  StampExact(r, k)'
  <2>1. StampExact(r, k)
    BY DEF IInv
  <2>2. CASE r = s
    BY <2>2 DEF IInv, TypeOK, ClearWatched, ForgetHistory, NoWatch, StampExact
  <2>3. CASE r # s
    BY <2>1, <2>3 DEF IInv, TypeOK, ClearWatched, ForgetHistory, StampExact, store, Live
  <2> QED BY <2>2, <2>3
<1> QED BY <1>1, <1>2

(* A data command, a flush and an expiry are store steps. *)
LEMMA CommandStep ==
    ASSUME IInv, UNCHANGED watched,
           DataCommand \/ FlushCommand \/ \E k \in Key : Expire(k)
    PROVE  /\ content' \in [Key -> Content \cup {Absent}]
           /\ generation' \in [Key -> Nat]
           /\ epoch' \in Nat
           /\ disturbed' \in [Session -> SUBSET Key]
           /\ flushed' \in [Session -> SUBSET Key]
           /\ \A s \in Session, k \in Key : StampExact(s, k)'
<1>0. TypeOK
  BY DEF IInv
<1>1. CASE DataCommand
  <2>1. generation' \in [Key -> Nat]
    BY <1>0, <1>1 DEF DataCommand, TypeOK
  <2>2. content' \in [Key -> Content \cup {Absent}] /\ epoch' \in Nat
    BY <1>0, <1>1 DEF DataCommand, S!Proceed, TypeOK
  <2> QED BY <1>1, <2>1, <2>2, StoreStep DEF DataCommand
<1>2. CASE FlushCommand
  <2>1. /\ generation' \in [Key -> Nat] /\ epoch' \in Nat
        /\ content' \in [Key -> Content \cup {Absent}]
    BY <1>0, <1>2 DEF FlushCommand, S!Flush, TypeOK
  <2> QED BY <1>2, <2>1, StoreStep DEF FlushCommand
<1>3. CASE \E k \in Key : Expire(k)
  <2>1. /\ generation' \in [Key -> Nat] /\ epoch' \in Nat
        /\ content' \in [Key -> Content \cup {Absent}]
    BY <1>0, <1>3 DEF Expire, TypeOK
  <2>2. S!Proceed /\ Record(FALSE)
    BY <1>0, <1>3 DEF Expire, S!Proceed, TypeOK
  <2> QED BY <2>1, <2>2, StoreStep
<1> QED BY <1>1, <1>2, <1>3

(* Steps that leave watches, history and store alone. *)
LEMMA QuietStep ==
    ASSUME IInv, UNCHANGED <<store, watched, history>>
    PROVE  \A s \in Session, k \in Key : StampExact(s, k)'
BY DEF IInv, StampExact, store, history, Live

(* Taking the head of a queue empties it when it was the only command. *)
LEMMA TailFacts ==
    ASSUME NEW q \in Seq(Command), q # <<>>
    PROVE  Tail(q) \in Seq(Command) /\ (Len(q) = 1 <=> Tail(q) = <<>>)
<1>1. Tail(q) \in Seq(Command) /\ Len(q) \in Nat /\ Len(Tail(q)) = Len(q) - 1
  BY EmptySeq, HeadTailProperties
<1>2. Tail(q) = <<>> <=> Len(Tail(q)) = 0
  BY <1>1, EmptySeq
<1> QED BY <1>1, <1>2

LEMMA NextIInv == IInv /\ [Next]_vars => IInv'
<1> SUFFICES ASSUME IInv, [Next]_vars PROVE IInv'
  OBVIOUS
<1>0. TypeOK /\ NoLeftoverCommands
  BY DEF IInv
<1>1. CASE \E k \in Key : Expire(k)
  <2>1. UNCHANGED <<watched, in_multi, queue, running>>
    BY <1>1 DEF Expire, session
  <2> QED BY <1>0, <1>1, <2>1, CommandStep DEF IInv, TypeOK, NoLeftoverCommands
<1>2. ASSUME NEW s \in Session, NEW c \in Command, Direct(s, c)
      PROVE  IInv'
  <2>1. UNCHANGED <<in_multi, queue, running>>
    BY <1>2 DEF Direct
  <2>2. CASE UNCHANGED watched /\ (DataCommand \/ FlushCommand)
    BY <1>0, <2>1, <2>2, CommandStep DEF IInv, TypeOK, NoLeftoverCommands
  <2>3. CASE ClearWatched(s) /\ ForgetHistory(s) /\ UNCHANGED store
    BY <1>0, <2>1, <2>3, ForgetStep DEF IInv, TypeOK, NoLeftoverCommands, store
  <2> QED BY <1>2, <2>2, <2>3 DEF Direct
<1>3. ASSUME NEW s \in Session, NEW c \in Command, Queue(s, c)
      PROVE  IInv'
  <2>1. queue' \in [Session -> Seq(Command)]
    BY <1>0, <1>3 DEF Queue, TypeOK
  <2>2. UNCHANGED <<store, in_multi, watched, running, history>>
    BY <1>3 DEF Queue
  <2>3. NoLeftoverCommands'
    BY <1>0, <1>3, <2>2 DEF Queue, TypeOK, NoLeftoverCommands
  <2> QED BY <1>0, <2>1, <2>2, <2>3, QuietStep DEF IInv, TypeOK, store, history
<1>4. ASSUME NEW s \in Session, NEW K \in SUBSET Key, WATCH(s, K)
      PROVE  IInv'
  <2>1. UNCHANGED <<content, generation, epoch, in_multi, queue, running>>
    BY <1>4 DEF WATCH, store
  <2>2. \A k \in Key : [generation |-> generation[k], live |-> Live(k)] \in Stamp
    BY <1>0 DEF TypeOK, Stamp, Live
  <2>3. /\ watched' \in [Session -> [Key -> Stamp \cup {Unwatched}]]
        /\ \A r \in Session, k \in Key :
             watched'[r][k] = IF r = s /\ k \in K
                              THEN [generation |-> generation[k], live |-> Live(k)]
                              ELSE watched[r][k]
    BY <1>0, <1>4, <2>2 DEF WATCH, TypeOK
  <2>4. /\ disturbed' \in [Session -> SUBSET Key]
        /\ flushed' \in [Session -> SUBSET Key]
        /\ \A r \in Session : /\ disturbed'[r] = disturbed[r] \ (IF r = s THEN K ELSE {})
                               /\ flushed'[r] = flushed[r] \ (IF r = s THEN K ELSE {})
    BY <1>0, <1>4 DEF WATCH, TypeOK
  <2>5. ASSUME NEW r \in Session, NEW k \in Key
        PROVE  StampExact(r, k)'
    <3>1. StampExact(r, k) /\ Live(k)' = Live(k) /\ generation'[k] = generation[k]
          /\ generation[k] \in Nat
      BY <1>0, <2>1 DEF IInv, TypeOK, Live
    <3>2. CASE r = s /\ k \in K
      <4>1. watched'[r][k] = [generation |-> generation[k], live |-> Live(k)]
            /\ watched'[r][k] # Unwatched /\ k \notin disturbed'[r]
        BY <2>2, <2>3, <2>4, <3>2
      <4> QED BY <3>1, <4>1 DEF StampExact
    <3>3. CASE ~(r = s /\ k \in K)
      <4>1. /\ watched'[r][k] = watched[r][k]
            /\ k \in disturbed'[r] <=> k \in disturbed[r]
            /\ k \in flushed'[r] <=> k \in flushed[r]
        BY <2>3, <2>4, <3>3
      <4> QED BY <3>1, <4>1 DEF StampExact
    <3> QED BY <3>2, <3>3
  <2> QED BY <1>0, <2>1, <2>3, <2>4, <2>5 DEF IInv, TypeOK, NoLeftoverCommands
<1>5. ASSUME NEW s \in Session, MULTI(s)
      PROVE  IInv'
  <2>1. UNCHANGED <<store, watched, running, history>>
    BY <1>5 DEF MULTI
  <2>2. in_multi' \in [Session -> BOOLEAN] /\ queue' \in [Session -> Seq(Command)]
    BY <1>0, <1>5 DEF MULTI, TypeOK
  <2>3. NoLeftoverCommands'
    BY <1>0, <1>5, <2>1 DEF MULTI, TypeOK, NoLeftoverCommands
  <2> QED BY <1>0, <2>1, <2>2, <2>3, QuietStep DEF IInv, TypeOK, store, history
<1>6. ASSUME NEW s \in Session, DISCARD(s) \/ EXEC(s) \/ Reconnect(s)
      PROVE  IInv'
  <2>1. ClearWatched(s) /\ ForgetHistory(s) /\ UNCHANGED store
    BY <1>6 DEF DISCARD, EXEC, Reconnect
  <2>2. /\ in_multi' \in [Session -> BOOLEAN] /\ queue' \in [Session -> Seq(Command)]
        /\ running' \in Session \cup {Nobody}
    <3>1. /\ queue' \in {queue, [queue EXCEPT ![s] = <<>>]}
          /\ in_multi' = [in_multi EXCEPT ![s] = FALSE]
          /\ running' \in {s, running, Nobody}
      BY <1>6 DEF DISCARD, EXEC, Reconnect
    <3>2. in_multi' \in [Session -> BOOLEAN]
      BY <1>0, <3>1 DEF TypeOK
    <3>3. queue' \in [Session -> Seq(Command)]
      <4>1. queue \in [Session -> Seq(Command)] /\ <<>> \in Seq(Command)
        BY <1>0, EmptySeq DEF TypeOK
      <4>2. [queue EXCEPT ![s] = <<>>] \in [Session -> Seq(Command)]
        BY <4>1
      <4> QED BY <3>1, <4>1, <4>2
    <3>4. running' \in Session \cup {Nobody}
      BY <1>0, <3>1 DEF TypeOK
    <3> QED BY <3>2, <3>3, <3>4
  <2>3. NoLeftoverCommands'
    <3>1. /\ \A r \in Session : r # s => queue'[r] = queue[r] /\ in_multi'[r] = in_multi[r]
          /\ in_multi'[s] = FALSE /\ running = Nobody
          /\ \/ queue'[s] = <<>> /\ running' = Nobody
             \/ queue'[s] # <<>> /\ running' = s
      BY <1>0, <1>6 DEF DISCARD, EXEC, Reconnect, TypeOK
    <3>2. s # Nobody
      BY TransactionsAssumption
    <3>3. \A r \in Session : queue[r] # <<>> => in_multi[r]
      BY <1>0, <3>1, TransactionsAssumption DEF NoLeftoverCommands
    <3>4. ASSUME NEW r \in Session
          PROVE  /\ queue'[r] # <<>> => (in_multi'[r] \/ running' = r)
                 /\ running' = r => ~in_multi'[r] /\ queue'[r] # <<>>
      <4>1. CASE r = s
        BY <3>1, <3>2, <4>1
      <4>2. CASE r # s
        BY <3>1, <3>3, <4>2, TransactionsAssumption
      <4> QED BY <4>1, <4>2
    <3> QED BY <3>4 DEF NoLeftoverCommands
  <2> QED BY <1>0, <2>1, <2>2, <2>3, ForgetStep DEF IInv, TypeOK, store
<1>7. ASSUME NEW s \in Session, Replay(s)
      PROVE  IInv'
  <2>1. queue[s] # <<>> /\ queue[s] \in Seq(Command) /\ ~in_multi[s] /\ running = s
    BY <1>0, <1>7 DEF Replay, TypeOK, NoLeftoverCommands
  <2>2. /\ queue' = [queue EXCEPT ![s] = Tail(queue[s])]
        /\ running' = IF Len(queue[s]) = 1 THEN Nobody ELSE s
        /\ in_multi' = in_multi
    BY <1>7 DEF Replay
  <2>3. /\ Tail(queue[s]) \in Seq(Command)
        /\ Len(queue[s]) = 1 <=> Tail(queue[s]) = <<>>
    BY <2>1, TailFacts
  <2>4. queue' \in [Session -> Seq(Command)] /\ running' \in Session \cup {Nobody}
    BY <1>0, <2>2, <2>3 DEF TypeOK
  <2>5. NoLeftoverCommands'
    <3>1. ASSUME NEW r \in Session, r # s
          PROVE  queue'[r] = queue[r] /\ (queue[r] # <<>> => in_multi[r])
      BY <1>0, <2>1, <2>2, <3>1 DEF TypeOK, NoLeftoverCommands
    <3>2. queue'[s] = Tail(queue[s])
      BY <1>0, <2>2 DEF TypeOK
    <3> QED BY <2>1, <2>2, <2>3, <3>1, <3>2 DEF NoLeftoverCommands
  <2>6. CASE UNCHANGED watched /\ (DataCommand \/ FlushCommand)
    BY <1>0, <2>2, <2>4, <2>5, <2>6, CommandStep DEF IInv, TypeOK
  <2>7. CASE ClearWatched(s) /\ ForgetHistory(s) /\ UNCHANGED store
    BY <1>0, <2>2, <2>4, <2>5, <2>7, ForgetStep DEF IInv, TypeOK, store
  <2> QED BY <1>7, <2>6, <2>7 DEF Replay
<1>8. CASE UNCHANGED vars
  BY <1>0, <1>8, QuietStep
     DEF vars, store, session, history, IInv, TypeOK, NoLeftoverCommands
<1> QED BY <1>1, <1>2, <1>3, <1>4, <1>5, <1>6, <1>7, <1>8 DEF Next

(* The invariant, of every behaviour. *)
LEMMA Invariance == Spec => []IInv
BY InitIInv, NextIInv, PTL DEF Spec

(* The sessions stay well formed. *)
THEOREM TransactionsTypeCorrect == Spec => []TypeOK
<1>1. IInv => TypeOK
  BY DEF IInv
<1> QED BY <1>1, Invariance, PTL

(* EXEC aborts exactly when a watched key was disturbed and none flushed. *)
THEOREM ExecExact == Spec => []ExecAbortsExactly
BY IInvExact, Invariance, PTL

(* No queued command outlives its transaction. *)
THEOREM NoLeftovers == Spec => []NoLeftoverCommands
<1>1. IInv => NoLeftoverCommands
  BY DEF IInv
<1> QED BY <1>1, Invariance, PTL
=============================================================================
