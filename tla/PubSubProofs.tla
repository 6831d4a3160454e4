---------------------------- MODULE PubSubProofs ----------------------------
(***************************************************************************)
(* The hub and the sessions agree, messages are delivered exactly, and no  *)
(* replayed command leaves a hole in EXEC's array, for every set of        *)
(* connections, channels and patterns.                                     *)
(***************************************************************************)
EXTENDS PubSub, SequenceTheorems, TLAPS

USE PubSubAssumption

(* Facts about the session that is replaying, and about closed sessions.   *)
SessionInv ==
    /\ \A s \in Session : s \notin connected => subs[s] = {}
    /\ \A s \in Session : running = s =>
          s \in connected /\ queue[s] # <<>> /\ ~in_multi[s]

Inv == /\ TypeOK /\ SessionInv /\ HubMirrorsSessions
       /\ DeliveryExact /\ SubscribedNeverInMulti /\ ExecAnswersAll

LEMMA CommandType ==
    ASSUME NEW cmd \in Command
    PROVE  /\ cmd.op \in Op
           /\ cmd.op \in Join => cmd.arg \subseteq Name /\ cmd.arg # {}
           /\ cmd.op \in Leave => cmd.arg \subseteq Name
           /\ cmd.op = "PUBLISH" => cmd.arg \subseteq Channel
           /\ cmd.op = "CONFIG" => cmd.arg \subseteq Flag
<1>1. cmd.op \in Op
  BY DEF Command, Op, Join, Leave
<1>2. cmd.op \in Join => cmd.arg \subseteq Name /\ cmd.arg # {}
  <2>1. cmd.op = "SUBSCRIBE" => cmd.arg \subseteq Channel /\ cmd.arg # {}
    <3> DEFINE some == (SUBSET Channel) \ {{}}
    <3>1. \A x \in some : x \subseteq Channel /\ x # {}
      OBVIOUS
    <3>2. cmd.op = "SUBSCRIBE" => cmd \in [op: {"SUBSCRIBE"}, arg: some]
      BY DEF Command
    <3> HIDE DEF some
    <3>3. cmd.op = "SUBSCRIBE" => cmd.arg \in some
      BY <3>2
    <3> QED BY <3>1, <3>3
  <2>2. cmd.op = "PSUBSCRIBE" => cmd.arg \subseteq Pattern /\ cmd.arg # {}
    <3> DEFINE some == (SUBSET Pattern) \ {{}}
    <3>1. \A x \in some : x \subseteq Pattern /\ x # {}
      OBVIOUS
    <3>2. cmd.op = "PSUBSCRIBE" => cmd \in [op: {"PSUBSCRIBE"}, arg: some]
      BY DEF Command
    <3> HIDE DEF some
    <3>3. cmd.op = "PSUBSCRIBE" => cmd.arg \in some
      BY <3>2
    <3> QED BY <3>1, <3>3
  <2> QED BY <2>1, <2>2 DEF Join, Name
<1>3. cmd.op \in Leave => cmd.arg \subseteq Name
  BY DEF Command, Leave, Name
<1>4. cmd.op = "PUBLISH" => cmd.arg \subseteq Channel
  BY DEF Command
<1>5. cmd.op = "CONFIG" => cmd.arg \subseteq Flag
  BY DEF Command
<1> QED BY <1>1, <1>2, <1>3, <1>4, <1>5

LEMMA TableType == ASSUME NEW op PROVE Table(op) \subseteq Name
BY DEF Table, Name

(* What Added does to a hub that mirrors the sessions. *)
LEMMA AddedMirrors ==
    ASSUME TypeOK, HubMirrorsSessions, NEW s \in connected, NEW N \in SUBSET Name,
           subs' = [subs EXCEPT ![s] = @ \cup N], hub' = Added(s, N), connected' = connected
    PROVE  /\ HubMirrorsSessions'
           /\ DOMAIN hub' \subseteq Name /\ hub' \in [DOMAIN hub' -> SUBSET Session]
           /\ subs' \in [Session -> SUBSET Name]
<1>1. s \in Session /\ connected \subseteq Session /\ subs \in [Session -> SUBSET Name]
  BY DEF TypeOK
<1>2. \A t \in Session : subs'[t] = IF t = s THEN subs[t] \cup N ELSE subs[t]
  BY <1>1
<1>3. subs' \in [Session -> SUBSET Name]
  BY <1>1
<1>4. /\ DOMAIN hub' = DOMAIN hub \cup N
      /\ hub' = [n \in DOMAIN hub \cup N |-> hub'[n]]
      /\ \A n \in DOMAIN hub \cup N :
            hub'[n] = (IF n \in DOMAIN hub THEN hub[n] ELSE {}) \cup (IF n \in N THEN {s} ELSE {})
  BY DEF Added
<1>5. DOMAIN hub' = {n \in Name : \E t \in connected : n \in subs'[t]}
  BY <1>1, <1>2, <1>4 DEF HubMirrorsSessions
<1>6. ASSUME NEW n \in DOMAIN hub'
      PROVE  hub'[n] = {t \in connected : n \in subs'[t]}
  <2>1. CASE n \in DOMAIN hub
    BY <1>1, <1>2, <1>4, <2>1 DEF HubMirrorsSessions
  <2>2. CASE n \notin DOMAIN hub
    <3>1. n \in N /\ hub'[n] = {s}
      BY <1>4, <2>2
    <3>2. \A t \in connected : n \notin subs[t]
      BY <2>2, <3>1 DEF HubMirrorsSessions
    <3> QED BY <1>1, <1>2, <3>1, <3>2
  <2> QED BY <2>1, <2>2
<1>7. HubMirrorsSessions'
  BY <1>5, <1>6 DEF HubMirrorsSessions
<1>8. hub' \in [DOMAIN hub' -> SUBSET Session]
  BY <1>1, <1>4, <1>6
<1> QED BY <1>3, <1>5, <1>7, <1>8

(* Removed, for a session that stays (N some names) or goes (all of them). *)
LEMMA RemovedMirrors ==
    ASSUME TypeOK, HubMirrorsSessions, NEW s \in connected, NEW N,
           subs' \in [Session -> SUBSET Name],
           \A t \in Session : t # s => subs'[t] = subs[t],
           hub' = Removed(s, N),
           connected' \subseteq connected, connected \subseteq connected' \cup {s},
           \/ s \in connected' /\ subs'[s] = subs[s] \ N
           \/ s \notin connected' /\ N = DOMAIN hub
    PROVE  /\ HubMirrorsSessions'
           /\ DOMAIN hub' \subseteq Name /\ hub' \in [DOMAIN hub' -> SUBSET Session]
<1>1. s \in Session /\ connected \subseteq Session /\ subs \in [Session -> SUBSET Name]
  BY DEF TypeOK
<1>2. /\ DOMAIN hub' = {m \in DOMAIN hub : m \notin N \/ hub[m] \ {s} # {}}
      /\ hub' = [n \in DOMAIN hub' |-> hub'[n]]
      /\ \A n \in DOMAIN hub' : hub'[n] = IF n \in N THEN hub[n] \ {s} ELSE hub[n]
  BY DEF Removed
<1>3. \A n \in DOMAIN hub : hub[n] = {t \in connected : n \in subs[t]} /\ hub[n] # {}
  BY DEF HubMirrorsSessions
<1>4. ASSUME NEW n \in DOMAIN hub
      PROVE  {t \in connected' : n \in subs'[t]} = IF n \in N THEN hub[n] \ {s} ELSE hub[n]
  <2>1. \A t \in Session : t # s =>
            ((t \in connected' /\ n \in subs'[t]) <=> (t \in connected /\ n \in subs[t]))
    OBVIOUS
  <2>2. (s \in connected' /\ n \in subs'[s]) <=> (n \notin N /\ n \in subs[s])
    BY <1>1
  <2>3. \A t : t \in hub[n] <=> (t \in connected /\ n \in subs[t])
    BY <1>3
  <2> QED BY <1>1, <2>1, <2>2, <2>3
<1>5. ASSUME NEW n \in Name, n \notin DOMAIN hub, NEW t \in connected'
      PROVE  n \notin subs'[t]
  <2>1. \A u \in connected : n \notin subs[u]
    BY <1>5 DEF HubMirrorsSessions
  <2> QED BY <1>1, <2>1
<1>6. \A n \in DOMAIN hub' : hub'[n] = {t \in connected' : n \in subs'[t]}
  BY <1>2, <1>4
<1>7. DOMAIN hub' = {n \in Name : \E t \in connected' : n \in subs'[t]}
  <2>1. \A n \in DOMAIN hub : n \in DOMAIN hub' <=> {t \in connected' : n \in subs'[t]} # {}
    BY <1>2, <1>3, <1>4
  <2>2. DOMAIN hub \subseteq Name
    BY DEF TypeOK
  <2> QED BY <1>2, <1>5, <2>1, <2>2
<1>8. HubMirrorsSessions'
  BY <1>6, <1>7 DEF HubMirrorsSessions
<1>9. hub' \in [DOMAIN hub' -> SUBSET Session]
  BY <1>1, <1>2, <1>6
<1> QED BY <1>7, <1>8, <1>9

(* When hub and sessions agree, publishing reaches exactly the holders. *)
LEMMA FanoutExact ==
    ASSUME TypeOK, HubMirrorsSessions, NEW C \in SUBSET Channel
    PROVE  /\ Fanout(C) = {m \in connected \X Name \X C :
                              m[2] \in subs[m[1]] /\ Matches(m[2], m[3])}
           /\ Fanout(C) \subseteq Session \X Name \X Channel
<1>1. connected \subseteq Session
  BY DEF TypeOK
<1>2. \A n \in Name, t \in Session :
         (n \in DOMAIN hub /\ t \in hub[n]) <=> (t \in connected /\ n \in subs[t])
  BY DEF HubMirrorsSessions
<1>3. \A m : m \in Fanout(C) <=>
               (/\ m \in connected \X Name \X C
                /\ m[2] \in subs[m[1]] /\ Matches(m[2], m[3]))
  BY <1>1, <1>2 DEF Fanout
<1> QED BY <1>1, <1>3 DEF Fanout

(* The frames sent are due ones to live sessions, and a live session that  *)
(* gets none has a closed one to blame that does not come after it.        *)
LEMMA SentExact ==
    ASSUME NEW due, NEW sent \in Sent(due)
    PROVE  /\ sent \subseteq due \ Raising(due)
           /\ \A m \in due \ Raising(due) :
                 m \notin sent => \E d \in Raising(due) : ~Earlier(m, d)
<1>1. CASE Raising(due) = {}
  BY <1>1 DEF Sent
<1>2. CASE Raising(due) # {}
  <2>1. /\ sent \subseteq due \ Raising(due)
        /\ \E d \in Raising(due) : \A m \in due : Earlier(m, d) => m \in sent
    BY <1>2, Zenon DEF Sent
  <2> QED BY <2>1
<1> QED BY <1>1, <1>2

(* Where nothing is published, nothing is due, sent or owed. *)
LEMMA NothingIsExact ==
    ASSUME NEW on, on = {}
    PROVE  /\ {m \in connected \X Name \X on : m[2] \in subs[m[1]] /\ Matches(m[2], m[3])} = {}
           /\ Fanout(on) = {} /\ Raising({}) = {} /\ Sent({}) = {{}}
<1>1. Raising({}) = {}
  BY DEF Raising
<1>2. Sent({}) = {{}}
  BY <1>1 DEF Sent
<1>3. Fanout(on) = {}
  BY DEF Fanout
<1> QED BY <1>1, <1>2, <1>3

(* A step whose record of what it sent says nothing. *)
LEMMA SilentIsExact ==
    ASSUME last'.on = {}, last'.messages = {}, last'.failed = FALSE
    PROVE  DeliveryExact'
<1>1. Owed' = {}
  BY DEF Owed
<1>2. Raising(Owed)' = {}
  BY <1>1 DEF Raising
<1> QED BY <1>1, <1>2 DEF DeliveryExact

(* What a handler that publishes on C sends is what it owes. *)
LEMMA RanDelivers ==
    ASSUME TypeOK, HubMirrorsSessions, NEW C \in SUBSET Channel, NEW confirmed, NEW reply,
           Ran(C, confirmed, reply), UNCHANGED <<connected, closed, subs>>
    PROVE  /\ DeliveryExact' /\ last'.reply = reply /\ last'.confirmed = confirmed
           /\ last'.messages \subseteq Session \X Name \X Channel /\ last'.failed \in BOOLEAN
<1>1. PICK sent \in Sent(Fanout(C)) :
         last' = [on |-> C, messages |-> sent, confirmed |-> confirmed, reply |-> reply,
                  failed |-> Raising(Fanout(C)) # {}]
  BY DEF Ran
<1>2. /\ last'.on = C /\ last'.messages = sent /\ last'.failed = (Raising(Fanout(C)) # {})
      /\ last'.reply = reply /\ last'.confirmed = confirmed
  BY <1>1
<1>3. Owed' = Fanout(C) /\ Fanout(C) \subseteq Session \X Name \X Channel
  BY <1>2, FanoutExact DEF Owed
<1>4. Raising(Owed)' = Raising(Fanout(C))
  BY <1>3 DEF Raising
<1>5. /\ sent \subseteq Fanout(C) \ Raising(Fanout(C))
      /\ \A m \in Fanout(C) \ Raising(Fanout(C)) :
            m \notin sent => \E d \in Raising(Fanout(C)) : ~Earlier(m, d)
  BY SentExact
<1>6. DeliveryExact'
  <2> DEFINE due == Fanout(C)
             raising == Raising(Fanout(C))
             owed == Owed'
             refused == Raising(Owed)'
  <2>1. /\ owed = due /\ refused = raising /\ last'.messages = sent
        /\ last'.failed = (raising # {})
    BY <1>2, <1>3, <1>4
  <2>2. /\ sent \subseteq due \ raising
        /\ \A m \in due \ raising : m \notin sent => \E d \in raising : ~Earlier(m, d)
    BY <1>5
  <2>3. DeliveryExact' <=>
          /\ last'.messages \subseteq owed \ refused
          /\ last'.failed <=> refused # {}
          /\ \A m \in owed \ refused :
                m \notin last'.messages => \E d \in refused : ~Earlier(m, d)
    BY DEF DeliveryExact, Earlier
  <2> HIDE DEF due, raising, owed, refused
  <2> QED BY <2>1, <2>2, <2>3
<1> QED BY <1>2, <1>3, <1>5, <1>6


LEMMA InitInv == Init => Inv
<1> SUFFICES ASSUME Init PROVE Inv
  OBVIOUS
<1>1. <<>> \in Seq(Command) /\ <<>> \in Seq({"push", "reply", "None"})
  BY EmptySeq
<1>2. TypeOK
  BY <1>1 DEF Init, TypeOK, Nothing
<1>3. SessionInv /\ HubMirrorsSessions /\ SubscribedNeverInMulti
  BY DEF Init, SessionInv, HubMirrorsSessions, SubscribedNeverInMulti, Subscribed
<1>4. DeliveryExact
  BY NothingIsExact DEF Init, DeliveryExact, Owed, Raising, Nothing
<1>5. ExecAnswersAll
  BY DEF Init, ExecAnswersAll
<1> QED BY <1>2, <1>3, <1>4, <1>5 DEF Inv

(* One handler run for a connected session outside MULTI: what it keeps,   *)
(* and that it leaves something to put in EXEC's array.                    *)
LEMMA ExecuteKeeps ==
    ASSUME Inv, NEW s \in connected, NEW cmd \in Command, Execute(s, cmd),
           ~in_multi[s], UNCHANGED <<connected, closed, in_multi>>
    PROVE  /\ HubMirrorsSessions' /\ DeliveryExact' /\ SubscribedNeverInMulti'
           /\ DOMAIN hub' \subseteq Name /\ hub' \in [DOMAIN hub' -> SUBSET Session]
           /\ subs' \in [Session -> SUBSET Name]
           /\ \A t \in Session : t \notin connected => subs'[t] = {}
           /\ notify' \subseteq Flag
           /\ last'.messages \subseteq Session \X Name \X Channel /\ last'.failed \in BOOLEAN
           /\ last'.confirmed # {} \/ last'.reply
<1>0. /\ TypeOK /\ SessionInv /\ HubMirrorsSessions /\ SubscribedNeverInMulti
      /\ s \in Session /\ subs \in [Session -> SUBSET Name] /\ notify \subseteq Flag
  BY DEF Inv, TypeOK
<1>1. CASE Subscribe(s, cmd)
  <2>1. cmd.arg \in SUBSET Name /\ cmd.arg # {}
    BY <1>1, CommandType DEF Subscribe
  <2>2. /\ subs' = [subs EXCEPT ![s] = @ \cup cmd.arg] /\ hub' = Added(s, cmd.arg)
        /\ notify' = notify
        /\ last' = [on |-> {}, messages |-> {}, confirmed |-> cmd.arg, reply |-> FALSE,
                    failed |-> FALSE]
    BY <1>1, NothingIsExact DEF Subscribe, Ran
  <2>3. last'.messages = {} /\ last'.on = {} /\ last'.confirmed # {} /\ last'.failed = FALSE
    BY <2>1, <2>2
  <2>4. DeliveryExact'
    BY <2>3, SilentIsExact
  <2>5. SubscribedNeverInMulti' /\ \A t \in Session : t \notin connected => subs'[t] = {}
    BY <1>0, <2>2 DEF SubscribedNeverInMulti, Subscribed, SessionInv
  <2> QED BY <1>0, <2>1, <2>2, <2>3, <2>4, <2>5, AddedMirrors
<1>2. CASE Unsubscribe(s, cmd)
  <2> DEFINE N == IF cmd.arg = {} THEN subs[s] \cap Table(cmd.op) ELSE cmd.arg
  <2>1. /\ subs' = [subs EXCEPT ![s] = @ \ N] /\ hub' = Removed(s, N) /\ notify' = notify
        /\ last' = [on |-> {}, messages |-> {}, confirmed |-> IF N = {} THEN {Null} ELSE N,
                    reply |-> FALSE, failed |-> FALSE]
    BY <1>2, NothingIsExact DEF Unsubscribe, Ran
  <2> HIDE DEF N
  <2>2. last'.messages = {} /\ last'.on = {} /\ last'.confirmed # {} /\ last'.failed = FALSE
    BY <2>1
  <2>3. DeliveryExact'
    BY <2>2, SilentIsExact
  <2>4. SubscribedNeverInMulti' /\ \A t \in Session : t \notin connected => subs'[t] = {}
    BY <1>0, <2>1 DEF SubscribedNeverInMulti, Subscribed, SessionInv
  <2>5. /\ subs' \in [Session -> SUBSET Name]
        /\ \A t \in Session : t # s => subs'[t] = subs[t]
        /\ subs'[s] = subs[s] \ N /\ s \in connected'
    BY <1>0, <2>1
  <2>6. connected' \subseteq connected /\ connected \subseteq connected' \cup {s}
    OBVIOUS
  <2>7. /\ HubMirrorsSessions' /\ DOMAIN hub' \subseteq Name
        /\ hub' \in [DOMAIN hub' -> SUBSET Session]
    BY <1>0, <2>1, <2>5, <2>6, RemovedMirrors
  <2> QED BY <1>0, <2>1, <2>2, <2>3, <2>4, <2>5, <2>7
<1>3. ASSUME NEW C \in SUBSET Channel, UNCHANGED <<subs, hub>>, notify' \subseteq Flag,
             Ran(C, {}, TRUE)
      PROVE  /\ HubMirrorsSessions' /\ DeliveryExact' /\ SubscribedNeverInMulti'
             /\ DOMAIN hub' \subseteq Name /\ hub' \in [DOMAIN hub' -> SUBSET Session]
             /\ subs' \in [Session -> SUBSET Name]
             /\ \A t \in Session : t \notin connected => subs'[t] = {}
             /\ notify' \subseteq Flag
             /\ last'.messages \subseteq Session \X Name \X Channel /\ last'.failed \in BOOLEAN
             /\ last'.confirmed # {} \/ last'.reply
  <2>1. /\ DeliveryExact' /\ last'.reply
        /\ last'.messages \subseteq Session \X Name \X Channel /\ last'.failed \in BOOLEAN
    BY <1>0, <1>3, RanDelivers
  <2>2. HubMirrorsSessions' /\ SubscribedNeverInMulti'
    BY <1>0, <1>3 DEF HubMirrorsSessions, SubscribedNeverInMulti, Subscribed
  <2>4. \A t \in Session : t \notin connected => subs'[t] = {}
    BY <1>0, <1>3 DEF SessionInv
  <2>5. /\ DOMAIN hub' \subseteq Name /\ hub' \in [DOMAIN hub' -> SUBSET Session]
        /\ subs' \in [Session -> SUBSET Name]
    BY <1>0, <1>3 DEF TypeOK
  <2> QED BY <1>3, <2>1, <2>2, <2>4, <2>5
<1>4. CASE PUBLISH(s, cmd)
  BY <1>0, <1>3, <1>4, CommandType DEF PUBLISH
<1>5. CASE DataCommand(s, cmd)
  <2>1. {EventChannel[f] : f \in notify} \in SUBSET Channel
    BY <1>0
  <2> QED BY <1>0, <1>3, <1>5, <2>1 DEF DataCommand
<1>6. CASE CONFIG(s, cmd)
  BY <1>0, <1>3, <1>6, CommandType DEF CONFIG
<1>7. CASE Query(s, cmd)
  BY <1>0, <1>3, <1>7 DEF Query
<1> QED BY <1>1, <1>2, <1>4, <1>5, <1>6, <1>7 DEF Execute

-----------------------------------------------------------------------------
LEMMA DirectInv ==
    ASSUME Inv, NEW s \in Session, NEW cmd \in Command, Direct(s, cmd) PROVE Inv'
<1>1. /\ running = Nobody /\ s \in connected /\ ~in_multi[s] /\ Execute(s, cmd)
      /\ parts' = <<>> /\ UNCHANGED <<connected, closed, in_multi, queue, running>>
  BY DEF Direct
<1>2. /\ HubMirrorsSessions' /\ DeliveryExact' /\ SubscribedNeverInMulti'
      /\ DOMAIN hub' \subseteq Name /\ hub' \in [DOMAIN hub' -> SUBSET Session]
      /\ subs' \in [Session -> SUBSET Name]
      /\ \A t \in Session : t \notin connected => subs'[t] = {}
      /\ notify' \subseteq Flag
      /\ last'.messages \subseteq Session \X Name \X Channel /\ last'.failed \in BOOLEAN
  BY <1>1, ExecuteKeeps
<1>3. TypeOK'
  BY <1>1, <1>2, EmptySeq DEF Inv, TypeOK
<1>4. SessionInv'
  BY <1>1, <1>2 DEF Inv, SessionInv
<1>5. ExecAnswersAll'
  BY <1>1 DEF ExecAnswersAll
<1> QED BY <1>2, <1>3, <1>4, <1>5 DEF Inv

LEMMA ReplayInv == ASSUME Inv, NEW s \in Session, Replay(s) PROVE Inv'
<1> DEFINE cmd == Head(queue[s])
           part == Part(s, last')
<1>1. /\ running = s /\ s \in connected /\ ~in_multi[s] /\ queue[s] # <<>>
      /\ queue[s] \in Seq(Command)
  BY DEF Inv, SessionInv, TypeOK, Replay
<1>2. cmd \in Command /\ Tail(queue[s]) \in Seq(Command)
  BY <1>1, HeadTailProperties
<1>3. /\ Execute(s, cmd) /\ parts' = Append(parts, part)
      /\ queue' = [queue EXCEPT ![s] = Tail(@)]
      /\ running' = IF Tail(queue[s]) = <<>> THEN Nobody ELSE s
      /\ UNCHANGED <<connected, closed, in_multi>>
  BY DEF Replay
<1> HIDE DEF cmd
<1>4. /\ HubMirrorsSessions' /\ DeliveryExact' /\ SubscribedNeverInMulti'
      /\ DOMAIN hub' \subseteq Name /\ hub' \in [DOMAIN hub' -> SUBSET Session]
      /\ subs' \in [Session -> SUBSET Name]
      /\ \A t \in Session : t \notin connected => subs'[t] = {}
      /\ notify' \subseteq Flag
      /\ last'.messages \subseteq Session \X Name \X Channel /\ last'.failed \in BOOLEAN
      /\ last'.confirmed # {} \/ last'.reply
  BY <1>1, <1>2, <1>3, ExecuteKeeps
<1>5. part \in {"push", "reply", "None"} /\ part # "None"
  BY <1>4 DEF Part
<1> HIDE DEF part
<1>6. /\ parts \in Seq({"push", "reply", "None"})
      /\ \A i \in 1 .. Len(parts) : parts[i] # "None"
  BY DEF Inv, TypeOK, ExecAnswersAll
<1>7. /\ parts' \in Seq({"push", "reply", "None"})
      /\ Len(parts') = Len(parts) + 1 /\ parts'[Len(parts) + 1] = part
      /\ \A i \in 1 .. Len(parts) : parts'[i] = parts[i]
  BY <1>3, <1>5, <1>6, AppendProperties
<1>8. ExecAnswersAll'
  BY <1>5, <1>6, <1>7 DEF ExecAnswersAll
<1>9. /\ queue' \in [Session -> Seq(Command)] /\ queue'[s] = Tail(queue[s])
      /\ running' \in Session \cup {Nobody}
  BY <1>2, <1>3 DEF Inv, TypeOK
<1>10. TypeOK'
  BY <1>3, <1>4, <1>7, <1>9 DEF Inv, TypeOK
<1>11. SessionInv'
  BY <1>1, <1>3, <1>4, <1>9 DEF SessionInv
<1> QED BY <1>4, <1>8, <1>10, <1>11 DEF Inv

(* Steps that run no handler and leave hub and subscriptions alone. *)
LEMMA QuietInv ==
    ASSUME Inv, Quiet, connected' \in SUBSET Session, connected \subseteq connected',
           closed' \subseteq connected',
           in_multi' \in [Session -> BOOLEAN], queue' \in [Session -> Seq(Command)],
           running' \in Session \cup {Nobody},
           \A s \in Session : in_multi'[s] => in_multi[s] \/ subs[s] = {},
           \A s \in Session : running' = s =>
              s \in connected' /\ queue'[s] # <<>> /\ ~in_multi'[s]
    PROVE  Inv'
<1>1. /\ last' = Nothing /\ parts' = <<>> /\ subs' = subs /\ hub' = hub /\ notify' = notify
  BY DEF Quiet
<1>2. TypeOK'
  BY <1>1, EmptySeq DEF Inv, TypeOK, Nothing
<1>3. SessionInv' /\ SubscribedNeverInMulti' /\ ExecAnswersAll'
  BY <1>1 DEF Inv, SessionInv, SubscribedNeverInMulti, Subscribed, ExecAnswersAll
<1>4. HubMirrorsSessions'
  <2>1. /\ \A s \in connected' : s \in Session
        /\ \A s \in connected' : s \notin connected => subs[s] = {}
    BY DEF Inv, SessionInv
  <2> QED BY <1>1, <2>1 DEF Inv, HubMirrorsSessions
<1>5. DeliveryExact'
  BY <1>1, SilentIsExact DEF Nothing
<1> QED BY <1>2, <1>3, <1>4, <1>5 DEF Inv

LEMMA DisconnectInv == ASSUME Inv, NEW s \in Session, Disconnect(s) PROVE Inv'
<1>1. /\ s \in connected /\ connected' = connected \ {s} /\ hub' = Removed(s, DOMAIN hub)
      /\ subs' = [subs EXCEPT ![s] = {}] /\ in_multi' = [in_multi EXCEPT ![s] = FALSE]
      /\ queue' = [queue EXCEPT ![s] = <<>>] /\ last' = Nothing /\ parts' = <<>>
      /\ closed' = closed \ {s} /\ running = Nobody /\ UNCHANGED <<notify, running>>
  BY DEF Disconnect, Close
<1>2. /\ subs' \in [Session -> SUBSET Name] /\ subs'[s] = {}
      /\ \A t \in Session : t # s => subs'[t] = subs[t]
  BY <1>1 DEF Inv, TypeOK
<1>3. /\ HubMirrorsSessions' /\ DOMAIN hub' \subseteq Name
      /\ hub' \in [DOMAIN hub' -> SUBSET Session]
  BY <1>1, <1>2, RemovedMirrors DEF Inv
<1>4. TypeOK'
  BY <1>1, <1>2, <1>3, EmptySeq DEF Inv, TypeOK, Nothing
<1>5. SessionInv' /\ SubscribedNeverInMulti' /\ ExecAnswersAll'
  BY <1>1, <1>2 DEF Inv, TypeOK, SessionInv, SubscribedNeverInMulti, Subscribed, ExecAnswersAll
<1>6. DeliveryExact'
  BY <1>1, SilentIsExact DEF Nothing
<1> QED BY <1>3, <1>4, <1>5, <1>6 DEF Inv

LEMMA StepInv == Inv /\ [Next]_vars => Inv'
<1> SUFFICES ASSUME Inv, [Next]_vars PROVE Inv'
  OBVIOUS
<1>0. /\ connected \in SUBSET Session /\ closed \subseteq connected /\ in_multi \in [Session -> BOOLEAN]
      /\ queue \in [Session -> Seq(Command)] /\ running \in Session \cup {Nobody}
      /\ <<>> \in Seq(Command)
  BY EmptySeq DEF Inv, TypeOK
<1>1. CASE UNCHANGED vars
  BY <1>1 DEF vars, Inv, TypeOK, SessionInv, HubMirrorsSessions, DeliveryExact,
              Owed, Raising, Earlier, SubscribedNeverInMulti, Subscribed, ExecAnswersAll
<1>2. ASSUME NEW s \in Session, NEW cmd \in Command, Queue(s, cmd) PROVE Inv'
  <2>1. queue' \in [Session -> Seq(Command)]
    BY <1>0, <1>2, AppendProperties DEF Queue
  <2> QED BY <1>0, <1>2, <2>1, QuietInv DEF Queue
<1>3. ASSUME NEW s \in Session, MULTI(s) PROVE Inv'
  BY <1>0, <1>3, QuietInv DEF MULTI, Subscribed
<1>4. ASSUME NEW s \in Session, DISCARD(s) PROVE Inv'
  BY <1>0, <1>4, QuietInv DEF DISCARD, Close
<1>5. ASSUME NEW s \in Session, EXEC(s) PROVE Inv'
  BY <1>0, <1>5, QuietInv DEF EXEC
<1>6. ASSUME NEW s \in Session, Connect(s) PROVE Inv'
  BY <1>0, <1>6, QuietInv DEF Connect
<1>7. ASSUME NEW s \in Session, ProtocolError(s) PROVE Inv'
  BY <1>0, <1>7, QuietInv DEF ProtocolError
<1> QED BY <1>1, <1>2, <1>3, <1>4, <1>5, <1>6, <1>7, DirectInv, ReplayInv, DisconnectInv DEF Next

LEMMA InvAlways == Spec => []Inv
BY InitInv, StepInv, PTL DEF Spec

(* class Session and PubSubHub keep their types. *)
THEOREM PubSubTypeCorrect == Spec => []TypeOK
<1>1. Inv => TypeOK
  BY DEF Inv
<1> QED BY <1>1, InvAlways, PTL

(* The hub's tables and Session.channels/patterns never drift apart, for   *)
(* any number of connections, through transactions and disconnects.        *)
THEOREM HubMirrors == Spec => []HubMirrorsSessions
<1>1. Inv => HubMirrorsSessions
  BY DEF Inv
<1> QED BY <1>1, InvAlways, PTL

(* PubSubHub.publish sends one frame per matching subscription held by a   *)
(* connection, and no other.  Where the channel of one of them is closed   *)
(* the command fails, and a live subscriber that is not served before      *)
(* every closed one may go without the frame; nothing else loses it one.   *)
THEOREM PublishExact == Spec => []DeliveryExact
<1>1. Inv => DeliveryExact
  BY DEF Inv
<1> QED BY <1>1, InvAlways, PTL

(* EXEC's reply never lacks an element, and a subscribed connection never  *)
(* has a transaction open.                                                 *)
THEOREM ExecComplete == Spec => [](ExecAnswersAll /\ SubscribedNeverInMulti)
<1>1. Inv => ExecAnswersAll /\ SubscribedNeverInMulti
  BY DEF Inv
<1> QED BY <1>1, InvAlways, PTL

(* The subscribed-mode gate of _dispatch_direct cannot be passed by MULTI, *)
(* opened first: no subscribed connection ever has a transaction open.      *)
THEOREM GateHolds == Spec => []SubscribedNeverInMulti
<1>1. Inv => SubscribedNeverInMulti
  BY DEF Inv
<1> QED BY <1>1, InvAlways, PTL
=============================================================================
