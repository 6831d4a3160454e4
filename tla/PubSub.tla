------------------------------- MODULE PubSub -------------------------------
(***************************************************************************)
(* Publish/subscribe of kagni/pubsub.py and kagni/commands: the hub's      *)
(* tables, the sessions' own subscription sets, the subscribed-mode gate,  *)
(* queueing and replay inside MULTI/EXEC, and keyspace notifications.      *)
(*                                                                         *)
(* Channels and patterns are names of two disjoint tables that behave      *)
(* alike, so they are one function here.  Frames are abstracted to what    *)
(* tells them apart: a delivered message is <<session, name, channel>>, a  *)
(* confirmation is its name.  Arguments repeated in one command would only *)
(* repeat its frames, so they are sets.  WATCH is left to Transactions: an *)
(* EXEC may abort at will.                                                 *)
(***************************************************************************)
EXTENDS Integers, Sequences, FiniteSets

CONSTANTS
    Session,       \* connections
    Nobody,        \* no session
    Channel,       \* channel names
    Pattern,       \* glob patterns
    Null,          \* the null name of a bare UNSUBSCRIBE
    Match,         \* which pattern matches which channel: pairs of them
    Flag,          \* notify-keyspace-events: the subset of {"K", "E"} clients use
    EventChannel,  \* the channel a flag's notifications are published on
    MaxLoad,       \* bound on the connections and a transaction's length together
    MaxOpen        \* bound on the transactions open at a time

Name == Channel \cup Pattern

ASSUME PubSubAssumption ==
    /\ Nobody \notin Session
    /\ Channel \cap Pattern = {} /\ Null \notin Name
    /\ Match \subseteq Pattern \X Channel
    /\ Flag \subseteq {"K", "E"}
    /\ EventChannel \in [Flag -> Channel]
    /\ MaxLoad \in Nat /\ MaxOpen \in Nat

VARIABLES
    connected,  \* sessions that have a connection
    closed,     \* on trio, those among them whose channel to the writer is closed
    subs,       \* Session.channels and Session.patterns
    hub,        \* PubSubHub._channels and _patterns: name -> set of sessions
    notify,     \* notify_keyspace_events
    in_multi,   \* Session.in_multi
    queue,      \* Session.queue
    running,    \* the session whose EXEC is replaying its queue
    parts,      \* what the EXEC under way put in its array so far
    last        \* history: what the last step sent

vars == <<connected, closed, subs, hub, notify, in_multi, queue, running, parts, last>>

Subscribed(s) == subs[s] # {}

Join == {"SUBSCRIBE", "PSUBSCRIBE"}
Leave == {"UNSUBSCRIBE", "PUNSUBSCRIBE"}

Op == Join \cup Leave \cup {"PUBLISH", "CONFIG", "write", "PUBSUB", "PING"}

Table(op) == IF op \in {"SUBSCRIBE", "UNSUBSCRIBE"} THEN Channel ELSE Pattern

(* A command with its arguments; "write" stands for every data command and *)
(* announces a keyspace event, PUBSUB for every one that announces none.   *)
Command ==
    [op: {"SUBSCRIBE"}, arg: (SUBSET Channel) \ {{}}]
    \cup [op: {"PSUBSCRIBE"}, arg: (SUBSET Pattern) \ {{}}]
    \cup [op: {"UNSUBSCRIBE"}, arg: SUBSET Channel]
    \cup [op: {"PUNSUBSCRIBE"}, arg: SUBSET Pattern]
    \cup [op: {"PUBLISH"}, arg: {{c} : c \in Channel}]
    \cup [op: {"CONFIG"}, arg: SUBSET Flag]
    \cup [op: {"write", "PUBSUB", "PING"}, arg: {{}}]

Nothing == [on |-> {}, messages |-> {}, confirmed |-> {}, reply |-> FALSE, failed |-> FALSE]

Init ==
    /\ connected = {} /\ closed = {}
    /\ subs = [s \in Session |-> {}]
    /\ hub = [n \in {} |-> {}]
    /\ notify = {}
    /\ in_multi = [s \in Session |-> FALSE]
    /\ queue = [s \in Session |-> <<>>]
    /\ running = Nobody
    /\ parts = <<>>
    /\ last = Nothing

-----------------------------------------------------------------------------
(* The hub. *)

Matches(n, c) == n = c \/ <<n, c>> \in Match

(* subscribe, psubscribe: setdefault(name, set()).add(session) *)
Added(s, N) ==
    [n \in DOMAIN hub \cup N |->
        (IF n \in DOMAIN hub THEN hub[n] ELSE {}) \cup (IF n \in N THEN {s} ELSE {})]

(* unsubscribe, punsubscribe, and remove_session with every name: a name   *)
(* whose last subscriber leaves is deleted from its table.                 *)
Removed(s, N) ==
    [n \in {m \in DOMAIN hub : m \notin N \/ hub[m] \ {s} # {}} |->
        IF n \in N THEN hub[n] \ {s} ELSE hub[n]]

(* Mutant: patterns are forgotten. *)
FanoutChannels(C) ==
    {m \in Session \X Name \X C : m[2] = m[3] /\ m[2] \in DOMAIN hub /\ m[1] \in hub[m[2]]}

(* publish: one frame per matching name and subscriber of it is due. *)
Fanout(C) ==
    {m \in Session \X Name \X C :
        m[2] \in DOMAIN hub /\ m[1] \in hub[m[2]] /\ Matches(m[2], m[3])}

(* The loops of publish send to the channel's own subscribers before those *)
(* of the patterns, which come in any order; _notify publishes on the      *)
(* key's channel before the event's.                                       *)
Earlier(m, d) ==
    \/ m[3] = d[3] /\ m[2] = m[3] /\ d[2] # d[3]
    \/ m[3] # d[3] /\ "E" \in Flag /\ d[3] = EventChannel["E"]

(* The frames whose sender raises: those for a closed session. *)
Raising(due) == {d \in due : d[1] \in closed}

(* The frames sent of those due.  A sender that raises ends the loops: who *)
(* is earlier than its session got the frame, who is later did not, other  *)
(* subscribers of the same name may have it, and those of another pattern  *)
(* have it all or not at all.                                              *)
Sent(due) ==
    IF Raising(due) = {} THEN {due}
    ELSE {sent \in SUBSET (due \ Raising(due)) : \E d \in Raising(due) : \A m \in due :
            /\ Earlier(m, d) => m \in sent
            /\ Earlier(d, m) => m \notin sent
            /\ (m \in sent /\ Tail(m) # Tail(d)) =>
                  \A o \in due : Tail(o) = Tail(m) => o \in sent}

-----------------------------------------------------------------------------
(* The handlers, reached through _dispatch_direct. *)

(* What a handler sent.  One whose publish raised ends there, and the      *)
(* client gets an internal error as its reply.                             *)
Ran(on, confirmed, reply) ==
    \E sent \in Sent(Fanout(on)) :
       last' = [on |-> on, messages |-> sent, confirmed |-> confirmed, reply |-> reply,
                failed |-> Raising(Fanout(on)) # {}]

Subscribe(s, cmd) ==
    /\ cmd.op \in Join
    /\ subs' = [subs EXCEPT ![s] = @ \cup cmd.arg]
    /\ hub' = Added(s, cmd.arg)
    /\ Ran({}, cmd.arg, FALSE)
    /\ UNCHANGED notify

(* Mutant: a bare UNSUBSCRIBE of a client without subscriptions is silent. *)
UnsubscribeSilent(s, cmd) ==
    LET N == IF cmd.arg = {} THEN subs[s] \cap Table(cmd.op) ELSE cmd.arg
    IN /\ cmd.op \in Leave
       /\ subs' = [subs EXCEPT ![s] = @ \ N]
       /\ hub' = Removed(s, N)
       /\ Ran({}, N, FALSE)
       /\ UNCHANGED notify

(* Without arguments every name of the table goes; when there was none, a  *)
(* confirmation with a null name is pushed.                                *)
Unsubscribe(s, cmd) ==
    LET held == subs[s] \cap Table(cmd.op)
        N == IF cmd.arg = {} THEN held ELSE cmd.arg
    IN /\ cmd.op \in Leave
       /\ subs' = [subs EXCEPT ![s] = @ \ N]
       /\ hub' = Removed(s, N)
       /\ Ran({}, IF N = {} THEN {Null} ELSE N, FALSE)
       /\ UNCHANGED notify

PUBLISH(s, cmd) ==
    /\ cmd.op = "PUBLISH"
    /\ Ran(cmd.arg, {}, TRUE)
    /\ UNCHANGED <<subs, hub, notify>>

(* A data command: _notify publishes once per flag that is set. *)
DataCommand(s, cmd) ==
    /\ cmd.op = "write"
    /\ Ran({EventChannel[f] : f \in notify}, {}, TRUE)
    /\ UNCHANGED <<subs, hub, notify>>

(* Mutant: CONFIG SET accepts an unknown event class. *)
ConfigUnchecked(s, cmd) ==
    /\ cmd.op = "CONFIG"
    /\ notify' = cmd.arg \cup {"Q"}
    /\ Ran({}, {}, TRUE)
    /\ UNCHANGED <<subs, hub>>

CONFIG(s, cmd) ==
    /\ cmd.op = "CONFIG"
    /\ notify' = cmd.arg
    /\ Ran({}, {}, TRUE)
    /\ UNCHANGED <<subs, hub>>

Query(s, cmd) ==
    /\ cmd.op \in {"PUBSUB", "PING"}
    /\ Ran({}, {}, TRUE)
    /\ UNCHANGED <<subs, hub, notify>>

Execute(s, cmd) ==
    \/ Subscribe(s, cmd) \/ Unsubscribe(s, cmd)
    \/ PUBLISH(s, cmd) \/ DataCommand(s, cmd) \/ CONFIG(s, cmd) \/ Query(s, cmd)

AllowedWhileSubscribed == Join \cup Leave \cup {"PING"}

(* A command outside a transaction; one the gate refuses changes nothing. *)
Direct(s, cmd) ==
    /\ running = Nobody /\ s \in connected \ closed /\ ~in_multi[s]
    /\ Subscribed(s) => cmd.op \in AllowedWhileSubscribed
    /\ Execute(s, cmd)
    /\ parts' = <<>>
    /\ UNCHANGED <<connected, closed, in_multi, queue, running>>

-----------------------------------------------------------------------------
(* MULTI, EXEC, DISCARD. *)

Quiet == last' = Nothing /\ parts' = <<>> /\ UNCHANGED <<subs, hub, notify>>

(* Mutant: MULTI is not gated. *)
MultiUngated(s) ==
    /\ running = Nobody /\ s \in connected \ closed /\ ~in_multi[s]
    /\ Cardinality({t \in Session : in_multi[t]}) < MaxOpen
    /\ in_multi' = [in_multi EXCEPT ![s] = TRUE]
    /\ queue' = [queue EXCEPT ![s] = <<>>]
    /\ Quiet /\ UNCHANGED <<connected, closed, running>>

MULTI(s) ==
    /\ running = Nobody /\ s \in connected \ closed /\ ~in_multi[s] /\ ~Subscribed(s)
    /\ Cardinality({t \in Session : in_multi[t]}) < MaxOpen
    /\ in_multi' = [in_multi EXCEPT ![s] = TRUE]
    /\ queue' = [queue EXCEPT ![s] = <<>>]
    /\ Quiet /\ UNCHANGED <<connected, closed, running>>

Queue(s, cmd) ==
    /\ running = Nobody /\ s \in connected \ closed /\ in_multi[s]
    /\ Cardinality(connected) + Len(queue[s]) < MaxLoad
    /\ queue' = [queue EXCEPT ![s] = Append(@, cmd)]
    /\ Quiet /\ UNCHANGED <<connected, closed, in_multi, running>>

Close(s) ==
    /\ in_multi' = [in_multi EXCEPT ![s] = FALSE]
    /\ queue' = [queue EXCEPT ![s] = <<>>]

(* DISCARD, and an EXEC with nothing queued or with a changed watched key. *)
DISCARD(s) ==
    /\ running = Nobody /\ s \in connected \ closed /\ in_multi[s]
    /\ Close(s)
    /\ Quiet /\ UNCHANGED <<connected, closed, running>>

EXEC(s) ==
    /\ running = Nobody /\ s \in connected \ closed /\ in_multi[s] /\ queue[s] # <<>>
    /\ in_multi' = [in_multi EXCEPT ![s] = FALSE]
    /\ running' = s
    /\ Quiet /\ UNCHANGED <<connected, closed, queue>>

(* What the array gets for one command: the first frame pushed to the      *)
(* session itself, else the command's reply, which is None for the         *)
(* commands that only push.  Further frames trail the array.               *)
Part(s, ran) ==
    IF ran.confirmed # {} \/ \E m \in ran.messages : m[1] = s THEN "push"
    ELSE IF ran.reply THEN "reply" ELSE "None"

(* The replay bypasses the gate. *)
Replay(s) ==
    /\ running = s
    /\ Execute(s, Head(queue[s]))
    /\ parts' = Append(parts, Part(s, last'))
    /\ queue' = [queue EXCEPT ![s] = Tail(@)]
    /\ running' = IF Tail(queue[s]) = <<>> THEN Nobody ELSE s
    /\ UNCHANGED <<connected, closed, in_multi>>

-----------------------------------------------------------------------------
(* Connections come with a new Session and go through remove_session. *)

Connect(s) ==
    /\ running = Nobody /\ s \notin connected
    /\ \A t \in Session : Cardinality(connected) + Len(queue[t]) < MaxLoad
    /\ connected' = connected \cup {s}
    /\ Quiet /\ UNCHANGED <<closed, in_multi, queue, running>>

(* On trio a protocol error closes the channel to the writer; the session  *)
(* stays in the hub until the writer has sent what is in the channel.      *)
ProtocolError(s) ==
    /\ running = Nobody /\ s \in connected \ closed
    /\ closed' = closed \cup {s}
    /\ Quiet /\ UNCHANGED <<connected, in_multi, queue, running>>

(* Mutant: the connection goes without remove_session. *)
DisconnectLeaks(s) ==
    /\ running = Nobody /\ s \in connected
    /\ connected' = connected \ {s} /\ closed' = closed \ {s}
    /\ subs' = [subs EXCEPT ![s] = {}]
    /\ Close(s)
    /\ last' = Nothing /\ parts' = <<>>
    /\ UNCHANGED <<hub, notify, running>>

Disconnect(s) ==
    /\ running = Nobody /\ s \in connected
    /\ connected' = connected \ {s} /\ closed' = closed \ {s}
    /\ hub' = Removed(s, DOMAIN hub)
    /\ subs' = [subs EXCEPT ![s] = {}]
    /\ Close(s)
    /\ last' = Nothing /\ parts' = <<>>
    /\ UNCHANGED <<notify, running>>

Next ==
    \E s \in Session :
       \/ \E cmd \in Command : Direct(s, cmd) \/ Queue(s, cmd)
       \/ MULTI(s) \/ DISCARD(s) \/ EXEC(s) \/ Replay(s)
       \/ Connect(s) \/ ProtocolError(s) \/ Disconnect(s)

Spec == Init /\ [][Next]_vars

-----------------------------------------------------------------------------
(* Sessions, hub and transaction state are well formed. *)
TypeOK ==
    /\ connected \subseteq Session /\ closed \subseteq connected
    /\ subs \in [Session -> SUBSET Name]
    /\ DOMAIN hub \subseteq Name /\ hub \in [DOMAIN hub -> SUBSET Session]
    /\ notify \subseteq Flag
    /\ in_multi \in [Session -> BOOLEAN]
    /\ queue \in [Session -> Seq(Command)]
    /\ running \in Session \cup {Nobody}
    /\ parts \in Seq({"push", "reply", "None"})
    /\ last.messages \subseteq Session \X Name \X Channel /\ last.failed \in BOOLEAN

(* The hub's tables and the sessions' own sets agree after any history of  *)
(* subscribing, transactions and lost connections: a name is in its table  *)
(* exactly when someone holds it, with exactly the sessions that do, so    *)
(* nothing is sent to a connection that is gone and PUBSUB CHANNELS,       *)
(* NUMSUB and NUMPAT ("names with at least one subscriber") are right.     *)
HubMirrorsSessions ==
    /\ DOMAIN hub = {n \in Name : \E s \in connected : n \in subs[s]}
    /\ \A n \in DOMAIN hub : hub[n] = {s \in connected : n \in subs[s]}

(* The frames owed: one for each matching subscription of a connection.    *)
Owed ==
    {m \in connected \X Name \X last.on : m[2] \in subs[m[1]] /\ Matches(m[2], m[3])}

(* publish(): "one frame per subscription type that matches": a message, a *)
(* PUBLISH or a keyspace event, direct or replayed by EXEC, reaches every  *)
(* connection once per matching subscription it holds, and no other.  Only *)
(* if one of them is closed does the command fail, and only then may a     *)
(* live one miss it, unless its turn came before that of every closed one. *)
DeliveryExact ==
    /\ last.messages \subseteq Owed \ Raising(Owed)
    /\ last.failed <=> Raising(Owed) # {}
    /\ \A m \in Owed \ Raising(Owed) :
          m \notin last.messages => \E d \in Raising(Owed) : ~Earlier(m, d)

(* No connection has a transaction open while it is subscribed, so the     *)
(* subscribed-mode gate cannot be passed by queueing; EXEC itself may      *)
(* subscribe and then replay what the gate would refuse.                   *)
SubscribedNeverInMulti == \A s \in Session : in_multi[s] => ~Subscribed(s)

(* EXEC joins one complete frame per queued command: no command that       *)
(* answers None was replayed without a push to put in its place, which     *)
(* would make dispatch raise although "nothing here ever raises".          *)
ExecAnswersAll ==
    \A i \in 1 .. Len(parts) : parts[i] # "None"
=============================================================================
