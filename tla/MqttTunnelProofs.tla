---------------------------- MODULE MqttTunnelProofs --------------------------
(***************************************************************************)
(* Proofs about the three parts of MCMqttMessages: MqttTunnel, for every   *)
(* set of nodes and callers, every lifetime and all bounds, and then       *)
(* Conversions and Baseline, for lists of any length.                      *)
(*                                                                         *)
(* DeadStaySilent speaks of what a callback passes on.  Its invariant      *)
(* follows the messages from their publication on: wherever a message is   *)
(* kept (by the broker, in the client, in a callback), it is no younger    *)
(* than the end of a base that no longer runs (Aged).                      *)
(*                                                                         *)
(* RegisteredHears and UnregisteredSilent speak of calls that have         *)
(* returned; CalmInv says what an undisturbed call has done so far, and    *)
(* that none other works on its node.  HeartbeatsInOrder speaks of what is *)
(* told; BeatsInv ranks the heartbeats that are still on their way.        *)
(*                                                                         *)
(* GetLatestState and QueryContainerBaseline go through a list.  What      *)
(* their loops have after k elements is shown by induction on k, which     *)
(* AllNumbers states for a set of numbers.                                 *)
(***************************************************************************)
EXTENDS MCMqttMessages, FiniteSetTheorems, TLAPS

(* The messages that wait in the client.                                   *)
Queued == {inbox[i] : i \in DOMAIN inbox}

(* A message is not of the future, not younger than its base, and a        *)
(* heartbeat has a state.                                                  *)
Old(m) ==
    /\ m.sent <= now
    /\ m.node \notin up => m.sent <= lastUp[m.node]
    /\ m.topic = "heart" => m.body # "data"

Aged == \A m \in retained \cup Queued \cup handling : Old(m)

(* A call waits for one of the five subscriptions.                         *)
Sending == \A c \in Caller : call[c].pc = "sent" => call[c].i <= 5

AgeInv == TypeOK /\ IsFiniteSet(retained) /\ Aged /\ Sending /\ DeadStaySilent

-----------------------------------------------------------------------------
(* Sequences of messages and the sets of their members.                    *)
Members(q) == {q[i] : i \in DOMAIN q}

LEMMA AppendMembers ==
    ASSUME NEW S, NEW q \in Seq(S), NEW e \in S
    PROVE  Append(q, e) \in Seq(S) /\ Members(Append(q, e)) \subseteq Members(q) \cup {e}
<1>1. Append(q, e) \in Seq(S)
    OBVIOUS
<1>2. \A i \in DOMAIN Append(q, e) :
          Append(q, e)[i] = e \/ (i \in DOMAIN q /\ Append(q, e)[i] = q[i])
    OBVIOUS
<1> QED
    BY <1>1, <1>2 DEF Members

LEMMA TailMembers ==
    ASSUME NEW S, NEW q \in Seq(S), q # <<>>
    PROVE  /\ Tail(q) \in Seq(S) /\ Head(q) \in S
           /\ Members(Tail(q)) \subseteq Members(q) /\ Head(q) \in Members(q)
<1>1. Tail(q) \in Seq(S) /\ Head(q) \in S /\ Head(q) = q[1] /\ 1 \in DOMAIN q
    OBVIOUS
<1>2. \A i \in DOMAIN Tail(q) : i + 1 \in DOMAIN q /\ Tail(q)[i] = q[i + 1]
    OBVIOUS
<1> QED
    BY <1>1, <1>2 DEF Members

LEMMA PrefixMembers ==
    ASSUME NEW S, NEW q \in Seq(S), NEW k \in 0 .. Len(q)
    PROVE  /\ SubSeq(q, 1, k) \in Seq(S)
           /\ Members(SubSeq(q, 1, k)) \subseteq Members(q)
<1>1. SubSeq(q, 1, k) \in Seq(S)
    OBVIOUS
<1>2. \A i \in DOMAIN SubSeq(q, 1, k) : i \in DOMAIN q /\ SubSeq(q, 1, k)[i] = q[i]
    OBVIOUS
<1> QED
    BY <1>1, <1>2 DEF Members

LEMMA ConcatMembers ==
    ASSUME NEW S, NEW q \in Seq(S), NEW r \in Seq(S)
    PROVE  q \o r \in Seq(S) /\ Members(q \o r) \subseteq Members(q) \cup Members(r)
<1>1. q \o r \in Seq(S)
    OBVIOUS
<1>2. \A i \in DOMAIN (q \o r) :
          \/ i \in DOMAIN q /\ (q \o r)[i] = q[i]
          \/ i - Len(q) \in DOMAIN r /\ (q \o r)[i] = r[i - Len(q)]
    OBVIOUS
<1> QED
    BY <1>1, <1>2 DEF Members

(* What the broker repeats to a subscription is a finite sequence of what  *)
(* it retains.                                                             *)
LEMMA RepeatedMembers ==
    ASSUME TypeOK, IsFiniteSet(retained), NEW channels, NEW s \in Repeated(channels)
    PROVE  s \in Seq(Message) /\ Members(s) \subseteq retained
<1> DEFINE msgs == {m \in retained : Channel(m) \in channels}
<1>1. IsFiniteSet(msgs) /\ Cardinality(msgs) \in Nat
    BY FS_Subset, FS_CardinalityType
<1>2. s \in [1 .. Cardinality(msgs) -> msgs]
    BY DEF Repeated
<1>3. msgs \subseteq Message /\ msgs \subseteq retained
    BY DEF TypeOK
<1> HIDE DEF msgs
<1>4. s \in Seq(Message)
    BY <1>1, <1>2, <1>3
<1>5. Members(s) \subseteq msgs
    BY <1>2 DEF Members
<1> QED
    BY <1>3, <1>4, <1>5

(* The waiting messages of a sequence are its members.                     *)
LEMMA QueuedMembers == Queued = Members(inbox) /\ Queued' = Members(inbox')
    BY DEF Queued, Members

(* A step that publishes and tells nothing keeps the messages aged.        *)
LEMMA AgeKept ==
    ASSUME AgeInv, TypeOK', now' >= now, UNCHANGED <<up, lastUp, retained>>,
           Queued' \subseteq Queued \cup retained,
           handling' \subseteq handling \cup Queued,
           report' = {}, Sending'
    PROVE  AgeInv'
<1>1. ASSUME NEW m \in retained' \cup Queued' \cup handling'
      PROVE  Old(m)'
  <2>1. m \in retained \cup Queued \cup handling
      BY <1>1
  <2>2. Old(m)
      BY <2>1 DEF AgeInv, Aged
  <2>3. m \in Message
    <3>1. inbox \in Seq(Message)
        BY DEF AgeInv, TypeOK
    <3>2. Queued \subseteq Message
        BY <3>1 DEF Queued
    <3> QED
        BY <2>1, <3>2 DEF AgeInv, TypeOK
  <2>4. m.sent \in Nat /\ now \in Nat /\ now' \in Nat
      BY <2>3 DEF Message, AgeInv, TypeOK
  <2> QED
      BY <2>2, <2>4 DEF Old
<1>2. Aged'
    BY <1>1 DEF Aged
<1>3. DeadStaySilent'
    BY DEF DeadStaySilent
<1> QED
    BY <1>2, <1>3 DEF AgeInv

-----------------------------------------------------------------------------
(* The clock, the connection and incoming messages.                        *)
LEMMA TickInv ==
    ASSUME AgeInv, Tick
    PROVE  AgeInv'
<1>0. now \in Nat /\ now' = now + 1
    BY DEF AgeInv, TypeOK, Tick
<1>1. now' \in Nat /\ now' >= now
    BY <1>0
<1>4. left' \in [ticks : Nat, messages : Nat, starts : Nat, losses : Nat, calls : Nat]
  <2>1. left.ticks > 0 /\ left' = [left EXCEPT !.ticks = @ - 1]
      BY DEF Tick
  <2>2. left \in [ticks : Nat, messages : Nat, starts : Nat, losses : Nat, calls : Nat]
      BY DEF AgeInv, TypeOK
  <2>3. left.ticks - 1 \in Nat
      BY <2>1, <2>2
  <2> QED
      BY <2>1, <2>2, <2>3
<1>2. TypeOK'
    BY <1>1, <1>4 DEF AgeInv, TypeOK, Tick, Silent, base, client, history
<1>3. Queued' = Queued /\ Sending'
    BY DEF Tick, Queued, Sending, AgeInv
<1> QED
    BY <1>1, <1>2, <1>3, AgeKept DEF Tick, Silent, base

LEMMA ConnectInv ==
    ASSUME AgeInv, Connect \/ RegisterCallback
    PROVE  AgeInv'
<1>1. TypeOK'
    BY DEF AgeInv, TypeOK, Connect, RegisterCallback, Silent, base, client, history
<1>2. Queued' = Queued /\ now' >= now /\ Sending'
    BY DEF Connect, RegisterCallback, Queued, Sending, AgeInv, TypeOK
<1> QED
    BY <1>1, <1>2, AgeKept DEF Connect, RegisterCallback, Silent, base

(* A new subscription adds what the broker retains of its channels.        *)
LEMMA SubscribedTypes ==
    ASSUME AgeInv, NEW channels \in SUBSET (Topic \X Node), Subscribed(channels)
    PROVE  /\ subs' \in SUBSET (Topic \X Node)
           /\ routes' \in SUBSET (Topic \X Node)
           /\ inbox' \in Seq(Message)
           /\ Queued' \subseteq Queued \cup retained
<1>1. PICK s \in Repeated(channels) : inbox' = inbox \o s
    BY DEF Subscribed
<1>2. s \in Seq(Message) /\ Members(s) \subseteq retained
    BY RepeatedMembers DEF AgeInv
<1>3. inbox \in Seq(Message)
    BY DEF AgeInv, TypeOK
<1>4. inbox' \in Seq(Message) /\ Members(inbox') \subseteq Members(inbox) \cup Members(s)
    BY <1>1, <1>2, <1>3, ConcatMembers
<1> QED
    BY <1>2, <1>4, QueuedMembers DEF Subscribed, AgeInv, TypeOK

LEMMA GreetInv ==
    ASSUME AgeInv, NEW topic \in SharedTopics, Greet(topic)
    PROVE  AgeInv'
<1>1. {topic} \X Node \in SUBSET (Topic \X Node)
    BY DEF Topic
<1>2. /\ subs' \in SUBSET (Topic \X Node)
      /\ routes' \in SUBSET (Topic \X Node)
      /\ inbox' \in Seq(Message)
      /\ Queued' \subseteq Queued \cup retained
    BY <1>1, SubscribedTypes DEF Greet
<1>3. TypeOK'
    BY <1>2 DEF AgeInv, TypeOK, Greet, Silent, base, history
<1>4. now' >= now /\ Sending'
    BY DEF Greet, Sending, AgeInv, TypeOK
<1> QED
    BY <1>2, <1>3, <1>4, AgeKept DEF Greet, Silent, base

LEMMA DispatchInv ==
    ASSUME AgeInv, Dispatch
    PROVE  AgeInv'
<1>1. inbox \in Seq(Message)
    BY DEF AgeInv, TypeOK
<1>2. /\ Tail(inbox) \in Seq(Message) /\ Head(inbox) \in Message
      /\ Members(Tail(inbox)) \subseteq Members(inbox)
      /\ Head(inbox) \in Members(inbox)
    BY <1>1, TailMembers DEF Dispatch
<1>3. TypeOK'
    BY <1>2 DEF AgeInv, TypeOK, Dispatch, Silent, base, client, history
<1>4. Queued' \subseteq Queued /\ handling' \subseteq handling \cup Queued
    BY <1>2, QueuedMembers DEF Dispatch
<1>5. now' >= now /\ Sending'
    BY DEF Dispatch, Sending, AgeInv, TypeOK
<1> QED
    BY <1>3, <1>4, <1>5, AgeKept DEF Dispatch, Silent, base

(* A callback passes a message on only within its Lifetime, and its base   *)
(* ran until the message was sent at least.                                *)
LEMMA CallbackInv ==
    ASSUME AgeInv, NEW m \in handling, Callback(m)
    PROVE  AgeInv'
<1>1. m \in Message /\ Old(m)
    BY DEF AgeInv, Aged, TypeOK
<1>2. /\ m.node \in Node /\ m.life \in Nat /\ m.sent \in Nat
      /\ m.topic = "heart" /\ m.body # "ignored"
            => m.body \in {"ACTIVATED", "DEACTIVATED"}
    BY <1>1 DEF Message, Old
<1>3. report' \in SUBSET Message
    BY <1>1 DEF Callback
<1>4. known' \in [Node -> [life : Nat, state : {"none", "ACTIVATED", "DEACTIVATED"}]]
  <2>1. CASE Passes(m) /\ m.topic = "heart"
    <3>1. [life |-> m.life, state |-> m.body]
              \in [life : Nat, state : {"none", "ACTIVATED", "DEACTIVATED"}]
        BY <1>2, <2>1 DEF Passes
    <3> QED
        BY <2>1, <3>1, <1>2 DEF Callback, AgeInv, TypeOK
  <2>2. CASE ~(Passes(m) /\ m.topic = "heart")
      BY <2>2 DEF Callback, AgeInv, TypeOK
  <2> QED
      BY <2>1, <2>2
<1>5. TypeOK'
    BY <1>3, <1>4 DEF AgeInv, TypeOK, Callback, base, client
<1>6. Aged' /\ Sending'
    BY DEF AgeInv, Aged, Sending, Old, Queued, Callback, base
<1>7. DeadStaySilent'
  <2> SUFFICES ASSUME m \in report', m.topic \notin Unchecked
               PROVE  m.node \in up \/ now < lastUp[m.node] + Lifetime
      BY DEF DeadStaySilent, Callback, base
  <2>1. ~(m.sent + Lifetime <= now)
      BY DEF Callback, Passes, Expired
  <2>2. m.node \notin up => m.sent <= lastUp[m.node]
      BY <1>1 DEF Old
  <2>3. lastUp[m.node] \in Nat /\ now \in Nat
      BY <1>2 DEF AgeInv, TypeOK
  <2> QED
      BY <1>2, <2>1, <2>2, <2>3, MqttBounds
<1> QED
    BY <1>5, <1>6, <1>7 DEF AgeInv, Callback

-----------------------------------------------------------------------------
(* What a base publishes is sent now.                                      *)
LEMMA PublishTypes ==
    ASSUME AgeInv, NEW m \in Message, Publish(m)
    PROVE  /\ retained' \in SUBSET Message /\ IsFiniteSet(retained')
           /\ inbox' \in Seq(Message)
           /\ owed' \in SUBSET Message
           /\ retained' \cup Queued' \cup handling'
                 \subseteq retained \cup Queued \cup handling \cup {m}
<1>1. {r \in retained : Channel(r) # Channel(m)} \subseteq retained
    OBVIOUS
<1>2. IsFiniteSet({r \in retained : Channel(r) # Channel(m)})
    BY <1>1, FS_Subset DEF AgeInv
<1>3. IsFiniteSet(retained')
    BY <1>2, FS_AddElement DEF Publish
<1>4. inbox \in Seq(Message)
    BY DEF AgeInv, TypeOK
<1>5. inbox' \in Seq(Message) /\ Members(inbox') \subseteq Members(inbox) \cup {m}
    BY <1>4, AppendMembers DEF Publish
<1>6. owed' \in SUBSET Message /\ retained' \in SUBSET Message
    BY DEF Publish, AgeInv, TypeOK
<1>7. Queued' \subseteq Queued \cup {m}
    BY <1>5, QueuedMembers
<1> QED
    BY <1>3, <1>5, <1>6, <1>7 DEF Publish

(* What base n publishes.                                                  *)
Fresh(m, n) ==
    m \in Message /\ m.sent = now /\ m.node = n /\ (m.topic = "heart" => m.body # "data")

(* A base that starts, stops or crashes leaves its messages behind it.     *)
LEMMA LivesInv ==
    ASSUME AgeInv, NEW n \in Node,
           up' \in {up \cup {n}, up \ {n}}, n \in up \/ n \in up',
           lastUp' = IF n \in up' THEN lastUp ELSE [lastUp EXCEPT ![n] = now],
           now' = now, call' = call, TypeOK', IsFiniteSet(retained'), report' = {},
           \A m \in retained' \cup Queued' \cup handling' :
               m \in retained \cup Queued \cup handling \/ Fresh(m, n)
    PROVE  AgeInv'
<1>1. ASSUME NEW m \in retained' \cup Queued' \cup handling'
      PROVE  Old(m)'
  <2>1. now \in Nat /\ lastUp \in [Node -> Nat]
      BY DEF AgeInv, TypeOK
  <2>2. CASE Fresh(m, n)
      BY <2>1, <2>2 DEF Old, Fresh
  <2>3. CASE ~Fresh(m, n)
    <3>1. Old(m)
        BY <1>1, <2>3 DEF AgeInv, Aged
    <3>2. m \in Message
      <4>1. inbox \in Seq(Message)
          BY DEF AgeInv, TypeOK
      <4>2. Queued \subseteq Message
          BY <4>1 DEF Queued
      <4> QED
          BY <1>1, <2>3, <4>2 DEF AgeInv, TypeOK
    <3>3. m.node \in Node /\ m.sent \in Nat
        BY <3>2 DEF Message
    <3>4. CASE m.node = n
        BY <2>1, <3>1, <3>3, <3>4 DEF Old
    <3>5. CASE m.node # n
        BY <2>1, <3>1, <3>3, <3>5 DEF Old
    <3> QED
        BY <3>4, <3>5
  <2> QED
      BY <2>2, <2>3
<1>2. Aged' /\ Sending' /\ DeadStaySilent'
    BY <1>1 DEF AgeInv, Aged, Sending, DeadStaySilent
<1> QED
    BY <1>2 DEF AgeInv

(* A heartbeat is a message with the life and the state it was given.      *)
LEMMA HeartbeatType ==
    ASSUME AgeInv, NEW n \in Node, NEW state \in {"ACTIVATED", "DEACTIVATED"},
           NEW age \in Nat
    PROVE  /\ Heartbeat(n, state, age) \in Message
           /\ Heartbeat(n, state, age).node = n
           /\ Heartbeat(n, state, age).life = age
           /\ Heartbeat(n, state, age).body = state
<1>1. now \in Nat
    BY DEF AgeInv, TypeOK
<1>2. "heart" \in Topic
    BY DEF Topic, SharedTopics
<1> QED
    BY <1>1, <1>2 DEF Heartbeat, Message

LEMMA BaseInv ==
    ASSUME AgeInv, NEW n \in Node,
           BaseStarts(n) \/ BaseExits(n) \/ BaseCrashes(n) \/ BaseBeats(n)
    PROVE  AgeInv'
<1>0. now \in Nat /\ life \in [Node -> Nat] /\ life[n] \in Nat
    BY DEF AgeInv, TypeOK
<1>1. CASE BaseStarts(n)
  <2> DEFINE m == Heartbeat(n, "ACTIVATED", life[n] + 1)
  <2>1. m \in Message /\ Fresh(m, n)
      BY <1>0, HeartbeatType DEF Heartbeat, Fresh
  <2> HIDE DEF m
  <2>2. Publish(m) /\ report' = {}
      BY <1>1 DEF BaseStarts, Silent, m
  <2>3. left' \in [ticks : Nat, messages : Nat, starts : Nat, losses : Nat, calls : Nat]
    <3>1. (IF life[n] = 0 THEN left.starts ELSE left.starts - 1) \in Nat
        BY <1>1 DEF BaseStarts, AgeInv, TypeOK
    <3> QED
        BY <1>1, <3>1 DEF BaseStarts, AgeInv, TypeOK
  <2>4. life' \in [Node -> Nat] /\ up' \in SUBSET Node
      BY <1>0, <1>1 DEF BaseStarts, AgeInv, TypeOK
  <2>5. TypeOK'
      BY <1>1, <2>1, <2>2, <2>3, <2>4, PublishTypes
         DEF BaseStarts, Silent, Publish, AgeInv, TypeOK, client
  <2>6. /\ up' = up \cup {n} /\ lastUp' = lastUp /\ now' = now
        /\ call' = call
        /\ IsFiniteSet(retained')
        /\ \A x \in retained' \cup Queued' \cup handling' :
               x \in retained \cup Queued \cup handling \/ Fresh(x, n)
      BY <1>1, <2>1, <2>2, PublishTypes DEF BaseStarts, Publish
  <2> QED
      BY <2>2, <2>5, <2>6, LivesInv
<1>2. CASE BaseExits(n)
  <2> DEFINE m == Heartbeat(n, "DEACTIVATED", life[n])
  <2>1. m \in Message /\ Fresh(m, n)
      BY <1>0, HeartbeatType DEF Heartbeat, Fresh
  <2> HIDE DEF m
  <2>2. Publish(m) /\ report' = {}
      BY <1>2 DEF BaseExits, Silent, m
  <2>3. lastUp' \in [Node -> Nat] /\ up' \in SUBSET Node
      BY <1>0, <1>2 DEF BaseExits, AgeInv, TypeOK
  <2>4. TypeOK'
      BY <1>2, <2>1, <2>2, <2>3, PublishTypes
         DEF BaseExits, Silent, Publish, AgeInv, TypeOK, client
  <2>5. /\ up' = up \ {n} /\ n \in up /\ now' = now /\ call' = call
        /\ lastUp' = [lastUp EXCEPT ![n] = now]
        /\ IsFiniteSet(retained')
        /\ \A x \in retained' \cup Queued' \cup handling' :
               x \in retained \cup Queued \cup handling \/ Fresh(x, n)
      BY <1>2, <2>1, <2>2, PublishTypes DEF BaseExits, Publish
  <2> QED
      BY <2>2, <2>4, <2>5, LivesInv
<1>3. CASE BaseCrashes(n)
  <2>1. lastUp' \in [Node -> Nat] /\ up' \in SUBSET Node
      BY <1>0, <1>3 DEF BaseCrashes, AgeInv, TypeOK
  <2>2. TypeOK'
      BY <1>3, <2>1 DEF BaseCrashes, Silent, AgeInv, TypeOK, client, history
  <2>3. Queued' = Queued /\ IsFiniteSet(retained')
      BY <1>3 DEF BaseCrashes, Queued, AgeInv
  <2>4. /\ up' = up \ {n} /\ n \in up /\ now' = now /\ call' = call
        /\ report' = {}
        /\ lastUp' = [lastUp EXCEPT ![n] = now]
        /\ retained' = retained /\ handling' = handling
      BY <1>3 DEF BaseCrashes, Silent
  <2> QED
      BY <2>2, <2>3, <2>4, LivesInv
<1>4. CASE BaseBeats(n)
  <2> DEFINE m == Heartbeat(n, "ACTIVATED", life[n])
  <2>1. m \in Message /\ Fresh(m, n)
      BY <1>0, HeartbeatType DEF Heartbeat, Fresh
  <2> HIDE DEF m
  <2>2. Publish(m) /\ report' = {}
      BY <1>4 DEF BaseBeats, Silent, m
  <2>3. TypeOK'
      BY <1>4, <2>1, <2>2, PublishTypes
         DEF BaseBeats, Silent, Publish, AgeInv, TypeOK, client, base
  <2>4. n \in up /\ UNCHANGED <<up, lastUp, now>>
      BY <1>4 DEF BaseBeats, base
  <2>5. up' = up \cup {n}
      BY <2>4
  <2>6. call' = call
      BY <2>2 DEF Publish
  <2>7. /\ IsFiniteSet(retained')
        /\ \A x \in retained' \cup Queued' \cup handling' :
               x \in retained \cup Queued \cup handling \/ Fresh(x, n)
      BY <2>1, <2>2, PublishTypes
  <2> QED
      BY <2>2, <2>3, <2>4, <2>5, <2>6, <2>7, LivesInv
<1> QED
    BY <1>1, <1>2, <1>3, <1>4

LEMMA PublishesInv ==
    ASSUME AgeInv, NEW n \in Node, NEW topic \in Published,
           NEW body \in Bodies(topic), BasePublishes(n, topic, body)
    PROVE  AgeInv'
<1> DEFINE m == [topic |-> topic, node |-> n, sent |-> now, life |-> life[n],
                 body |-> body]
<1>1. m \in Message /\ Fresh(m, n)
    BY MqttBounds DEF Message, Bodies, AgeInv, TypeOK, Fresh
<1> HIDE DEF m
<1>2. Publish(m) /\ report' = {}
    BY DEF BasePublishes, Silent, m
<1>3. left' \in [ticks : Nat, messages : Nat, starts : Nat, losses : Nat, calls : Nat]
  <2>1. left.messages \in Nat /\ left.messages > 0 /\ left.messages - 1 \in Nat
      BY DEF BasePublishes, AgeInv, TypeOK
  <2> QED
      BY <2>1 DEF BasePublishes, AgeInv, TypeOK
<1>4. TypeOK'
    BY <1>1, <1>2, <1>3, PublishTypes
       DEF BasePublishes, Silent, Publish, AgeInv, TypeOK, client, base
<1>5. n \in up /\ UNCHANGED <<up, lastUp, now>>
    BY DEF BasePublishes, base
<1>6. up' = up \cup {n}
    BY <1>5
<1>7. call' = call
    BY <1>2 DEF Publish
<1>8. /\ IsFiniteSet(retained')
      /\ \A x \in retained' \cup Queued' \cup handling' :
             x \in retained \cup Queued \cup handling \/ Fresh(x, n)
    BY <1>1, <1>2, PublishTypes
<1> QED
    BY <1>2, <1>4, <1>5, <1>6, <1>7, <1>8, LivesInv

-----------------------------------------------------------------------------
(* Lost connections, restarts and calls.                                   *)
LEMMA Marred ==
    ASSUME NEW r \in CallState, NEW place \in {"idle", "next", "sent", "failed"}
    PROVE  /\ [r EXCEPT !.pc = place, !.clean = FALSE] \in CallState
           /\ [r EXCEPT !.pc = place, !.clean = FALSE].pc = place
    BY DEF CallState

LEMMA Advanced ==
    ASSUME NEW r \in CallState, NEW place \in {"idle", "next", "sent", "failed"},
           NEW i \in 1 .. 6
    PROVE  /\ [r EXCEPT !.pc = place, !.i = i] \in CallState
           /\ [r EXCEPT !.pc = place, !.i = i].pc = place
    BY DEF CallState

LEMMA Ended ==
    ASSUME NEW r \in CallState
    PROVE  /\ [r EXCEPT !.pc = "idle", !.i = 1, !.kind = "register", !.clean = FALSE]
                  \in CallState
           /\ [r EXCEPT !.pc = "idle", !.i = 1, !.kind = "register",
                        !.clean = FALSE].pc = "idle"
<1> DEFINE s == [r EXCEPT !.pc = "idle", !.i = 1]
<1>1. s \in CallState /\ s.pc = "idle"
  <2>1. 1 \in 1 .. 6
      OBVIOUS
  <2> QED
      BY <2>1, Advanced
<1>2. [r EXCEPT !.pc = "idle", !.i = 1, !.kind = "register", !.clean = FALSE]
          = [s EXCEPT !.kind = "register", !.clean = FALSE]
    OBVIOUS
<1> HIDE DEF s
<1>3. /\ [s EXCEPT !.kind = "register", !.clean = FALSE] \in CallState
      /\ [s EXCEPT !.kind = "register", !.clean = FALSE].pc = "idle"
    BY <1>1 DEF CallState
<1> QED
    BY <1>2, <1>3

LEMMA Unsubscribed ==
    ASSUME NEW r \in CallState, NEW i \in 1 .. 6, NEW clean \in BOOLEAN
    PROVE  /\ [r EXCEPT !.i = i, !.clean = clean] \in CallState
           /\ [r EXCEPT !.i = i, !.clean = clean].pc = r.pc
    BY DEF CallState

LEMMA LosesInv ==
    ASSUME AgeInv, Lose
    PROVE  AgeInv'
<1>1. PICK k \in 0 .. Len(inbox) : inbox' = SubSeq(inbox, 1, k)
    BY DEF Lose
<1>2. inbox \in Seq(Message)
    BY DEF AgeInv, TypeOK
<1>3. inbox' \in Seq(Message) /\ Queued' \subseteq Queued
    BY <1>1, <1>2, PrefixMembers, QueuedMembers
<1>4. left' \in [ticks : Nat, messages : Nat, starts : Nat, losses : Nat, calls : Nat]
  <2>1. left.losses > 0 /\ left' = [left EXCEPT !.losses = @ - 1]
      BY DEF Lose
  <2>2. left \in [ticks : Nat, messages : Nat, starts : Nat, losses : Nat, calls : Nat]
      BY DEF AgeInv, TypeOK
  <2>3. left.losses - 1 \in Nat
      BY <2>1, <2>2
  <2> QED
      BY <2>1, <2>2, <2>3
<1>5. call' \in [Caller -> CallState] /\ Sending'
  <2> DEFINE lost(c) == [call[c] EXCEPT !.pc = IF @ = "sent" THEN "failed" ELSE @,
                                        !.clean = FALSE]
  <2>1. ASSUME NEW c \in Caller
        PROVE  lost(c) \in CallState /\ lost(c).pc # "sent"
    <3>1. call[c] \in CallState
        BY DEF AgeInv, TypeOK
    <3> DEFINE place == IF call[c].pc = "sent" THEN "failed" ELSE call[c].pc
    <3>2. place \in {"idle", "next", "sent", "failed"} /\ place # "sent"
        BY <3>1 DEF CallState
    <3>3. lost(c) = [call[c] EXCEPT !.pc = place, !.clean = FALSE]
        OBVIOUS
    <3> HIDE DEF place
    <3> QED
        BY <3>1, <3>2, <3>3, Marred
  <2>2. call' = [c \in Caller |-> lost(c)]
      BY DEF Lose
  <2> QED
      BY <2>1, <2>2 DEF Sending
<1>6. TypeOK'
    BY <1>3, <1>4, <1>5 DEF AgeInv, TypeOK, Lose, Silent, base
<1>7. now' = now /\ now \in Nat
    BY DEF Lose, AgeInv, TypeOK
<1>8. now' >= now
    BY <1>7
<1> QED
    BY <1>3, <1>5, <1>6, <1>8, AgeKept DEF Lose, Silent, base

LEMMA RestartsInv ==
    ASSUME AgeInv, ProcessRestarts
    PROVE  AgeInv'
<1>1. inbox' = <<>>
    BY DEF ProcessRestarts
<1>2. inbox' \in Seq(Message) /\ Queued' = {}
    BY <1>1 DEF Queued
<1>3. left' \in [ticks : Nat, messages : Nat, starts : Nat, losses : Nat, calls : Nat]
  <2>1. left.losses > 0 /\ left' = [left EXCEPT !.losses = @ - 1]
      BY DEF ProcessRestarts
  <2>2. left \in [ticks : Nat, messages : Nat, starts : Nat, losses : Nat, calls : Nat]
      BY DEF AgeInv, TypeOK
  <2>3. left.losses - 1 \in Nat
      BY <2>1, <2>2
  <2> QED
      BY <2>1, <2>2, <2>3
<1>4. call' \in [Caller -> CallState] /\ Sending'
  <2> DEFINE gone(c) == [call[c] EXCEPT !.pc = "idle", !.i = 1, !.kind = "register",
                                        !.clean = FALSE]
  <2>1. ASSUME NEW c \in Caller
        PROVE  gone(c) \in CallState /\ gone(c).pc # "sent"
    <3>1. call[c] \in CallState
        BY DEF AgeInv, TypeOK
    <3> QED
        BY <3>1, Ended
  <2>2. call' = [c \in Caller |-> gone(c)]
      BY DEF ProcessRestarts
  <2> QED
      BY <2>1, <2>2 DEF Sending
<1>5. known' \in [Node -> [life : Nat, state : {"none", "ACTIVATED", "DEACTIVATED"}]]
    BY DEF ProcessRestarts, NoBeat
<1>6. TypeOK'
    BY <1>2, <1>3, <1>4, <1>5 DEF AgeInv, TypeOK, ProcessRestarts, base
<1>7. now' = now /\ now \in Nat
    BY DEF ProcessRestarts, AgeInv, TypeOK
<1>8. now' >= now
    BY <1>7
<1> QED
    BY <1>2, <1>4, <1>6, <1>8, AgeKept DEF ProcessRestarts, base

LEMMA CallsMethodInv ==
    ASSUME AgeInv, NEW c \in Caller, NEW n \in Node,
           NEW kind \in {"register", "unregister"}, CallMethod(c, kind, n)
    PROVE  AgeInv'
<1>1. left' \in [ticks : Nat, messages : Nat, starts : Nat, losses : Nat, calls : Nat]
  <2>1. left.calls \in Nat /\ left.calls > 0 /\ left.calls - 1 \in Nat
      BY DEF CallMethod, AgeInv, TypeOK
  <2> QED
      BY <2>1 DEF CallMethod, AgeInv, TypeOK
<1>2. call' \in [Caller -> CallState] /\ Sending'
  <2> DEFINE rivals == {d \in Caller : call[d].pc # "idle" /\ call[d].node = n}
             begun == [pc |-> "next", node |-> n, i |-> 1, kind |-> kind,
                       clean |-> rivals = {}]
             marred(d) == [call[d] EXCEPT !.clean = FALSE]
  <2>1. begun \in CallState
      BY DEF CallState
  <2>2. ASSUME NEW d \in Caller
        PROVE  /\ call[d] \in CallState /\ marred(d) \in CallState
               /\ marred(d).pc = call[d].pc /\ marred(d).i = call[d].i
      BY DEF AgeInv, TypeOK, CallState
  <2>3. call' = [d \in Caller |-> IF d = c THEN begun
                                  ELSE IF d \in rivals THEN marred(d) ELSE call[d]]
      BY DEF CallMethod
  <2>4. \A d \in Caller : call[d].pc = "sent" => call[d].i <= 5
      BY DEF AgeInv, Sending
  <2> QED
      BY <2>1, <2>2, <2>3, <2>4 DEF Sending
<1>3. TypeOK'
    BY <1>1, <1>2 DEF AgeInv, TypeOK, CallMethod, Silent, base, client
<1>4. Queued' = Queued /\ now' >= now
    BY DEF CallMethod, Queued, AgeInv, TypeOK
<1> QED
    BY <1>2, <1>3, <1>4, AgeKept DEF CallMethod, Silent, base

(* The state of a call stays in its domain.                                *)
LEMMA CallTypes ==
    ASSUME AgeInv, NEW c \in Caller, Call(c)
    PROVE  call' \in [Caller -> CallState] /\ Sending'
<1>0. call \in [Caller -> CallState] /\ call[c] \in CallState
    BY DEF AgeInv, TypeOK
<1>1. \A d \in Caller : call[d].pc = "sent" => call[d].i <= 5
    BY DEF AgeInv, Sending
<1>2. CASE SubSends(c)
  <2> DEFINE r == [call[c] EXCEPT !.pc = "sent"]
  <2>1. r \in CallState /\ r.i = call[c].i
      BY <1>0 DEF CallState
  <2>2. call' = [call EXCEPT ![c] = r] /\ call[c].i <= 5
      BY <1>2 DEF SubSends, NodeTopics
  <2> QED
      BY <1>0, <1>1, <2>1, <2>2 DEF Sending
<1>3. CASE SubReturns(c)
  <2> DEFINE r == [call[c] EXCEPT !.pc = "next", !.i = @ + 1]
  <2>1. call[c].i \in 1 .. 6 /\ call[c].i <= 5
      BY <1>0, <1>1, <1>3 DEF SubReturns, At, CallState
  <2>2. call[c].i + 1 \in 1 .. 6
      BY <2>1
  <2>3. r = [call[c] EXCEPT !.pc = "next", !.i = call[c].i + 1]
      OBVIOUS
  <2>4. r \in CallState /\ r.pc # "sent"
      BY <1>0, <2>2, <2>3, Advanced
  <2>5. call' = [call EXCEPT ![c] = r]
      BY <1>3 DEF SubReturns
  <2> HIDE DEF r
  <2> QED
      BY <1>0, <1>1, <2>4, <2>5 DEF Sending
<1>4. CASE RegisterNodeFails(c) \/ RegisterNodeReturns(c) \/ UnRegisterNodeReturns(c)
  <2> DEFINE r == [call[c] EXCEPT !.pc = "idle", !.i = 1, !.kind = "register",
                                  !.clean = FALSE]
  <2>1. r \in CallState /\ r.pc # "sent"
      BY <1>0, Ended
  <2>2. call' = [call EXCEPT ![c] = r]
      BY <1>4 DEF RegisterNodeFails, RegisterNodeReturns, UnRegisterNodeReturns, Returned
  <2> HIDE DEF r
  <2> QED
      BY <1>0, <1>1, <2>1, <2>2 DEF Sending
<1>5. CASE UnSub(c)
  <2> DEFINE r == [call[c] EXCEPT !.i = @ + 1, !.clean = @ /\ connected]
  <2>1. call[c].i \in 1 .. 6 /\ call[c].i <= 4 /\ call[c].pc = "next"
      BY <1>0, <1>5 DEF UnSub, At, CallState, UnRegisterTopics
  <2>2. call[c].i + 1 \in 1 .. 6 /\ (call[c].clean /\ connected) \in BOOLEAN
      BY <2>1
  <2>3. r = [call[c] EXCEPT !.i = call[c].i + 1, !.clean = call[c].clean /\ connected]
      OBVIOUS
  <2>4. r \in CallState /\ r.pc = call[c].pc
      BY <1>0, <2>2, <2>3, Unsubscribed
  <2>5. call' = [call EXCEPT ![c] = r]
      BY <1>5 DEF UnSub
  <2> HIDE DEF r
  <2> QED
      BY <1>0, <1>1, <2>1, <2>4, <2>5 DEF Sending
<1> QED
    BY <1>2, <1>3, <1>4, <1>5 DEF Call

LEMMA CallInvAge ==
    ASSUME AgeInv, NEW c \in Caller, Call(c)
    PROVE  AgeInv'
<1>1. call' \in [Caller -> CallState] /\ Sending'
    BY CallTypes
<1>2. call[c] \in CallState
    BY DEF AgeInv, TypeOK
<1>3. CASE SubReturns(c)
  <2>1. <<NodeTopics[call[c].i], call[c].node>> \in Topic \X Node
    <3>1. call[c].i \in 1 .. 5 /\ call[c].node \in Node
        BY <1>2, <1>3 DEF AgeInv, Sending, SubReturns, At, CallState
    <3> QED
        BY <3>1 DEF Topic
  <2>2. /\ subs' \in SUBSET (Topic \X Node)
        /\ routes' \in SUBSET (Topic \X Node)
        /\ inbox' \in Seq(Message)
        /\ Queued' \subseteq Queued \cup retained
      BY <1>3, <2>1, SubscribedTypes DEF SubReturns
  <2>3. TypeOK'
      BY <1>1, <1>3, <2>2 DEF AgeInv, TypeOK, SubReturns, Silent, base, history
  <2>4. now' >= now
      BY <1>3 DEF SubReturns, AgeInv, TypeOK
  <2> QED
      BY <1>1, <1>3, <2>2, <2>3, <2>4, AgeKept DEF SubReturns, Silent, base
<1>4. CASE ~SubReturns(c)
  <2>1. subs' \in SUBSET (Topic \X Node) /\ routes' \in SUBSET (Topic \X Node)
    <3>1. CASE SubSends(c)
      <4>1. call[c].i \in 1 .. 5 /\ call[c].node \in Node
          BY <1>2, <3>1 DEF SubSends, CallState, NodeTopics
      <4>2. <<NodeTopics[call[c].i], call[c].node>> \in Topic \X Node
          BY <4>1 DEF Topic
      <4> QED
          BY <3>1, <4>2 DEF SubSends, AgeInv, TypeOK
    <3>2. CASE ~SubSends(c)
        BY <1>4, <3>2 DEF Call, RegisterNodeFails, RegisterNodeReturns, UnSub,
                          UnRegisterNodeReturns, client, AgeInv, TypeOK
    <3> QED
        BY <3>1, <3>2
  <2>2. registered' \in SUBSET Node /\ intact' \in SUBSET Node /\ owed' = owed
      BY <1>2, <1>4 DEF Call, SubSends, RegisterNodeFails, RegisterNodeReturns,
                        UnSub, UnRegisterNodeReturns, history, AgeInv, TypeOK,
                        CallState
  <2>3. /\ UNCHANGED <<now, base, retained, connected, greeting, inbox, handling,
                       callbacks, known, left>>
        /\ report' = {}
      BY <1>4 DEF Call, SubSends, RegisterNodeFails, RegisterNodeReturns,
                  UnSub, UnRegisterNodeReturns, client, Silent
  <2>4. TypeOK'
      BY <1>1, <2>1, <2>2, <2>3 DEF AgeInv, TypeOK, base
  <2>5. Queued' = Queued /\ now' >= now
      BY <2>3 DEF Queued, AgeInv, TypeOK
  <2> QED
      BY <1>1, <2>3, <2>4, <2>5, AgeKept DEF base
<1> QED
    BY <1>3, <1>4

-----------------------------------------------------------------------------
(* The invariant of messages is established and kept.                      *)
LEMMA AgeInit == Init => AgeInv
<1> SUFFICES ASSUME Init PROVE AgeInv
    OBVIOUS
<1>1. call \in [Caller -> CallState] /\ Sending
  <2>1. call \in [Caller -> [pc : {"idle"}, node : Node, i : {1},
                             kind : {"register"}, clean : {FALSE}]]
      BY DEF Init
  <2>2. ASSUME NEW r \in [pc : {"idle"}, node : Node, i : {1},
                          kind : {"register"}, clean : {FALSE}]
        PROVE  r \in CallState /\ r.pc = "idle"
    <3>1. /\ r = [pc |-> r.pc, node |-> r.node, i |-> r.i, kind |-> r.kind,
                  clean |-> r.clean]
          /\ r.node \in Node
        OBVIOUS
    <3>2. r.pc = "idle" /\ r.i = 1 /\ r.kind = "register" /\ r.clean = FALSE
        OBVIOUS
    <3>3. r = [pc |-> "idle", node |-> r.node, i |-> 1, kind |-> "register",
               clean |-> FALSE]
        BY <3>1, <3>2
    <3>4. [pc |-> "idle", node |-> r.node, i |-> 1, kind |-> "register",
           clean |-> FALSE] \in CallState
        BY <3>1 DEF CallState
    <3> QED
        BY <3>2, <3>3, <3>4
  <2> QED
      BY <2>1, <2>2 DEF Sending
<1>2. left \in [ticks : Nat, messages : Nat, starts : Nat, losses : Nat, calls : Nat]
    BY MqttBounds DEF Init
<1>3. known \in [Node -> [life : Nat, state : {"none", "ACTIVATED", "DEACTIVATED"}]]
    BY DEF Init, NoBeat
<1>4. TypeOK
  <2>1. /\ now \in Nat /\ up \in SUBSET Node
        /\ life \in [Node -> Nat] /\ lastUp \in [Node -> Nat]
      BY DEF Init
  <2>2. inbox \in Seq(Message)
      BY DEF Init
  <2>3. /\ retained \in SUBSET Message /\ connected \in BOOLEAN
        /\ greeting \in SUBSET SharedTopics
        /\ subs \in SUBSET (Topic \X Node) /\ routes \in SUBSET (Topic \X Node)
        /\ handling \in SUBSET Message /\ callbacks \in BOOLEAN
      BY DEF Init
  <2>4. /\ report \in SUBSET Message /\ registered \in SUBSET Node
        /\ intact \in SUBSET Node /\ owed \in SUBSET Message
      BY DEF Init
  <2> QED
      BY <1>1, <1>2, <1>3, <2>1, <2>2, <2>3, <2>4 DEF TypeOK
<1>5. IsFiniteSet(retained)
    BY FS_EmptySet DEF Init
<1>6. Aged /\ DeadStaySilent
    BY DEF Init, Aged, Queued, DeadStaySilent
<1> QED
    BY <1>1, <1>4, <1>5, <1>6 DEF AgeInv

LEMMA AgeNext == AgeInv /\ [Next]_vars => AgeInv'
<1> SUFFICES ASSUME AgeInv, [Next]_vars PROVE AgeInv'
    OBVIOUS
<1>1. CASE UNCHANGED vars
    BY <1>1 DEF AgeInv, TypeOK, Aged, Old, Queued, Sending, DeadStaySilent, vars,
                base, client, told, history
<1>2. CASE Next
    BY <1>2, TickInv, BaseInv, PublishesInv, ConnectInv, LosesInv, RestartsInv,
       GreetInv, CallsMethodInv, CallInvAge, DispatchInv, CallbackInv DEF Next
<1> QED
    BY <1>1, <1>2

LEMMA AgeInvariance == Spec => []AgeInv
    BY AgeInit, AgeNext, PTL DEF Spec

(* Every variable of the tunnel, its broker and its bases stays in its     *)
(* domain.                                                                 *)
THEOREM MqttTypes == Spec => []TypeOK
<1>1. AgeInv => TypeOK
    BY DEF AgeInv
<1> QED
    BY AgeInvariance, <1>1, PTL

(* The callbacks' check of the timestamp keeps dead bases silent, for any  *)
(* number of bases, losses, restarts and retained messages.                *)
THEOREM DeadSilent == Spec => []DeadStaySilent
<1>1. AgeInv => DeadStaySilent
    BY DEF AgeInv
<1> QED
    BY AgeInvariance, <1>1, PTL

-----------------------------------------------------------------------------
(* Undisturbed calls of RegisterNode and UnRegisterNode.                   *)

Active(c) == call[c].pc # "idle"

(* An undisturbed call is the only one of its node, and a node that is     *)
(* intact has none.                                                        *)
Alone ==
    /\ \A c, d \in Caller :
          call[c].clean /\ d # c /\ Active(d) => call[d].node # call[c].node
    /\ \A c \in Caller : call[c].clean => call[c].pc \in {"next", "sent"}
    /\ \A c \in Caller : Active(c) => call[c].node \notin intact

(* What an undisturbed call has done so far.                               *)
SoFar ==
    \A c \in Caller : call[c].clean =>
       IF call[c].kind = "register"
       THEN \A j \in DOMAIN NodeTopics : j < call[c].i =>
               <<NodeTopics[j], call[c].node>> \in subs \cap routes
       ELSE /\ call[c].node \notin registered
            /\ \A j \in DOMAIN UnRegisterTopics : j < call[c].i =>
                  <<UnRegisterTopics[j], call[c].node>> \notin routes

(* What an undisturbed UnRegisterNode leaves behind.                       *)
NoRoutes ==
    \A n \in intact \ registered, j \in DOMAIN UnRegisterTopics :
        <<UnRegisterTopics[j], n>> \notin routes

CalmInv == Alone /\ SoFar /\ NoRoutes /\ RegisteredHears

LEMMA NodeTopicsOf ==
    /\ DOMAIN NodeTopics = 1 .. 5 /\ Len(NodeTopics) = 5
    /\ DOMAIN UnRegisterTopics = 1 .. 4 /\ Len(UnRegisterTopics) = 4
    /\ \A j \in 1 .. 4 : UnRegisterTopics[j] \notin SharedTopics
    /\ \A t \in Topic \ (SharedTopics \cup {"batchInstall"}) :
          \E j \in 1 .. 4 : UnRegisterTopics[j] = t
<1>1. /\ DOMAIN NodeTopics = 1 .. 5 /\ Len(NodeTopics) = 5
      /\ DOMAIN UnRegisterTopics = 1 .. 4 /\ Len(UnRegisterTopics) = 4
    BY DEF NodeTopics, UnRegisterTopics
<1>2. /\ NodeTopics[1] = "health" /\ NodeTopics[2] = "simpleBiz"
      /\ NodeTopics[3] = "biz" /\ NodeTopics[4] = "bizOperation"
      /\ NodeTopics[5] = "batchInstall"
      /\ UnRegisterTopics[1] = "health" /\ UnRegisterTopics[2] = "simpleBiz"
      /\ UnRegisterTopics[3] = "biz" /\ UnRegisterTopics[4] = "bizOperation"
    BY DEF NodeTopics, UnRegisterTopics
<1>3. \A j \in 1 .. 4 : UnRegisterTopics[j] \notin SharedTopics
    BY <1>2 DEF SharedTopics
<1>4. ASSUME NEW t \in Topic \ (SharedTopics \cup {"batchInstall"})
      PROVE  \E j \in 1 .. 4 : UnRegisterTopics[j] = t
  <2>1. PICK i \in 1 .. 5 : t = NodeTopics[i]
      BY <1>4 DEF Topic
  <2>2. i # 5
      BY <1>2, <1>4, <2>1
  <2>3. i \in 1 .. 4 /\ UnRegisterTopics[i] = t
      BY <1>2, <2>1, <2>2
  <2> QED
      BY <2>3
<1> QED
    BY <1>1, <1>3, <1>4

(* Steps of no call only add subscriptions of shared topics.               *)
LEMMA CalmKept ==
    ASSUME CalmInv, UNCHANGED <<call, registered, intact>>,
           subs \subseteq subs', routes \subseteq routes',
           \A t, n : <<t, n>> \in routes' \ routes => t \in SharedTopics
    PROVE  CalmInv'
<1>1. Alone'
    BY DEF CalmInv, Alone, Active
<1>2. \A n : \A j \in DOMAIN UnRegisterTopics :
          <<UnRegisterTopics[j], n>> \notin routes
              => <<UnRegisterTopics[j], n>> \notin routes'
    BY NodeTopicsOf
<1>3. SoFar'
    BY <1>2 DEF CalmInv, SoFar
<1>4. NoRoutes' /\ RegisteredHears'
    BY <1>2 DEF CalmInv, NoRoutes, RegisteredHears
<1> QED
    BY <1>1, <1>3, <1>4 DEF CalmInv

(* The connection is lost, or the process dies, with all calls.            *)
LEMMA LossCalms ==
    ASSUME \A c \in Caller : call'[c].clean = FALSE, intact' = {}
    PROVE  CalmInv'
BY DEF CalmInv, Alone, SoFar, NoRoutes, RegisteredHears

(* A call begins: it disturbs the others of its node, and they disturb it. *)
LEMMA BeginCalms ==
    ASSUME AgeInv, CalmInv, NEW c \in Caller, NEW n \in Node,
           NEW kind \in {"register", "unregister"}, CallMethod(c, kind, n)
    PROVE  CalmInv'
<1> DEFINE rivals == {d \in Caller : call[d].pc # "idle" /\ call[d].node = n}
<1>1. /\ call[c].pc = "idle"
      /\ UNCHANGED <<subs, routes>>
      /\ registered' = IF kind = "unregister" THEN registered \ {n} ELSE registered
      /\ intact' = intact \ {n}
      /\ call' = [d \in Caller |->
            IF d = c THEN [pc |-> "next", node |-> n, i |-> 1, kind |-> kind,
                           clean |-> rivals = {}]
            ELSE IF d \in rivals THEN [call[d] EXCEPT !.clean = FALSE] ELSE call[d]]
    BY DEF CallMethod, client
<1>2. call \in [Caller -> CallState]
    BY DEF AgeInv, TypeOK
<1>3. /\ call'[c].pc = "next" /\ call'[c].node = n /\ call'[c].i = 1
      /\ call'[c].kind = kind /\ (call'[c].clean <=> rivals = {})
    BY <1>1
<1>4. ASSUME NEW d \in Caller \ {c}
      PROVE  /\ call'[d].pc = call[d].pc /\ call'[d].node = call[d].node
             /\ call'[d].i = call[d].i /\ call'[d].kind = call[d].kind
             /\ call'[d].clean => call[d].clean /\ d \notin rivals
  <2>1. CASE d \in rivals
      BY <1>1, <1>2, <2>1 DEF CallState
  <2>2. CASE d \notin rivals
      BY <1>1, <2>2
  <2> QED
      BY <2>1, <2>2
<1>5. \A d \in Caller : d \in rivals <=> call[d].pc # "idle" /\ call[d].node = n
    OBVIOUS
<1>6. rivals \subseteq Caller
    OBVIOUS
<1> HIDE DEF rivals
<1>7. Alone'
  <2>1. \A d, e \in Caller :
            call'[d].clean /\ e # d /\ call'[e].pc # "idle"
                => call'[e].node # call'[d].node
    <3> SUFFICES ASSUME NEW d \in Caller, NEW e \in Caller, call'[d].clean,
                        e # d, call'[e].pc # "idle"
                 PROVE  call'[e].node # call'[d].node
        OBVIOUS
    <3>1. CASE d = c
        BY <1>3, <1>4, <1>5, <3>1
    <3>2. CASE e = c
      <4>1. call[d].clean /\ d \notin rivals
          BY <1>4, <3>2
      <4>2. call[d].pc # "idle"
          BY <4>1 DEF CalmInv, Alone
      <4> QED
          BY <1>3, <1>4, <1>5, <3>2, <4>1, <4>2
    <3>3. CASE d # c /\ e # c
        BY <1>4, <3>3 DEF CalmInv, Alone, Active
    <3> QED
        BY <3>1, <3>2, <3>3
  <2>2. \A d \in Caller : call'[d].clean => call'[d].pc \in {"next", "sent"}
      BY <1>3, <1>4 DEF CalmInv, Alone
  <2>3. \A d \in Caller : call'[d].pc # "idle" => call'[d].node \notin intact'
      BY <1>1, <1>3, <1>4 DEF CalmInv, Alone, Active
  <2> QED
      BY <2>1, <2>2, <2>3 DEF Alone, Active
<1>8. SoFar'
  <2> SUFFICES ASSUME NEW d \in Caller, call'[d].clean
               PROVE  IF call'[d].kind = "register"
                      THEN \A j \in DOMAIN NodeTopics : j < call'[d].i =>
                              <<NodeTopics[j], call'[d].node>> \in subs \cap routes
                      ELSE /\ call'[d].node \notin registered'
                           /\ \A j \in DOMAIN UnRegisterTopics : j < call'[d].i =>
                                 <<UnRegisterTopics[j], call'[d].node>> \notin routes
      BY <1>1 DEF SoFar
  <2>1. CASE d = c
      BY <1>1, <1>3, <2>1, NodeTopicsOf
  <2>2. CASE d # c
    <3>1. call[d].clean
        BY <1>4, <2>2
    <3> QED
        BY <1>1, <1>4, <2>2, <3>1 DEF CalmInv, SoFar
  <2> QED
      BY <2>1, <2>2
<1>9. NoRoutes' /\ RegisteredHears'
    BY <1>1 DEF CalmInv, NoRoutes, RegisteredHears
<1> QED
    BY <1>7, <1>8, <1>9 DEF CalmInv

(* One call goes on: the others, and the nodes that are intact, are of     *)
(* other nodes when it is undisturbed.                                     *)
GoesOn(c) ==
    /\ call'[c].node = call[c].node /\ call'[c].kind = call[c].kind
    /\ call'[c].pc \in {"next", "sent"} /\ call[c].pc # "idle"
    /\ call'[c].clean => call[c].clean
    /\ \A d \in Caller \ {c} : call'[d] = call[d]
    /\ UNCHANGED <<registered, intact>>

LEMMA GoesOnAlone ==
    ASSUME CalmInv, NEW c \in Caller, GoesOn(c)
    PROVE  Alone'
BY DEF GoesOn, CalmInv, Alone, Active

(* A subscription of RegisterNode.                                         *)
LEMMA RegisterCalms ==
    ASSUME CalmInv, NEW c \in Caller, GoesOn(c), call[c].kind = "register",
           subs \subseteq subs', routes \subseteq routes',
           \A t, n : <<t, n>> \in routes' \ routes => n = call[c].node,
           call'[c].clean =>
               \A j \in DOMAIN NodeTopics : j < call'[c].i =>
                   <<NodeTopics[j], call[c].node>> \in subs' \cap routes'
    PROVE  CalmInv'
<1>1. Alone'
    BY GoesOnAlone
<1>2. SoFar'
  <2> SUFFICES ASSUME NEW d \in Caller, call'[d].clean
               PROVE  IF call'[d].kind = "register"
                      THEN \A j \in DOMAIN NodeTopics : j < call'[d].i =>
                              <<NodeTopics[j], call'[d].node>> \in subs' \cap routes'
                      ELSE /\ call'[d].node \notin registered'
                           /\ \A j \in DOMAIN UnRegisterTopics : j < call'[d].i =>
                                 <<UnRegisterTopics[j], call'[d].node>> \notin routes'
      BY DEF SoFar
  <2>1. CASE d = c
      BY <2>1 DEF GoesOn
  <2>2. CASE d # c
    <3>1. call'[d] = call[d] /\ call[d].clean
        BY <2>2 DEF GoesOn
    <3>2. call[d].node # call[c].node
        BY <2>2, <3>1 DEF GoesOn, CalmInv, Alone, Active
    <3> QED
        BY <3>1, <3>2 DEF GoesOn, CalmInv, SoFar
  <2> QED
      BY <2>1, <2>2
<1>3. call[c].node \notin intact
    BY DEF GoesOn, CalmInv, Alone, Active
<1>4. NoRoutes' /\ RegisteredHears'
    BY <1>3 DEF GoesOn, CalmInv, NoRoutes, RegisteredHears
<1> QED
    BY <1>1, <1>2, <1>4 DEF CalmInv

(* An unsubscription of UnRegisterNode.                                    *)
LEMMA UnregisterCalms ==
    ASSUME CalmInv, NEW c \in Caller, GoesOn(c), call[c].kind = "unregister",
           subs' \subseteq subs, routes' \subseteq routes,
           \A t, n : <<t, n>> \in subs \ subs' => n = call[c].node,
           \A t, n : <<t, n>> \in routes \ routes' => n = call[c].node,
           call'[c].clean =>
               \A j \in DOMAIN UnRegisterTopics : j < call'[c].i =>
                   <<UnRegisterTopics[j], call[c].node>> \notin routes'
    PROVE  CalmInv'
<1>1. Alone'
    BY GoesOnAlone
<1>2. SoFar'
  <2> SUFFICES ASSUME NEW d \in Caller, call'[d].clean
               PROVE  IF call'[d].kind = "register"
                      THEN \A j \in DOMAIN NodeTopics : j < call'[d].i =>
                              <<NodeTopics[j], call'[d].node>> \in subs' \cap routes'
                      ELSE /\ call'[d].node \notin registered'
                           /\ \A j \in DOMAIN UnRegisterTopics : j < call'[d].i =>
                                 <<UnRegisterTopics[j], call'[d].node>> \notin routes'
      BY DEF SoFar
  <2>1. CASE d = c
      BY <2>1 DEF GoesOn, CalmInv, SoFar
  <2>2. CASE d # c
    <3>1. call'[d] = call[d] /\ call[d].clean
        BY <2>2 DEF GoesOn
    <3>2. call[d].node # call[c].node
        BY <2>2, <3>1 DEF GoesOn, CalmInv, Alone, Active
    <3> QED
        BY <3>1, <3>2 DEF GoesOn, CalmInv, SoFar
  <2> QED
      BY <2>1, <2>2
<1>3. call[c].node \notin intact
    BY DEF GoesOn, CalmInv, Alone, Active
<1>4. NoRoutes' /\ RegisteredHears'
    BY <1>3 DEF GoesOn, CalmInv, NoRoutes, RegisteredHears
<1> QED
    BY <1>1, <1>2, <1>4 DEF CalmInv

(* A call returns; a node of an undisturbed one is intact.                 *)
LEMMA ReturnCalms ==
    ASSUME AgeInv, CalmInv, NEW c \in Caller, call' = Returned(c), Active(c),
           UNCHANGED <<subs, routes>>,
           \/ UNCHANGED <<registered, intact>>
           \/ /\ call[c].i > IF call[c].kind = "register" THEN 5 ELSE 4
              /\ registered' = IF call[c].kind = "register"
                               THEN registered \cup {call[c].node} ELSE registered
              /\ intact' = IF call[c].clean THEN intact \cup {call[c].node} ELSE intact
    PROVE  CalmInv'
<1> DEFINE n == call[c].node
<1>1. call \in [Caller -> CallState] /\ call[c].i \in Nat
  <2>1. call \in [Caller -> CallState]
      BY DEF AgeInv, TypeOK
  <2>2. call[c].i \in 1 .. 6
      BY <2>1 DEF CallState
  <2> QED
      BY <2>1, <2>2
<1>2. /\ call'[c].pc = "idle" /\ call'[c].clean = FALSE
      /\ \A d \in Caller \ {c} : call'[d] = call[d]
  <2>1. call' = [call EXCEPT ![c] = [call[c] EXCEPT !.pc = "idle", !.i = 1,
                                        !.kind = "register", !.clean = FALSE]]
      BY DEF Returned
  <2> DEFINE r == [call[c] EXCEPT !.pc = "idle", !.i = 1, !.kind = "register",
                                  !.clean = FALSE]
  <2>2. r.pc = "idle" /\ r.clean = FALSE
      BY <1>1 DEF CallState
  <2>3. call' = [call EXCEPT ![c] = r]
      BY <2>1
  <2> HIDE DEF r
  <2> QED
      BY <1>1, <2>2, <2>3
<1>3. intact' \subseteq intact \cup {n}
    OBVIOUS
<1>4. n \in intact' => call[c].clean
    BY DEF CalmInv, Alone
<1>5. registered \subseteq registered' /\ registered' \subseteq registered \cup {n}
    OBVIOUS
<1>6. n \notin intact
    BY DEF CalmInv, Alone
<1>7. n \in intact' =>
         IF call[c].kind = "register"
         THEN \A j \in DOMAIN NodeTopics : <<NodeTopics[j], n>> \in subs \cap routes
         ELSE /\ n \notin registered'
              /\ \A j \in DOMAIN UnRegisterTopics : <<UnRegisterTopics[j], n>> \notin routes
  <2> SUFFICES ASSUME n \in intact'
               PROVE  IF call[c].kind = "register"
                      THEN \A j \in DOMAIN NodeTopics :
                              <<NodeTopics[j], n>> \in subs \cap routes
                      ELSE /\ n \notin registered'
                           /\ \A j \in DOMAIN UnRegisterTopics :
                                 <<UnRegisterTopics[j], n>> \notin routes
      OBVIOUS
  <2>1. /\ call[c].clean
        /\ call[c].i > IF call[c].kind = "register" THEN 5 ELSE 4
        /\ registered' = IF call[c].kind = "register"
                         THEN registered \cup {n} ELSE registered
      BY <1>4, <1>6
  <2>2. CASE call[c].kind = "register"
    <3>1. \A j \in DOMAIN NodeTopics : j < call[c].i
        BY <1>1, <2>1, <2>2, NodeTopicsOf
    <3> QED
        BY <2>1, <2>2, <3>1 DEF CalmInv, SoFar
  <2>3. CASE call[c].kind # "register"
    <3>1. \A j \in DOMAIN UnRegisterTopics : j < call[c].i
        BY <1>1, <2>1, <2>3, NodeTopicsOf
    <3> QED
        BY <2>1, <2>3, <3>1 DEF CalmInv, SoFar
  <2> QED
      BY <2>2, <2>3
<1>8. n \in intact' /\ call[c].kind = "register" => n \in registered'
    BY <1>6
<1>9. \A d \in Caller \ {c} : call[d].clean => call[d].node # n
    BY DEF CalmInv, Alone
<1>10. n \in intact' => \A d \in Caller \ {c} : Active(d) => call[d].node # n
    BY <1>4 DEF CalmInv, Alone
<1> HIDE DEF n
<1>11. Alone'
    BY <1>2, <1>3, <1>10 DEF CalmInv, Alone, Active
<1>12. SoFar'
    BY <1>2, <1>5, <1>9 DEF CalmInv, SoFar
<1>13. NoRoutes'
    BY <1>3, <1>5, <1>7, <1>8 DEF CalmInv, NoRoutes
<1>14. RegisteredHears'
    BY <1>3, <1>5, <1>7 DEF CalmInv, RegisteredHears
<1> QED
    BY <1>11, <1>12, <1>13, <1>14 DEF CalmInv

LEMMA CallCalms ==
    ASSUME AgeInv, CalmInv, NEW c \in Caller, Call(c)
    PROVE  CalmInv'
<1>1. call \in [Caller -> CallState] /\ call[c] \in CallState /\ call[c].i \in 1 .. 6
    BY DEF AgeInv, TypeOK, CallState
<1>2. CASE SubSends(c)
  <2>1. /\ call' = [call EXCEPT ![c].pc = "sent"]
        /\ routes' = routes \cup {<<NodeTopics[call[c].i], call[c].node>>}
        /\ UNCHANGED <<subs, registered, intact>>
        /\ call[c].pc = "next" /\ call[c].kind = "register"
      BY <1>2 DEF SubSends, At, history
  <2>2. GoesOn(c) /\ call'[c].i = call[c].i
      BY <1>1, <2>1 DEF GoesOn, CallState
  <2>3. call'[c].clean =>
            \A j \in DOMAIN NodeTopics : j < call'[c].i =>
                <<NodeTopics[j], call[c].node>> \in subs' \cap routes'
      BY <2>1, <2>2 DEF GoesOn, CalmInv, SoFar
  <2>4. \A t, n : <<t, n>> \in routes' \ routes => n = call[c].node
      BY <2>1
  <2> QED
      BY <2>1, <2>2, <2>3, <2>4, RegisterCalms
<1>3. CASE SubReturns(c)
  <2>1. /\ call' = [call EXCEPT ![c].pc = "next", ![c].i = @ + 1]
        /\ subs' = subs \cup {<<NodeTopics[call[c].i], call[c].node>>}
        /\ routes' = routes \cup {<<NodeTopics[call[c].i], call[c].node>>}
        /\ UNCHANGED <<registered, intact>>
        /\ call[c].pc = "sent" /\ call[c].kind = "register"
      BY <1>3 DEF SubReturns, Subscribed, At, history
  <2>2. GoesOn(c) /\ call'[c].i = call[c].i + 1
      BY <1>1, <2>1 DEF GoesOn, CallState
  <2>3. call'[c].clean =>
            \A j \in DOMAIN NodeTopics : j < call'[c].i =>
                <<NodeTopics[j], call[c].node>> \in subs' \cap routes'
    <3> SUFFICES ASSUME call'[c].clean, NEW j \in 1 .. 5, j < call'[c].i
                 PROVE  <<NodeTopics[j], call[c].node>> \in subs' \cap routes'
        BY NodeTopicsOf
    <3>1. j < call[c].i \/ j = call[c].i
        BY <1>1, <2>2
    <3>2. call[c].clean
        BY <2>2 DEF GoesOn
    <3> QED
        BY <2>1, <3>1, <3>2, NodeTopicsOf DEF CalmInv, SoFar
  <2>4. \A t, n : <<t, n>> \in routes' \ routes => n = call[c].node
      BY <2>1
  <2> QED
      BY <2>1, <2>2, <2>3, <2>4, RegisterCalms
<1>4. CASE UnSub(c)
  <2> DEFINE channel == {<<UnRegisterTopics[call[c].i], call[c].node>>}
  <2>1. /\ call' = [call EXCEPT ![c].i = @ + 1, ![c].clean = @ /\ connected]
        /\ subs' = IF connected THEN subs \ channel ELSE subs
        /\ routes' = IF connected THEN routes \ channel ELSE routes
        /\ UNCHANGED <<registered, intact>>
        /\ call[c].pc = "next" /\ call[c].kind = "unregister"
      BY <1>4 DEF UnSub, At, history
  <2>2. /\ GoesOn(c) /\ call'[c].i = call[c].i + 1
        /\ call'[c].clean => call[c].clean /\ connected
      BY <1>1, <2>1 DEF GoesOn, CallState
  <2>3. call'[c].clean =>
            \A j \in DOMAIN UnRegisterTopics : j < call'[c].i =>
                <<UnRegisterTopics[j], call[c].node>> \notin routes'
    <3> SUFFICES ASSUME call'[c].clean, NEW j \in 1 .. 4, j < call'[c].i
                 PROVE  <<UnRegisterTopics[j], call[c].node>> \notin routes'
        BY NodeTopicsOf
    <3>1. j < call[c].i \/ j = call[c].i
        BY <1>1, <2>2
    <3> QED
        BY <2>1, <2>2, <3>1, NodeTopicsOf DEF CalmInv, SoFar
  <2>4. /\ \A t, n : <<t, n>> \in subs \ subs' => n = call[c].node
        /\ \A t, n : <<t, n>> \in routes \ routes' => n = call[c].node
        /\ subs' \subseteq subs /\ routes' \subseteq routes
      BY <2>1
  <2> HIDE DEF channel
  <2> QED
      BY <2>1, <2>2, <2>3, <2>4, UnregisterCalms
<1>5. CASE RegisterNodeFails(c)
    BY <1>5, ReturnCalms DEF RegisterNodeFails, SubFailed, At, Active, client, history
<1>6. CASE RegisterNodeReturns(c)
    BY <1>6, ReturnCalms, NodeTopicsOf DEF RegisterNodeReturns, At, Active, client
<1>7. CASE UnRegisterNodeReturns(c)
    BY <1>7, ReturnCalms, NodeTopicsOf DEF UnRegisterNodeReturns, At, Active, client
<1> QED
    BY <1>2, <1>3, <1>4, <1>5, <1>6, <1>7 DEF Call

LEMMA CalmInit == Init => CalmInv
<1> SUFFICES ASSUME Init PROVE CalmInv
    OBVIOUS
<1>1. \A c \in Caller : call[c].clean = FALSE
    BY DEF Init
<1> QED
    BY <1>1 DEF Init, CalmInv, Alone, SoFar, NoRoutes, RegisteredHears

LEMMA CalmNext == AgeInv /\ CalmInv /\ [Next]_vars => CalmInv'
<1> SUFFICES ASSUME AgeInv, CalmInv, [Next]_vars PROVE CalmInv'
    OBVIOUS
<1>1. CASE UNCHANGED <<call, registered, intact, subs, routes>>
    BY <1>1, CalmKept
<1>2. ASSUME NEW topic \in SharedTopics, Greet(topic) PROVE CalmInv'
  <2>1. /\ UNCHANGED <<call, registered, intact>>
        /\ subs' = subs \cup ({topic} \X Node)
        /\ routes' = routes \cup ({topic} \X Node)
      BY <1>2 DEF Greet, Subscribed, history
  <2>2. \A t, n : <<t, n>> \in routes' \ routes => t \in SharedTopics
      BY <2>1
  <2> QED
      BY <2>1, <2>2, CalmKept
<1>3. CASE Lose
  <2>1. call' = [c \in Caller |->
            [call[c] EXCEPT !.pc = IF @ = "sent" THEN "failed" ELSE @, !.clean = FALSE]]
      BY <1>3 DEF Lose
  <2>2. \A c \in Caller : call[c] \in CallState
      BY DEF AgeInv, TypeOK
  <2>3. \A c \in Caller : call'[c].clean = FALSE
      BY <2>1, <2>2 DEF CallState
  <2> QED
      BY <1>3, <2>3, LossCalms DEF Lose
<1>4. CASE ProcessRestarts
  <2>1. call' = [c \in Caller |->
            [call[c] EXCEPT !.pc = "idle", !.i = 1, !.kind = "register", !.clean = FALSE]]
      BY <1>4 DEF ProcessRestarts
  <2>2. \A c \in Caller : call[c] \in CallState
      BY DEF AgeInv, TypeOK
  <2>3. \A c \in Caller : call'[c].clean = FALSE
      BY <2>1, <2>2 DEF CallState
  <2> QED
      BY <1>4, <2>3, LossCalms DEF ProcessRestarts
<1>5. CASE Tick \/ Connect \/ RegisterCallback \/ Dispatch
    BY <1>1, <1>5 DEF Tick, Connect, RegisterCallback, Dispatch, client, history
<1>6. ASSUME NEW m \in handling, Callback(m) PROVE CalmInv'
    BY <1>1, <1>6 DEF Callback, client
<1>7. ASSUME NEW n \in Node, BaseStarts(n) \/ BaseExits(n) \/ BaseBeats(n) PROVE CalmInv'
    BY <1>1, <1>7 DEF BaseStarts, BaseExits, BaseBeats, Publish, client
<1>8. ASSUME NEW n \in Node, BaseCrashes(n) PROVE CalmInv'
    BY <1>1, <1>8 DEF BaseCrashes, client, history
<1>9. ASSUME NEW n \in Node, NEW topic \in Published, NEW body \in Bodies(topic),
             BasePublishes(n, topic, body)
      PROVE  CalmInv'
    BY <1>1, <1>9 DEF BasePublishes, Publish, client
<1>10. CASE UNCHANGED vars
    BY <1>1, <1>10 DEF vars, client, history
<1> QED
    BY <1>2, <1>3, <1>4, <1>5, <1>6, <1>7, <1>8, <1>9, <1>10, BeginCalms, CallCalms
       DEF Next

LEMMA CalmInvariance == Spec => [](AgeInv /\ CalmInv)
<1>1. Init => CalmInv
    BY CalmInit
<1> QED
    BY <1>1, CalmNext, AgeInvariance, PTL DEF Spec

(* After RegisterNode returned nil, with neither a lost connection nor     *)
(* another call for the node meanwhile or since, the node is subscribed    *)
(* with its callbacks to all five topics.                                  *)
THEOREM RegisteredAreHeard == Spec => []RegisteredHears
<1>1. CalmInv => RegisteredHears
    BY DEF CalmInv
<1> QED
    BY CalmInvariance, <1>1, PTL

(* After an undisturbed UnRegisterNode no message of the node's health,    *)
(* lists or operations is handed to a callback: the routes are gone,       *)
(* whatever still waits in the client.                                     *)
THEOREM UnregisteredAreSilent == Spec => UnregisteredSilent
<1>1. AgeInv /\ CalmInv /\ [Next]_vars =>
        [\A n \in intact \ registered, m \in handling' \ handling :
            m.node = n => m.topic \in SharedTopics \cup {"batchInstall"}]_vars
  <2> SUFFICES ASSUME AgeInv, CalmInv, Next,
                      NEW n \in intact \ registered, NEW m \in handling' \ handling,
                      m.node = n
               PROVE  m.topic \in SharedTopics \cup {"batchInstall"}
      OBVIOUS
  <2>1. CASE Dispatch
    <3>1. inbox \in Seq(Message) /\ inbox # <<>>
        BY <2>1 DEF AgeInv, TypeOK, Dispatch
    <3>2. m = Head(inbox) /\ Channel(m) \in routes
        BY <2>1 DEF Dispatch
    <3>3. m \in Message
        BY <3>1, <3>2
    <3>4. m.topic \in Topic
        BY <3>3 DEF Message
    <3>5. \A j \in 1 .. 4 : UnRegisterTopics[j] # m.topic
        BY <3>2, NodeTopicsOf DEF CalmInv, NoRoutes, Channel
    <3> QED
        BY <3>4, <3>5, NodeTopicsOf
  <2>2. CASE ~Dispatch
    <3>1. handling' \subseteq handling
      <4>1. CASE Tick \/ Connect \/ RegisterCallback \/ Lose \/ ProcessRestarts
          BY <4>1 DEF Tick, Connect, RegisterCallback, Lose, ProcessRestarts
      <4>2. CASE \E b \in Node : \/ BaseStarts(b) \/ BaseExits(b)
                                \/ BaseCrashes(b) \/ BaseBeats(b)
          BY <4>2 DEF BaseStarts, BaseExits, BaseCrashes, BaseBeats, Publish
      <4>3. CASE \E b \in Node, topic \in Published : \E body \in Bodies(topic) :
                    BasePublishes(b, topic, body)
          BY <4>3 DEF BasePublishes, Publish
      <4>4. CASE \E topic \in SharedTopics : Greet(topic)
          BY <4>4 DEF Greet
      <4>5. CASE \E c \in Caller, b \in Node, kind \in {"register", "unregister"} :
                    CallMethod(c, kind, b)
          BY <4>5 DEF CallMethod
      <4>6. CASE \E c \in Caller : Call(c)
          BY <4>6 DEF Call, SubSends, SubReturns, RegisterNodeFails, RegisterNodeReturns,
                     UnSub, UnRegisterNodeReturns
      <4>7. CASE \E k \in handling : Callback(k)
          BY <4>7 DEF Callback
      <4> QED
          BY <2>2, <4>1, <4>2, <4>3, <4>4, <4>5, <4>6, <4>7 DEF Next
    <3> QED
        BY <3>1
  <2> QED
      BY <2>1, <2>2
<1> QED
    BY CalmInvariance, <1>1, PTL DEF Spec, UnregisteredSilent

-----------------------------------------------------------------------------
(* Heartbeats on their way.                                                *)

RankOf(m) == 2 * m.life + (IF m.body = "DEACTIVATED" THEN 1 ELSE 0)

(* The rank of the last heartbeat a base has sent, or of one it may send.  *)
Top(n) == 2 * life[n] + (IF n \in up THEN 0 ELSE 1)

SameBeat(m, r) == m.topic = "heart" /\ r.topic = "heart" /\ m.node = r.node

Ordered(q) ==
    \A i, j \in DOMAIN q : i <= j /\ SameBeat(q[i], q[j]) => RankOf(q[i]) <= RankOf(q[j])

(* No heartbeat comes before one that was sent earlier, in the order told, *)
(* handled, queued, retained; and none comes from the future.              *)
BeatsInv ==
    /\ Ordered(inbox)
    /\ \A m \in handling, q \in Queued : SameBeat(m, q) => RankOf(m) <= RankOf(q)
    /\ \A m \in handling \cup Queued, r \in retained :
          SameBeat(m, r) => RankOf(m) <= RankOf(r)
    /\ \A m \in handling \cup Queued \cup retained : m.topic = "heart" =>
          Rank(known[m.node]) <= RankOf(m) /\ RankOf(m) <= Top(m.node)
    /\ \A r, s \in retained : SameBeat(r, s) => r = s
    /\ \A n \in Node : Rank(known[n]) <= Top(n)

LEMMA RankNumbers ==
    ASSUME NEW m \in Message
    PROVE  RankOf(m) \in Nat /\ m.node \in Node
<1>1. m.life \in Nat /\ m.node \in Node
    BY DEF Message
<1> QED
    BY <1>1 DEF RankOf

LEMMA BeatNumbers ==
    ASSUME AgeInv
    PROVE  /\ \A m \in handling \cup Queued \cup retained :
                 m \in Message /\ RankOf(m) \in Nat /\ m.node \in Node
           /\ \A n \in Node : Top(n) \in Nat /\ Rank(known[n]) \in Nat
<1>1. inbox \in Seq(Message)
    BY DEF AgeInv, TypeOK
<1>2. Queued \subseteq Message
    BY <1>1 DEF Queued
<1>3. \A m \in handling \cup Queued \cup retained : m \in Message
    BY <1>2 DEF AgeInv, TypeOK
<1>4. ASSUME NEW n \in Node PROVE Top(n) \in Nat /\ Rank(known[n]) \in Nat
  <2>1. life[n] \in Nat /\ known[n].life \in Nat
      BY DEF AgeInv, TypeOK
  <2> QED
      BY <2>1 DEF Top, Rank
<1> QED
    BY <1>3, <1>4, RankNumbers

(* Parts of an ordered sequence are ordered.                               *)
LEMMA OrderedParts ==
    ASSUME NEW q \in Seq(Message), Ordered(q)
    PROVE  /\ \A k \in 0 .. Len(q) : Ordered(SubSeq(q, 1, k))
           /\ q # <<>> => /\ Ordered(Tail(q))
                          /\ \A r \in Members(Tail(q)) :
                                SameBeat(Head(q), r) => RankOf(Head(q)) <= RankOf(r)
<1>1. ASSUME NEW k \in 0 .. Len(q) PROVE Ordered(SubSeq(q, 1, k))
  <2>1. /\ DOMAIN SubSeq(q, 1, k) = 1 .. k
        /\ \A i \in 1 .. k : SubSeq(q, 1, k)[i] = q[i] /\ i \in DOMAIN q
      OBVIOUS
  <2> QED
      BY <2>1 DEF Ordered
<1>2. ASSUME q # <<>>
      PROVE  /\ Ordered(Tail(q))
             /\ \A r \in Members(Tail(q)) :
                   SameBeat(Head(q), r) => RankOf(Head(q)) <= RankOf(r)
  <2>1. /\ DOMAIN Tail(q) = 1 .. (Len(q) - 1) /\ Len(q) \in Nat
        /\ \A i \in DOMAIN Tail(q) : Tail(q)[i] = q[i + 1] /\ i + 1 \in DOMAIN q
        /\ Head(q) = q[1] /\ 1 \in DOMAIN q
      BY <1>2
  <2>2. \A i, j \in DOMAIN Tail(q) : i <= j => i + 1 <= j + 1 /\ 1 <= i + 1
      BY <2>1
  <2>3. \A i \in DOMAIN Tail(q) : 1 <= i + 1
      BY <2>1
  <2>4. Ordered(Tail(q))
      BY <2>1, <2>2 DEF Ordered
  <2> QED
      BY <2>1, <2>3, <2>4 DEF Ordered, Members
<1> QED
    BY <1>1, <1>2

(* A sequence stays ordered when what is added ranks above what is there.  *)
LEMMA OrderedConcat ==
    ASSUME NEW q \in Seq(Message), NEW s \in Seq(Message), Ordered(q), Ordered(s),
           \A m \in Members(q), r \in Members(s) :
               SameBeat(m, r) => RankOf(m) <= RankOf(r)
    PROVE  Ordered(q \o s)
<1>1. \A i \in DOMAIN (q \o s) :
          \/ i \in DOMAIN q /\ (q \o s)[i] = q[i]
          \/ i - Len(q) \in DOMAIN s /\ (q \o s)[i] = s[i - Len(q)] /\ i > Len(q)
    OBVIOUS
<1> SUFFICES ASSUME NEW i \in DOMAIN (q \o s), NEW j \in DOMAIN (q \o s), i <= j,
                    SameBeat((q \o s)[i], (q \o s)[j])
             PROVE  RankOf((q \o s)[i]) <= RankOf((q \o s)[j])
    BY DEF Ordered
<1>2. Len(q) \in Nat /\ i \in Nat /\ j \in Nat /\ DOMAIN q = 1 .. Len(q)
    OBVIOUS
<1>3. CASE i \in DOMAIN q /\ j \in DOMAIN q
  <2>1. (q \o s)[i] = q[i] /\ (q \o s)[j] = q[j]
      BY <1>1, <1>2, <1>3
  <2> QED
      BY <1>3, <2>1 DEF Ordered
<1>4. CASE i \in DOMAIN q /\ j \notin DOMAIN q
  <2>1. (q \o s)[i] = q[i] /\ (q \o s)[j] = s[j - Len(q)] /\ j - Len(q) \in DOMAIN s
      BY <1>1, <1>2, <1>4
  <2> QED
      BY <1>4, <2>1 DEF Members
<1>5. CASE i \notin DOMAIN q
  <2>1. j \notin DOMAIN q
      BY <1>1, <1>2, <1>5
  <2>2. /\ (q \o s)[i] = s[i - Len(q)] /\ i - Len(q) \in DOMAIN s
        /\ (q \o s)[j] = s[j - Len(q)] /\ j - Len(q) \in DOMAIN s
      BY <1>1, <1>5, <2>1
  <2>3. i - Len(q) <= j - Len(q)
      BY <1>2
  <2> QED
      BY <2>2, <2>3 DEF Ordered
<1> QED
    BY <1>3, <1>4, <1>5

(* Steps that tell and publish nothing: messages are lost, or retained     *)
(* ones are queued again.                                                  *)
LEMMA BeatsKept ==
    ASSUME AgeInv, AgeInv', BeatsInv, Ordered(inbox)', UNCHANGED <<known, retained>>,
           Queued' \subseteq Queued \cup retained, handling' \subseteq handling,
           \A n \in Node : Top(n) <= Top(n)'
    PROVE  BeatsInv'
<1>1. \A m \in handling', q \in Queued' : SameBeat(m, q) => RankOf(m) <= RankOf(q)
    BY DEF BeatsInv
<1>2. \A r \in retained : r \in Message /\ RankOf(r) \in Nat /\ RankOf(r) <= RankOf(r)
    BY BeatNumbers
<1>3. \A m \in handling' \cup Queued', r \in retained :
          SameBeat(m, r) => RankOf(m) <= RankOf(r)
    BY <1>2 DEF BeatsInv
<1>4. ASSUME NEW m \in handling' \cup Queued' \cup retained, m.topic = "heart"
      PROVE  Rank(known[m.node]) <= RankOf(m) /\ RankOf(m) <= Top(m.node)'
  <2>1. m \in handling \cup Queued \cup retained
      BY <1>4
  <2>2. Rank(known[m.node]) <= RankOf(m) /\ RankOf(m) <= Top(m.node)
      BY <1>4, <2>1 DEF BeatsInv
  <2>3. /\ m.node \in Node /\ RankOf(m) \in Nat
        /\ Top(m.node) \in Nat /\ Top(m.node) <= Top(m.node)'
      BY <2>1, BeatNumbers
  <2>4. Top(m.node)' \in Nat
    <3>1. life'[m.node] \in Nat
        BY <2>3 DEF AgeInv, TypeOK
    <3> QED
        BY <3>1 DEF Top
  <2> QED
      BY <2>2, <2>3, <2>4
<1>5. ASSUME NEW n \in Node PROVE Rank(known[n]) <= Top(n)'
  <2>1. life'[n] \in Nat
      BY DEF AgeInv, TypeOK
  <2>2. Top(n)' \in Nat
      BY <2>1 DEF Top
  <2> QED
      BY <2>2, BeatNumbers DEF BeatsInv
<1> QED
    BY <1>1, <1>3, <1>4, <1>5 DEF BeatsInv

(* What the broker repeats ranks above what was sent to the client before. *)
LEMMA RepeatedBeats ==
    ASSUME AgeInv, BeatsInv, NEW channels, Subscribed(channels)
    PROVE  Ordered(inbox)' /\ Queued' \subseteq Queued \cup retained
<1>1. PICK s \in Repeated(channels) : inbox' = inbox \o s
    BY DEF Subscribed
<1>2. s \in Seq(Message) /\ Members(s) \subseteq retained
    BY RepeatedMembers DEF AgeInv
<1>3. inbox \in Seq(Message)
    BY DEF AgeInv, TypeOK
<1>4. Ordered(s)
  <2>1. \A i, j \in DOMAIN s : s[i] \in retained /\ s[j] \in retained
      BY <1>2 DEF Members
  <2>2. \A i \in DOMAIN s : RankOf(s[i]) <= RankOf(s[i])
      BY <2>1, BeatNumbers
  <2> QED
      BY <2>1, <2>2 DEF Ordered, BeatsInv
<1>5. Ordered(inbox \o s)
    BY <1>2, <1>3, <1>4, OrderedConcat, QueuedMembers DEF BeatsInv
<1>6. Members(inbox \o s) \subseteq Members(inbox) \cup Members(s)
    BY <1>2, <1>3, ConcatMembers
<1> QED
    BY <1>1, <1>2, <1>5, <1>6, QueuedMembers DEF Ordered

(* What a base publishes ranks above all it has sent before.               *)
LEMMA PublishedBeats ==
    ASSUME AgeInv, AgeInv', BeatsInv, NEW m \in Message, Publish(m), UNCHANGED known,
           \A n \in Node : Top(n) <= Top(n)',
           m.topic = "heart" => Top(m.node) <= RankOf(m) /\ RankOf(m) <= Top(m.node)'
    PROVE  BeatsInv'
<1>1. inbox \in Seq(Message)
    BY DEF AgeInv, TypeOK
<1>2. /\ RankOf(m) \in Nat /\ m.node \in Node
      /\ \A n \in Node : Top(n)' \in Nat
  <2>1. ASSUME NEW n \in Node PROVE Top(n)' \in Nat
    <3>1. life'[n] \in Nat
        BY DEF AgeInv, TypeOK
    <3> QED
        BY <3>1 DEF Top
  <2> QED
      BY <2>1, RankNumbers
<1>3. \A x \in handling \cup Queued \cup retained :
          x \in Message /\ RankOf(x) \in Nat /\ x.node \in Node
    BY BeatNumbers
<1>4. \A n \in Node : Top(n) \in Nat /\ Rank(known[n]) \in Nat
    BY BeatNumbers
<1>5. ASSUME NEW x \in handling \cup Queued \cup retained, SameBeat(x, m)
      PROVE  RankOf(x) <= RankOf(m)
  <2>1. RankOf(x) <= Top(m.node) /\ Top(m.node) <= RankOf(m)
      BY <1>5 DEF BeatsInv, SameBeat
  <2> QED
      BY <1>2, <1>3, <1>4, <2>1
<1>6. m.topic = "heart" => Rank(known[m.node]) <= RankOf(m)
  <2> SUFFICES ASSUME m.topic = "heart" PROVE Rank(known[m.node]) <= RankOf(m)
      OBVIOUS
  <2>1. Rank(known[m.node]) <= Top(m.node) /\ Top(m.node) <= RankOf(m)
      BY <1>2 DEF BeatsInv
  <2> QED
      BY <1>2, <1>4, <2>1
<1>7. Ordered(inbox)' /\ Queued' \subseteq Queued \cup {m}
  <2>1. CASE Channel(m) \notin subs
    <3>1. inbox' = inbox
        BY <2>1 DEF Publish
    <3> QED
        BY <3>1 DEF BeatsInv, Ordered, Queued
  <2>2. CASE Channel(m) \in subs
    <3>1. inbox' = Append(inbox, m)
        BY <2>2 DEF Publish
    <3>2. Append(inbox, m) = inbox \o <<m>> /\ <<m>> \in Seq(Message)
        BY <1>1
    <3>3. Members(<<m>>) = {m} /\ Ordered(<<m>>)
      <4>1. DOMAIN <<m>> = {1} /\ <<m>>[1] = m
          OBVIOUS
      <4>2. RankOf(m) <= RankOf(m)
          BY <1>2
      <4> QED
          BY <4>1, <4>2 DEF Members, Ordered
    <3>4. \A x \in Members(inbox), r \in Members(<<m>>) :
              SameBeat(x, r) => RankOf(x) <= RankOf(r)
        BY <1>5, <3>3, QueuedMembers
    <3>5. Ordered(inbox \o <<m>>)
        BY <1>1, <3>2, <3>3, <3>4, OrderedConcat DEF BeatsInv
    <3>6. Members(inbox') \subseteq Members(inbox) \cup {m}
        BY <1>1, <3>1, AppendMembers
    <3> QED
        BY <3>1, <3>2, <3>5, <3>6, QueuedMembers DEF Ordered
  <2> QED
      BY <2>1, <2>2
<1>8. /\ handling' = handling
      /\ retained' = {r \in retained : Channel(r) # Channel(m)} \cup {m}
    BY DEF Publish
<1>9. \A x \in handling, q \in Queued' : SameBeat(x, q) => RankOf(x) <= RankOf(q)
    BY <1>5, <1>7 DEF BeatsInv
<1>10. \A x \in handling \cup Queued', r \in retained' :
           SameBeat(x, r) => RankOf(x) <= RankOf(r)
  <2> SUFFICES ASSUME NEW x \in handling \cup Queued', NEW r \in retained', SameBeat(x, r)
               PROVE  RankOf(x) <= RankOf(r)
      OBVIOUS
  <2>1. CASE r = m
    <3>1. CASE x = m
        BY <1>2, <2>1, <3>1
    <3>2. CASE x # m
        BY <1>5, <1>7, <2>1, <3>2
    <3> QED
        BY <3>1, <3>2
  <2>2. CASE r # m
    <3>1. r \in retained /\ Channel(r) # Channel(m)
        BY <1>8, <2>2
    <3>2. x # m
        BY <3>1 DEF SameBeat, Channel
    <3> QED
        BY <1>7, <3>1, <3>2 DEF BeatsInv
  <2> QED
      BY <2>1, <2>2
<1>11. ASSUME NEW x \in handling \cup Queued' \cup retained', x.topic = "heart"
       PROVE  Rank(known[x.node]) <= RankOf(x) /\ RankOf(x) <= Top(x.node)'
  <2>1. CASE x = m
      BY <1>6, <1>11, <2>1
  <2>2. CASE x # m
    <3>1. x \in handling \cup Queued \cup retained
        BY <1>7, <1>8, <1>11, <2>2
    <3>2. Rank(known[x.node]) <= RankOf(x) /\ RankOf(x) <= Top(x.node)
        BY <1>11, <3>1 DEF BeatsInv
    <3>3. Top(x.node) <= Top(x.node)' /\ Top(x.node) \in Nat /\ Top(x.node)' \in Nat
        BY <1>2, <1>3, <1>4, <3>1
    <3> QED
        BY <1>3, <3>1, <3>2, <3>3
  <2> QED
      BY <2>1, <2>2
<1>12. \A r, s \in retained' : SameBeat(r, s) => r = s
    BY <1>8 DEF BeatsInv, SameBeat, Channel
<1>13. ASSUME NEW n \in Node PROVE Rank(known[n]) <= Top(n)'
  <2>1. Rank(known[n]) <= Top(n) /\ Top(n) <= Top(n)'
      BY DEF BeatsInv
  <2> QED
      BY <1>2, <1>4, <2>1
<1> QED
    BY <1>7, <1>8, <1>9, <1>10, <1>11, <1>12, <1>13 DEF BeatsInv

LEMMA BaseBeatsOrdered ==
    ASSUME AgeInv, AgeInv', BeatsInv, NEW n \in Node,
           BaseStarts(n) \/ BaseExits(n) \/ BaseCrashes(n) \/ BaseBeats(n)
    PROVE  BeatsInv'
<1>0. life \in [Node -> Nat] /\ life[n] \in Nat
    BY DEF AgeInv, TypeOK
<1>1. ASSUME UNCHANGED life, up' \subseteq up PROVE \A x \in Node : Top(x) <= Top(x)'
  <2> SUFFICES ASSUME NEW x \in Node PROVE Top(x) <= Top(x)'
      OBVIOUS
  <2>1. life[x] \in Nat /\ life'[x] = life[x]
      BY <1>0, <1>1
  <2> QED
      BY <1>1, <2>1 DEF Top
<1>2. CASE BaseStarts(n)
  <2> DEFINE m == Heartbeat(n, "ACTIVATED", life[n] + 1)
  <2>1. m \in Message /\ m.node = n /\ m.life = life[n] + 1 /\ m.body = "ACTIVATED"
      BY <1>0, HeartbeatType
  <2>2. n \notin up /\ up' = up \cup {n} /\ life' = [life EXCEPT ![n] = @ + 1]
      BY <1>2 DEF BaseStarts
  <2>3. \A x \in Node : Top(x) <= Top(x)'
    <3> SUFFICES ASSUME NEW x \in Node PROVE Top(x) <= Top(x)'
        OBVIOUS
    <3>1. CASE x = n
        BY <1>0, <2>2, <3>1 DEF Top
    <3>2. CASE x # n
      <4>1. life[x] \in Nat /\ life'[x] = life[x] /\ (x \in up' <=> x \in up)
          BY <1>0, <2>2, <3>2
      <4> QED
          BY <4>1 DEF Top
    <3> QED
        BY <3>1, <3>2
  <2> HIDE DEF m
  <2>4. Publish(m) /\ UNCHANGED known
      BY <1>2 DEF BaseStarts, Silent, m
  <2>5. Top(n) <= RankOf(m) /\ RankOf(m) <= Top(n)'
      BY <1>0, <2>1, <2>2 DEF Top, RankOf
  <2> QED
      BY <2>1, <2>3, <2>4, <2>5, PublishedBeats
<1>3. CASE BaseExits(n)
  <2> DEFINE m == Heartbeat(n, "DEACTIVATED", life[n])
  <2>1. m \in Message /\ m.node = n /\ m.life = life[n] /\ m.body = "DEACTIVATED"
      BY <1>0, HeartbeatType
  <2>2. n \in up /\ up' = up \ {n} /\ life' = life
      BY <1>3 DEF BaseExits
  <2> HIDE DEF m
  <2>3. Publish(m) /\ UNCHANGED known
      BY <1>3 DEF BaseExits, Silent, m
  <2>4. Top(n) <= RankOf(m) /\ RankOf(m) <= Top(n)'
      BY <1>0, <2>1, <2>2 DEF Top, RankOf
  <2> QED
      BY <1>1, <2>1, <2>2, <2>3, <2>4, PublishedBeats
<1>4. CASE BaseBeats(n)
  <2> DEFINE m == Heartbeat(n, "ACTIVATED", life[n])
  <2>1. m \in Message /\ m.node = n /\ m.life = life[n] /\ m.body = "ACTIVATED"
      BY <1>0, HeartbeatType
  <2>2. n \in up /\ up' = up /\ life' = life
      BY <1>4 DEF BaseBeats, base
  <2> HIDE DEF m
  <2>3. Publish(m) /\ UNCHANGED known
      BY <1>4 DEF BaseBeats, Silent, m
  <2>4. Top(n) <= RankOf(m) /\ RankOf(m) <= Top(n)'
      BY <1>0, <2>1, <2>2 DEF Top, RankOf
  <2> QED
      BY <1>1, <2>1, <2>2, <2>3, <2>4, PublishedBeats
<1>5. CASE BaseCrashes(n)
  <2>1. up' \subseteq up /\ UNCHANGED <<life, known, retained, inbox, handling>>
      BY <1>5 DEF BaseCrashes, Silent
  <2>2. Ordered(inbox)' /\ Queued' = Queued
      BY <2>1 DEF BeatsInv, Ordered, Queued
  <2> QED
      BY <1>1, <2>1, <2>2, BeatsKept
<1> QED
    BY <1>2, <1>3, <1>4, <1>5

(* What is no heartbeat has no order; an unreadable one is of its time.    *)
LEMMA OtherBeatsOrdered ==
    ASSUME AgeInv, AgeInv', BeatsInv, NEW n \in Node, NEW topic \in Published,
           NEW body \in Bodies(topic), BasePublishes(n, topic, body)
    PROVE  BeatsInv'
<1> DEFINE m == [topic |-> topic, node |-> n, sent |-> now, life |-> life[n],
                 body |-> body]
<1>1. now \in Nat /\ life \in [Node -> Nat] /\ life[n] \in Nat
    BY DEF AgeInv, TypeOK
<1>2. topic \in Topic /\ body \in {"ignored", "data"}
    BY MqttBounds DEF Bodies
<1>3. m \in Message
    BY <1>1, <1>2 DEF Message
<1>4. n \in up /\ UNCHANGED <<up, life, known>> /\ Publish(m)
    BY DEF BasePublishes, Silent, base
<1>5. m.node = n /\ m.life = life[n] /\ m.body # "DEACTIVATED"
    BY <1>2
<1> HIDE DEF m
<1>6. Top(n) <= RankOf(m) /\ RankOf(m) <= Top(n)'
    BY <1>1, <1>4, <1>5 DEF Top, RankOf
<1>7. ASSUME NEW x \in Node PROVE Top(x) <= Top(x)'
  <2>1. life[x] \in Nat
      BY <1>1
  <2> QED
      BY <1>4, <2>1 DEF Top
<1> QED
    BY <1>3, <1>4, <1>5, <1>6, <1>7, PublishedBeats

LEMMA DispatchOrdered ==
    ASSUME AgeInv, AgeInv', BeatsInv, Dispatch
    PROVE  BeatsInv'
<1>1. inbox \in Seq(Message) /\ inbox # <<>>
    BY DEF AgeInv, TypeOK, Dispatch
<1>2. /\ inbox' = Tail(inbox) /\ handling' \subseteq {Head(inbox)}
      /\ UNCHANGED <<known, retained, up, life>>
    BY DEF Dispatch, Silent, base
<1>3. /\ Ordered(inbox)'
      /\ \A r \in Queued' : SameBeat(Head(inbox), r) => RankOf(Head(inbox)) <= RankOf(r)
    BY <1>1, <1>2, OrderedParts, QueuedMembers DEF BeatsInv, Ordered
<1>4. Queued' \subseteq Queued /\ handling' \subseteq Queued
    BY <1>1, <1>2, TailMembers, QueuedMembers
<1>5. \A n \in Node : Top(n)' = Top(n)
    BY <1>2 DEF Top
<1>6. \A m \in handling', q \in Queued' : SameBeat(m, q) => RankOf(m) <= RankOf(q)
    BY <1>2, <1>3
<1>7. \A m \in handling' \cup Queued' \cup retained : m.node \in Node
    BY <1>4, BeatNumbers
<1>8. \A m \in handling' \cup Queued' \cup retained : m.topic = "heart" =>
          Rank(known[m.node]) <= RankOf(m) /\ RankOf(m) <= Top(m.node)'
    BY <1>4, <1>5, <1>7 DEF BeatsInv
<1>9. \A m \in handling' \cup Queued', r \in retained :
          SameBeat(m, r) => RankOf(m) <= RankOf(r)
    BY <1>4 DEF BeatsInv
<1> QED
    BY <1>2, <1>3, <1>5, <1>6, <1>8, <1>9 DEF BeatsInv

(* A callback tells what is no earlier than what was told, and no later    *)
(* than what waits.                                                        *)
LEMMA CallbackOrdered ==
    ASSUME AgeInv, AgeInv', BeatsInv, NEW m \in handling, Callback(m)
    PROVE  /\ BeatsInv'
           /\ \A n \in Node : Rank(known[n]) <= Rank(known'[n])
<1>1. /\ handling' = {}
      /\ known' = IF Passes(m) /\ m.topic = "heart"
                  THEN [known EXCEPT ![m.node] = [life |-> m.life, state |-> m.body]]
                  ELSE known
      /\ UNCHANGED <<retained, inbox, up, life>>
    BY DEF Callback, base
<1>2. Queued' = Queued /\ Ordered(inbox)'
    BY <1>1 DEF Queued, Ordered, BeatsInv
<1>3. /\ \A n \in Node : Rank(known[n]) \in Nat
      /\ m.node \in Node
    BY BeatNumbers
<1>4. CASE ~(Passes(m) /\ m.topic = "heart")
  <2>1. known' = known
      BY <1>1, <1>4
  <2>2. \A n \in Node : Top(n) <= Top(n)'
    <3>1. \A n \in Node : Top(n)' = Top(n) /\ Top(n) \in Nat
        BY <1>1, BeatNumbers DEF Top
    <3> QED
        BY <3>1
  <2>3. \A n \in Node : Rank(known[n]) <= Rank(known'[n])
      BY <1>3, <2>1
  <2> QED
      BY <1>1, <1>2, <2>1, <2>2, <2>3, BeatsKept
<1>5. CASE Passes(m) /\ m.topic = "heart"
  <2> DEFINE beat == [life |-> m.life, state |-> m.body]
  <2>1. Rank(beat) = RankOf(m)
      BY DEF Rank, RankOf
  <2> HIDE DEF beat
  <2>2. known' = [known EXCEPT ![m.node] = beat]
      BY <1>1, <1>5 DEF beat
  <2>3. known'[m.node] = beat /\ \A n \in Node \ {m.node} : known'[n] = known[n]
      BY <1>3, <2>2 DEF AgeInv, TypeOK
  <2>4. Rank(known'[m.node]) = RankOf(m)
      BY <2>1, <2>3
  <2>5. Rank(known[m.node]) <= RankOf(m) /\ RankOf(m) <= Top(m.node)
      BY <1>5 DEF BeatsInv
  <2>6. \A n \in Node : Rank(known[n]) <= Rank(known'[n]) /\ Rank(known'[n]) <= Top(n)
    <3> SUFFICES ASSUME NEW n \in Node
                 PROVE  Rank(known[n]) <= Rank(known'[n]) /\ Rank(known'[n]) <= Top(n)
        OBVIOUS
    <3>1. CASE n = m.node
        BY <2>4, <2>5, <3>1
    <3>2. CASE n # m.node
      <4>1. Rank(known'[n]) = Rank(known[n])
          BY <2>3, <3>2
      <4> QED
          BY <1>3, <4>1 DEF BeatsInv
    <3> QED
        BY <3>1, <3>2
  <2>7. ASSUME NEW x \in Queued \cup retained, x.topic = "heart"
        PROVE  Rank(known'[x.node]) <= RankOf(x) /\ RankOf(x) <= Top(x.node)
    <3>1. RankOf(x) <= Top(x.node) /\ Rank(known[x.node]) <= RankOf(x) /\ x.node \in Node
        BY <2>7, BeatNumbers DEF BeatsInv
    <3>2. CASE x.node = m.node
      <4>1. SameBeat(m, x)
          BY <1>5, <2>7, <3>2 DEF SameBeat
      <4>2. RankOf(m) <= RankOf(x)
          BY <4>1 DEF BeatsInv
      <4> QED
          BY <2>4, <3>1, <3>2, <4>2
    <3>3. CASE x.node # m.node
        BY <2>3, <3>1, <3>3
    <3> QED
        BY <3>2, <3>3
  <2>8. \A n \in Node : Top(n)' = Top(n)
      BY <1>1 DEF Top
  <2>9. \A x \in Queued \cup retained : x.node \in Node
      BY BeatNumbers
  <2>10. \A x \in Queued \cup retained : x.topic = "heart" =>
            Rank(known'[x.node]) <= RankOf(x) /\ RankOf(x) <= Top(x.node)'
      BY <2>7, <2>8, <2>9
  <2>11. BeatsInv'
      BY <1>1, <1>2, <2>6, <2>8, <2>10 DEF BeatsInv
  <2> QED
      BY <2>6, <2>11
<1> QED
    BY <1>4, <1>5

LEMMA ForgetsOrdered ==
    ASSUME AgeInv, AgeInv', BeatsInv, ProcessRestarts
    PROVE  BeatsInv'
<1>1. /\ inbox' = <<>> /\ handling' = {} /\ known' = [n \in Node |-> NoBeat]
      /\ UNCHANGED <<retained, up, life>>
    BY DEF ProcessRestarts, base
<1>2. Ordered(inbox)' /\ Queued' = {}
    BY <1>1 DEF Ordered, Queued
<1>3. \A n \in Node : Rank(known'[n]) = 0
    BY <1>1 DEF Rank, NoBeat
<1>4. \A n \in Node : Top(n)' = Top(n) /\ Top(n) \in Nat
    BY <1>1, BeatNumbers DEF Top
<1>5. \A m \in retained : RankOf(m) \in Nat /\ m.node \in Node
    BY BeatNumbers
<1>6. \A m \in retained : m.topic = "heart" =>
          Rank(known'[m.node]) <= RankOf(m) /\ RankOf(m) <= Top(m.node)'
    BY <1>3, <1>4, <1>5 DEF BeatsInv
<1>7. \A n \in Node : Rank(known'[n]) <= Top(n)'
    BY <1>3, <1>4
<1> QED
    BY <1>1, <1>2, <1>6, <1>7 DEF BeatsInv

LEMMA BeatsInit == Init => BeatsInv
<1> SUFFICES ASSUME Init PROVE BeatsInv
    OBVIOUS
<1>1. Ordered(inbox) /\ Queued = {} /\ handling = {} /\ retained = {}
    BY DEF Init, Ordered, Queued
<1>2. \A n \in Node : Rank(known[n]) <= Top(n)
    BY DEF Init, Rank, NoBeat, Top
<1> QED
    BY <1>1, <1>2 DEF BeatsInv

(* A step keeps what is on its way in order, and tells no earlier          *)
(* heartbeat than was told, unless the process restarts.                   *)
LEMMA BeatsNext ==
    ASSUME AgeInv, AgeInv', BeatsInv, [Next]_vars
    PROVE  /\ BeatsInv'
           /\ \A n \in Node : known'[n] = NoBeat \/ Rank(known[n]) <= Rank(known'[n])
<1>1. \A n \in Node : Top(n) \in Nat /\ Rank(known[n]) \in Nat
    BY BeatNumbers
<1>2. ASSUME UNCHANGED <<known, retained, up, life>>, Ordered(inbox)',
             Queued' \subseteq Queued \cup retained, handling' \subseteq handling
      PROVE  BeatsInv'
  <2>1. \A n \in Node : Top(n) <= Top(n)'
    <3>1. \A n \in Node : Top(n)' = Top(n)
        BY <1>2 DEF Top
    <3> QED
        BY <1>1, <3>1
  <2> QED
      BY <1>2, <2>1, BeatsKept
<1>3. ASSUME UNCHANGED <<known, retained, up, life, inbox>>, handling' \subseteq handling
      PROVE  BeatsInv'
  <2>1. Ordered(inbox)' /\ Queued' = Queued
      BY <1>3 DEF BeatsInv, Ordered, Queued
  <2> QED
      BY <1>2, <1>3, <2>1
<1>4. ASSUME UNCHANGED known
      PROVE  \A n \in Node : Rank(known[n]) <= Rank(known'[n])
    BY <1>1, <1>4
<1>5. CASE Tick \/ Connect \/ RegisterCallback
    BY <1>3, <1>4, <1>5 DEF Tick, Connect, RegisterCallback, Silent, base
<1>6. ASSUME NEW n \in Node,
             BaseStarts(n) \/ BaseExits(n) \/ BaseCrashes(n) \/ BaseBeats(n)
      PROVE  BeatsInv' /\ UNCHANGED known
    BY <1>6, BaseBeatsOrdered DEF BaseStarts, BaseExits, BaseCrashes, BaseBeats, Silent
<1>7. ASSUME NEW n \in Node, NEW topic \in Published, NEW body \in Bodies(topic),
             BasePublishes(n, topic, body)
      PROVE  BeatsInv' /\ UNCHANGED known
    BY <1>7, OtherBeatsOrdered DEF BasePublishes, Silent
<1>8. CASE Lose
  <2>1. PICK k \in 0 .. Len(inbox) : inbox' = SubSeq(inbox, 1, k)
      BY <1>8 DEF Lose
  <2>2. inbox \in Seq(Message)
      BY DEF AgeInv, TypeOK
  <2>3. Ordered(inbox)' /\ Queued' \subseteq Queued
      BY <2>1, <2>2, OrderedParts, PrefixMembers, QueuedMembers DEF BeatsInv, Ordered
  <2> QED
      BY <1>2, <1>4, <1>8, <2>3 DEF Lose, Silent, base
<1>9. CASE ProcessRestarts
  <2>1. \A n \in Node : known'[n] = NoBeat
      BY <1>9 DEF ProcessRestarts
  <2> QED
      BY <1>9, <2>1, ForgetsOrdered
<1>10. ASSUME NEW topic \in SharedTopics, Greet(topic) PROVE BeatsInv' /\ UNCHANGED known
  <2>1. Ordered(inbox)' /\ Queued' \subseteq Queued \cup retained
      BY <1>10, RepeatedBeats DEF Greet
  <2> QED
      BY <1>2, <1>10, <2>1 DEF Greet, Silent, base
<1>11. ASSUME NEW c \in Caller, SubReturns(c) PROVE BeatsInv' /\ UNCHANGED known
  <2>1. Ordered(inbox)' /\ Queued' \subseteq Queued \cup retained
      BY <1>11, RepeatedBeats DEF SubReturns
  <2> QED
      BY <1>2, <1>11, <2>1 DEF SubReturns, Silent, base
<1>12. ASSUME NEW c \in Caller,
              \/ SubSends(c) \/ RegisterNodeFails(c) \/ RegisterNodeReturns(c)
              \/ UnSub(c) \/ UnRegisterNodeReturns(c)
       PROVE  BeatsInv' /\ UNCHANGED known
    BY <1>3, <1>12 DEF SubSends, RegisterNodeFails, RegisterNodeReturns, UnSub,
                       UnRegisterNodeReturns, Silent, base
<1>13. ASSUME NEW c \in Caller, NEW n \in Node, NEW kind \in {"register", "unregister"},
              CallMethod(c, kind, n)
       PROVE  BeatsInv' /\ UNCHANGED known
    BY <1>3, <1>13 DEF CallMethod, Silent, base
<1>14. CASE Dispatch
    BY <1>4, <1>14, DispatchOrdered DEF Dispatch, Silent
<1>15. ASSUME NEW m \in handling, Callback(m)
       PROVE  BeatsInv' /\ \A n \in Node : Rank(known[n]) <= Rank(known'[n])
    BY <1>15, CallbackOrdered
<1>16. CASE UNCHANGED vars
    BY <1>3, <1>4, <1>16 DEF vars, told, base
<1> QED
    BY <1>4, <1>5, <1>6, <1>7, <1>8, <1>9, <1>10, <1>11, <1>12, <1>13, <1>14, <1>15,
       <1>16 DEF Next, Call

(* A heartbeat is never passed on after a later one of its base, for any   *)
(* number of bases, lives and retained or queued heartbeats.               *)
THEOREM HeartbeatsStayInOrder == Spec => HeartbeatsInOrder
<1>1. AgeInv /\ AgeInv' /\ BeatsInv /\ [Next]_vars =>
        /\ BeatsInv'
        /\ [\A n \in Node : known'[n] = NoBeat \/ Rank(known[n]) <= Rank(known'[n])]_vars
    BY BeatsNext
<1> QED
    BY BeatsInit, <1>1, AgeInvariance, PTL DEF Spec, HeartbeatsInOrder
-----------------------------------------------------------------------------
(* Induction: of a set of numbers there is a least one.                    *)

LEMMA LeastNumber ==
    ASSUME NEW T \in SUBSET Nat, T # {}
    PROVE  \E n \in T : \A m \in T : n <= m
<1> DEFINE R == {ss \in Nat \X Nat : ss[1] < ss[2]}
<1>1. IsWellFoundedOn(R, Nat)
    BY NatLessThanWellFounded DEF OpToRel
<1> HIDE DEF R
<1>2. PICK x \in T : \A y \in T : ~(<<y, x>> \in R)
    BY <1>1, WFMin
<1>3. \A y \in T : ~(<<y, x>> \in R) => x <= y
    BY DEF R
<1> QED
    BY <1>2, <1>3

LEMMA AllNumbers ==
    ASSUME NEW S, 0 \in S, \A k \in Nat : k \in S => k + 1 \in S
    PROVE  Nat \subseteq S
<1> SUFFICES ASSUME Nat \ S # {} PROVE FALSE
    OBVIOUS
<1>1. PICK n \in Nat \ S : \A m \in Nat \ S : n <= m
    BY LeastNumber
<1>2. n - 1 \in Nat /\ n - 1 \in S /\ (n - 1) + 1 = n
    BY <1>1
<1> QED
    BY <1>1, <1>2

-----------------------------------------------------------------------------
(* The latest record of a module (Conversions).                            *)

NoRecord == [state |-> "none", time |-> 0, reason |-> "none"]
Later(latest, r) == IF r.time > latest.time THEN r ELSE latest

(* The fold of GetLatestState, over the positions from the last down.      *)
FoldStep(iter, s, rs) ==
    IF s = {} THEN NoRecord ELSE Later(iter[s \ {Conv!Max(s)}], rs[Conv!Max(s)])
IsFold(iter, k, rs) == iter = [s \in SUBSET (1 .. k) |-> FoldStep(iter, s, rs)]

LEMMA TopPosition ==
    ASSUME NEW k \in Nat, NEW s \in SUBSET (1 .. k + 1), k + 1 \in s
    PROVE  Conv!Max(s) = k + 1
<1>1. \A y \in s : k + 1 >= y
    OBVIOUS
<1>2. \A x \in s : (\A y \in s : x >= y) => x = k + 1
    OBVIOUS
<1> QED
    BY <1>1, <1>2 DEF Conv!Max

LEMMA FoldExists ==
    ASSUME NEW rs
    PROVE  \A k \in Nat : \E iter : IsFold(iter, k, rs)
<1> DEFINE S == {k \in Nat : \E iter : IsFold(iter, k, rs)}
<1>1. 0 \in S
  <2> DEFINE g == [s \in SUBSET (1 .. 0) |-> NoRecord]
  <2>1. \A s \in SUBSET (1 .. 0) : FoldStep(g, s, rs) = NoRecord
      BY DEF FoldStep
  <2>2. IsFold(g, 0, rs)
      BY <2>1 DEF IsFold
  <2> QED
      BY <2>2
<1>2. ASSUME NEW k \in Nat, k \in S
      PROVE  k + 1 \in S
  <2>1. PICK g : IsFold(g, k, rs)
      BY <1>2
  <2> DEFINE h == [s \in SUBSET (1 .. k + 1) |->
                     IF k + 1 \in s THEN Later(g[s \ {k + 1}], rs[k + 1]) ELSE g[s]]
  <2>2. ASSUME NEW s \in SUBSET (1 .. k + 1)
        PROVE  h[s] = FoldStep(h, s, rs)
    <3>1. \A x \in SUBSET (1 .. k + 1) : k + 1 \notin x => h[x] = g[x]
        OBVIOUS
    <3>2. CASE k + 1 \in s
      <4>1. Conv!Max(s) = k + 1
          BY <3>2, TopPosition
      <4>2. h[s \ {k + 1}] = g[s \ {k + 1}]
          BY <3>1
      <4>3. h[s] = Later(g[s \ {k + 1}], rs[k + 1])
          BY <3>2
      <4> HIDE DEF h
      <4> QED
          BY <3>2, <4>1, <4>2, <4>3 DEF FoldStep
    <3>3. CASE k + 1 \notin s
      <4>1. s \in SUBSET (1 .. k)
          BY <3>3
      <4>2. g[s] = FoldStep(g, s, rs)
          BY <2>1, <4>1 DEF IsFold
      <4>3. h[s] = g[s] /\ h[s \ {Conv!Max(s)}] = g[s \ {Conv!Max(s)}]
          BY <3>1, <3>3
      <4> HIDE DEF h
      <4> QED
          BY <4>2, <4>3 DEF FoldStep
    <3> QED
        BY <3>2, <3>3
  <2>3. DOMAIN h = SUBSET (1 .. k + 1) /\ h = [s \in DOMAIN h |-> h[s]]
      OBVIOUS
  <2> HIDE DEF h
  <2>4. IsFold(h, k + 1, rs)
      BY <2>2, <2>3 DEF IsFold
  <2> QED
      BY <2>4
<1> HIDE DEF S
<1>3. Nat \subseteq S
    BY <1>1, <1>2, AllNumbers
<1> QED
    BY <1>3 DEF S

(* Of the records so far, the latest is the first of the largest time.     *)
Positive(rs, k) == {i \in 1 .. k : rs[i].time > 0}
Decides(rs, k, latest) ==
    IF Positive(rs, k) = {} THEN latest = NoRecord
    ELSE \E i \in Positive(rs, k) :
            /\ latest = rs[i]
            /\ \A j \in Positive(rs, k) :
                  \/ rs[j].time < rs[i].time
                  \/ rs[j].time = rs[i].time /\ i <= j

LEMMA DecidesNext ==
    ASSUME NEW rs, NEW k \in Nat, \A i \in 1 .. k + 1 : rs[i].time \in Int,
           NEW latest, Decides(rs, k, latest)
    PROVE  Decides(rs, k + 1, Later(latest, rs[k + 1]))
<1> DEFINE r == rs[k + 1]
<1>1. /\ r.time > 0 => Positive(rs, k + 1) = Positive(rs, k) \cup {k + 1}
      /\ ~(r.time > 0) => Positive(rs, k + 1) = Positive(rs, k)
      /\ k + 1 \notin Positive(rs, k)
  <2>1. 1 .. k + 1 = (1 .. k) \cup {k + 1} /\ k + 1 \notin 1 .. k
      OBVIOUS
  <2> QED
      BY <2>1 DEF Positive
<1>2. r.time \in Int /\ \A i \in Positive(rs, k) : /\ i \in Nat /\ i <= k + 1
                                                   /\ rs[i].time \in Int /\ rs[i].time > 0
    BY DEF Positive
<1>3. CASE Positive(rs, k) = {}
  <2>1. latest.time = 0 /\ latest = NoRecord
      BY <1>3 DEF Decides, NoRecord
  <2>2. CASE r.time > 0
    <3>1. Later(latest, r) = r /\ Positive(rs, k + 1) = {k + 1}
        BY <1>1, <1>3, <2>1, <2>2 DEF Later
    <3>2. k + 1 <= k + 1
        OBVIOUS
    <3> QED
        BY <1>2, <3>1, <3>2 DEF Decides
  <2>3. CASE ~(r.time > 0)
      BY <1>1, <1>3, <2>1, <2>3 DEF Later, Decides
  <2> QED
      BY <2>2, <2>3
<1>4. CASE Positive(rs, k) # {}
  <2>1. PICK i \in Positive(rs, k) :
          /\ latest = rs[i]
          /\ \A j \in Positive(rs, k) :
                \/ rs[j].time < rs[i].time
                \/ rs[j].time = rs[i].time /\ i <= j
      BY <1>4 DEF Decides
  <2>2. CASE r.time > rs[i].time
    <3>1. r.time > 0 /\ Later(latest, r) = r
        BY <1>2, <2>1, <2>2 DEF Later
    <3>2. Positive(rs, k + 1) = Positive(rs, k) \cup {k + 1}
        BY <1>1, <3>1
    <3>3. \A j \in Positive(rs, k) : rs[j].time < r.time
        BY <1>2, <2>1, <2>2
    <3>4. \A j \in Positive(rs, k + 1) :
             \/ rs[j].time < rs[k + 1].time
             \/ rs[j].time = rs[k + 1].time /\ k + 1 <= j
      <4>1. k + 1 <= k + 1
          OBVIOUS
      <4> QED
          BY <3>2, <3>3, <4>1
    <3> QED
        BY <3>1, <3>2, <3>4 DEF Decides
  <2>3. CASE ~(r.time > rs[i].time)
    <3>1. Later(latest, r) = rs[i]
        BY <2>1, <2>3 DEF Later
    <3>2. r.time < rs[i].time \/ (r.time = rs[i].time /\ i <= k + 1)
        BY <1>2, <2>3
    <3>3. \A j \in Positive(rs, k + 1) :
             \/ rs[j].time < rs[i].time
             \/ rs[j].time = rs[i].time /\ i <= j
        BY <1>1, <2>1, <3>2
    <3>4. i \in Positive(rs, k + 1)
        BY <1>1
    <3> QED
        BY <3>1, <3>3, <3>4 DEF Decides
  <2> QED
      BY <2>2, <2>3
<1> QED
    BY <1>3, <1>4

LEMMA LatestStateDecides ==
    ASSUME NEW rs, NEW n \in Nat, DOMAIN rs = 1 .. n, \A i \in 1 .. n : rs[i].time \in Int
    PROVE  Decides(rs, n, Conv!LatestState(rs))
<1> DEFINE fold == CHOOSE iter : IsFold(iter, n, rs)
<1>1. Conv!LatestState(rs) = fold[1 .. n]
    BY DEF Conv!LatestState, Conv!FoldLeft, Conv!MapThenFoldSet, IsFold, FoldStep,
           Later, NoRecord
<1>2. IsFold(fold, n, rs)
    BY FoldExists
<1> HIDE DEF fold
<1>3. fold[{}] = NoRecord
    BY <1>2 DEF IsFold, FoldStep
<1>4. ASSUME NEW k \in Nat, k + 1 <= n
      PROVE  fold[1 .. k + 1] = Later(fold[1 .. k], rs[k + 1])
  <2>1. 1 .. k + 1 \in SUBSET (1 .. n) /\ k + 1 \in 1 .. k + 1
      BY <1>4
  <2>2. (1 .. k + 1) \ {k + 1} = 1 .. k
      OBVIOUS
  <2>3. Conv!Max(1 .. k + 1) = k + 1
      BY <2>1, TopPosition
  <2>4. fold[1 .. k + 1] = FoldStep(fold, 1 .. k + 1, rs)
      BY <1>2, <2>1 DEF IsFold
  <2> QED
      BY <2>1, <2>2, <2>3, <2>4 DEF FoldStep
<1> DEFINE S == {k \in Nat : k <= n => Decides(rs, k, fold[1 .. k])}
<1>5. 0 \in S
  <2>1. 1 .. 0 = {}
      OBVIOUS
  <2>2. Positive(rs, 0) = {}
      BY <2>1 DEF Positive
  <2> QED
      BY <1>3, <2>1, <2>2 DEF Decides
<1>6. ASSUME NEW k \in Nat, k \in S PROVE k + 1 \in S
  <2> SUFFICES ASSUME k + 1 <= n PROVE Decides(rs, k + 1, fold[1 .. k + 1])
      OBVIOUS
  <2>1. Decides(rs, k, fold[1 .. k])
      BY <1>6
  <2>2. \A i \in 1 .. k + 1 : rs[i].time \in Int
      OBVIOUS
  <2>3. Decides(rs, k + 1, Later(fold[1 .. k], rs[k + 1]))
      BY <2>1, <2>2, DecidesNext
  <2> QED
      BY <1>4, <2>3
<1>7. Nat \subseteq S
  <2> HIDE DEF S
  <2> QED
      BY <1>5, <1>6, AllNumbers
<1>8. n <= n
    OBVIOUS
<1> QED
    BY <1>1, <1>7, <1>8

ContentInv ==
    /\ status \in Conv!Heartbeat
    /\ jvm \in [max : Memory, committed : Memory]
    /\ records \in Seq(Conv!Record)

LEMMA AddressInv ==
    ASSUME ContentInv
    PROVE  Conv!AddressSurvives
<1> DEFINE info == Conv!NodeInfo(status)
<1>1. Conv!BaseStatus(info).port =
          IF status.port = 0 THEN Conv!DefaultPort ELSE status.port
  <2>1. info.portLabel = {status.port} \ {0}
      BY DEF Conv!NodeInfo
  <2> HIDE DEF info
  <2>2. CASE status.port = 0
      BY <2>1, <2>2 DEF Conv!BaseStatus
  <2>3. CASE status.port # 0
    <3>1. info.portLabel = {status.port}
        BY <2>1, <2>3
    <3>2. (CHOOSE p \in info.portLabel : TRUE) = status.port
        BY <3>1
    <3> QED
        BY <2>3, <3>1, <3>2 DEF Conv!BaseStatus
  <2> QED
      BY <2>2, <2>3
<1>2. /\ Conv!BaseStatus(info).identity = status.identity
      /\ Conv!BaseStatus(info).cluster = status.cluster
      /\ Conv!BaseStatus(info).version = status.version
      /\ Conv!BaseStatus(info).ip = status.ip
      /\ Conv!BaseStatus(info).host = status.host
      /\ Conv!BaseStatus(info).state = info.state
    BY DEF Conv!BaseStatus, Conv!NodeInfo
<1>3. \A s : Conv!NodeInfo(s).state =
          IF Conv!Upper(s.state) = "ACTIVATED" THEN "ACTIVATED" ELSE "DEACTIVATED"
    BY DEF Conv!NodeInfo
<1>4. Conv!Upper("ACTIVATED") = "ACTIVATED" /\ Conv!Upper("DEACTIVATED") = "DEACTIVATED"
    BY DEF Conv!Upper
<1>5. Conv!NodeInfo(Conv!BaseStatus(info)).state = info.state
  <2>1. info.state \in {"ACTIVATED", "DEACTIVATED"}
      BY <1>3
  <2> HIDE DEF info
  <2> QED
      BY <1>2, <1>3, <1>4, <2>1
<1> QED
    BY <1>1, <1>2, <1>5 DEF Conv!AddressSurvives

LEMMA MemoryInv ==
    ASSUME ContentInv
    PROVE  Conv!UnknownMemoryUnset
<1>1. jvm.max \in Nat \cup {-1} /\ jvm.committed \in Nat \cup {-1}
    BY ContentAssumption DEF ContentInv
<1>2. /\ Conv!NodeMemory(jvm).capacity = IF jvm.max # -1 THEN jvm.max ELSE 0
      /\ Conv!NodeMemory(jvm).allocatable =
            IF jvm.max # -1 /\ jvm.committed # -1 THEN jvm.max - jvm.committed ELSE 0
    BY DEF Conv!NodeMemory
<1> QED
    BY <1>1, <1>2 DEF Conv!UnknownMemoryUnset

LEMMA LatestInv ==
    ASSUME ContentInv
    PROVE  Conv!ListedStateTold
<1> DEFINE n == Len(records)
           latest == Conv!LatestState(records)
           given == Conv!ContainerStatus(bizState, records, arrival)
<1>1. n \in Nat /\ DOMAIN records = 1 .. n
    BY DEF ContentInv
<1>2. \A i \in 1 .. n : records[i].time \in Int
  <2>1. \A i \in 1 .. n : records[i] \in Conv!Record
      BY DEF ContentInv
  <2> QED
      BY <2>1, ContentAssumption DEF Conv!Record
<1>3. Decides(records, n, latest)
    BY <1>1, <1>2, LatestStateDecides
<1>4. /\ given.state = bizState
      /\ given.time = IF latest.time # 0 THEN latest.time ELSE arrival
      /\ given.reason = latest.reason
    BY DEF Conv!ContainerStatus
<1> HIDE DEF n, latest
<1>5. Positive(records, n) = {i \in DOMAIN records : records[i].time > 0}
    BY <1>1 DEF Positive
<1>6. CASE Positive(records, n) = {}
  <2>1. latest.time = 0 /\ latest.reason = "none"
      BY <1>3, <1>6 DEF Decides, NoRecord
  <2>2. given.time = arrival /\ given.reason = "none"
      BY <1>4, <2>1
  <2> HIDE DEF given
  <2>3. QED
      BY <1>4, <1>5, <1>6, <2>2 DEF Conv!ListedStateTold, given
<1>7. CASE Positive(records, n) # {}
  <2>1. PICK i \in Positive(records, n) :
          /\ latest = records[i]
          /\ \A j \in Positive(records, n) :
                \/ records[j].time < records[i].time
                \/ records[j].time = records[i].time /\ i <= j
      BY <1>3, <1>7 DEF Decides
  <2>2. latest.time # 0
      BY <1>1, <1>2, <2>1 DEF Positive
  <2>3. given.time = records[i].time /\ given.reason = records[i].reason
      BY <1>4, <2>1, <2>2
  <2> HIDE DEF given
  <2>4. QED
      BY <1>4, <1>5, <1>7, <2>1, <2>3 DEF Conv!ListedStateTold, given
<1> QED
    BY <1>6, <1>7

(* What the vnode controller is given is what the base sent, for every     *)
(* heartbeat, all sizes and any list of records: the address survives the  *)
(* way to a node and back (ConvertBaseStatusFromNodeInfo), unknown sizes   *)
(* stay out (ConvertHealthDataToNodeStatus), and a module has the state it *)
(* is listed with, at the time and for the reason of its latest record     *)
(* (TranslateBizInfosToContainerStatuses).                                 *)
THEOREM ContentIsKept == PartsSpec => []ContentKept
<1> DEFINE Inv == part = "conversions" => ContentInv
<1>1. PartsInit => Inv
    BY DEF PartsInit, Conv!Init, ContentInv
<1>2. Inv /\ [PartsNext]_<<part, vars, convVars, baselineVars>> => Inv'
  <2> SUFFICES ASSUME ContentInv, part = "conversions",
                      [PartsNext]_<<part, vars, convVars, baselineVars>>
               PROVE  ContentInv'
      BY DEF PartsNext
  <2>1. CASE UNCHANGED convVars
      BY <2>1 DEF convVars, ContentInv
  <2>2. CASE Conv!Next
    <3>1. \/ UNCHANGED records
          \/ \E r \in Conv!Record : records' = Append(records, r)
        BY <2>2 DEF Conv!Next, Conv!StateChanges, Conv!StateChangesSilently
    <3>2. records' \in Seq(Conv!Record)
        BY <3>1 DEF ContentInv
    <3>3. UNCHANGED <<status, jvm>>
        BY <2>2 DEF Conv!Next, Conv!StateChanges, Conv!StateChangesSilently
    <3> QED
        BY <3>2, <3>3 DEF ContentInv
  <2> QED
      BY <2>1, <2>2 DEF PartsNext
<1>3. Inv => ContentKept
    BY AddressInv, MemoryInv, LatestInv DEF ContentKept
<1> QED
    BY <1>1, <1>2, <1>3, PTL DEF PartsSpec
-----------------------------------------------------------------------------
(* The answer to a baseline query (Baseline).                              *)

Item == [owner : Deployment, name : Biz, version : Version]

(* The containers of a deployment, as the answer has them.                 *)
Pieces(d) ==
    LET cs == deployments[d].containers
    IN  [k \in DOMAIN cs |-> [owner |-> d, name |-> cs[k].name, version |-> cs[k].version]]

(* The function by which Concatenated goes through a list.                 *)
ConcatStep(concat, s, i) ==
    IF i = 0 THEN <<>>
    ELSE IF ~Query!Related(s[i]) THEN concat[i - 1]
    ELSE concat[i - 1] \o Pieces(s[i])
IsConcat(concat, n, s) == concat = [i \in 0 .. n |-> ConcatStep(concat, s, i)]

DeploymentsTyped ==
    deployments \in [Deployment ->
        [label : Label, selector : Label, affinity : Affinity, env : BOOLEAN,
         created : 1 .. CreationTime, containers : Query!Containers]]

LEMMA ConcatExists ==
    ASSUME NEW s
    PROVE  \A k \in Nat : \E concat : IsConcat(concat, k, s)
<1> DEFINE S == {k \in Nat : \E concat : IsConcat(concat, k, s)}
<1>1. 0 \in S
  <2> DEFINE g == [i \in 0 .. 0 |-> <<>>]
  <2>1. \A i \in 0 .. 0 : ConcatStep(g, s, i) = <<>>
      BY DEF ConcatStep
  <2>2. IsConcat(g, 0, s)
      BY <2>1 DEF IsConcat
  <2> QED
      BY <2>2
<1>2. ASSUME NEW k \in Nat, k \in S
      PROVE  k + 1 \in S
  <2>1. PICK g : IsConcat(g, k, s)
      BY <1>2
  <2> DEFINE h == [i \in 0 .. k + 1 |-> IF i <= k THEN g[i] ELSE ConcatStep(g, s, i)]
  <2>2. ASSUME NEW i \in 0 .. k + 1
        PROVE  h[i] = ConcatStep(h, s, i)
    <3>1. i # 0 => h[i - 1] = g[i - 1]
        OBVIOUS
    <3>2. h[i] = ConcatStep(g, s, i)
      <4>1. CASE i <= k
        <5>1. i \in 0 .. k
            BY <4>1
        <5>2. g[i] = ConcatStep(g, s, i)
            BY <2>1, <5>1 DEF IsConcat
        <5> QED
            BY <4>1, <5>2
      <4> QED
          BY <4>1
    <3> HIDE DEF h
    <3> QED
        BY <3>1, <3>2 DEF ConcatStep
  <2>3. h = [i \in 0 .. k + 1 |-> h[i]]
      OBVIOUS
  <2> HIDE DEF h
  <2>4. IsConcat(h, k + 1, s)
      BY <2>2, <2>3 DEF IsConcat
  <2> QED
      BY <2>4
<1> HIDE DEF S
<1>3. Nat \subseteq S
    BY <1>1, <1>2, AllNumbers
<1> QED
    BY <1>3 DEF S

LEMMA PiecesOfOwner ==
    ASSUME DeploymentsTyped, NEW d \in Deployment
    PROVE  Pieces(d) \in Seq(Item) /\ \A i \in DOMAIN Pieces(d) : Pieces(d)[i].owner = d
<1> DEFINE cs == deployments[d].containers
<1>1. cs \in Seq(Query!Container)
  <2>1. cs \in Query!Containers
      BY DEF DeploymentsTyped
  <2>2. CASE \E c \in Query!Container : cs = <<c>>
    <3>1. PICK c \in Query!Container : cs = <<c>>
        BY <2>2
    <3> QED
        BY <3>1
  <2>3. CASE cs \in Query!Container \X Query!Container
    <3>1. PICK c, e \in Query!Container : cs = <<c, e>>
        BY <2>3
    <3> QED
        BY <3>1
  <2> QED
      BY <2>1, <2>2, <2>3 DEF Query!Containers
<1> HIDE DEF cs
<1>2. \A k \in 1 .. Len(cs) :
         [owner |-> d, name |-> cs[k].name, version |-> cs[k].version] \in Item
  <2>1. \A k \in 1 .. Len(cs) : cs[k] \in Query!Container
      BY <1>1
  <2> QED
      BY <2>1 DEF Query!Container, Item
<1>3. Pieces(d) = [k \in 1 .. Len(cs) |->
                      [owner |-> d, name |-> cs[k].name, version |-> cs[k].version]]
    BY <1>1 DEF Pieces, cs
<1> QED
    BY <1>1, <1>2, <1>3

(* What the first k deployments of a list add to the answer: containers of *)
(* related ones among them, in the order of their creation.                *)
Gathered(items, s, k) ==
    /\ items \in Seq(Item)
    /\ \A i \in 1 .. Len(items) :
          Query!Related(items[i].owner) /\ \E p \in 1 .. k : items[i].owner = s[p]
    /\ \A i, j \in 1 .. Len(items) :
          i < j => deployments[items[i].owner].created <= deployments[items[j].owner].created

LEMMA GatheredNext ==
    ASSUME DeploymentsTyped, NEW n \in Nat, NEW s \in [1 .. n -> Deployment],
           Query!Sorted(s), NEW k \in Nat, k + 1 <= n,
           NEW items, Gathered(items, s, k), Query!Related(s[k + 1])
    PROVE  Gathered(items \o Pieces(s[k + 1]), s, k + 1)
<1> DEFINE d == s[k + 1]
           all == items \o Pieces(d)
           m == Len(items)
<1>1. d \in Deployment /\ Query!Related(d)
    OBVIOUS
<1>2. Pieces(d) \in Seq(Item) /\ \A i \in 1 .. Len(Pieces(d)) : Pieces(d)[i].owner = d
    BY <1>1, PiecesOfOwner
<1>3. items \in Seq(Item) /\ m \in Nat
    BY DEF Gathered
<1>4. /\ all \in Seq(Item) /\ Len(all) \in Nat
      /\ \A i \in 1 .. Len(all) : i <= m => all[i] = items[i]
      /\ \A i \in 1 .. Len(all) : i > m => all[i].owner = d
    BY <1>2, <1>3
<1>5. \A i \in 1 .. m : /\ Query!Related(items[i].owner)
                        /\ \E p \in 1 .. k : items[i].owner = s[p]
    BY DEF Gathered
<1>6. \A x \in Deployment : deployments[x].created \in Int
    BY DEF DeploymentsTyped
<1>7. \A p \in 1 .. k : s[p] \in Deployment /\ deployments[s[p]].created <= deployments[d].created
  <2>1. \A p \in 1 .. k : p \in DOMAIN s /\ k + 1 \in DOMAIN s /\ p < k + 1
      OBVIOUS
  <2> QED
      BY <2>1 DEF Query!Sorted
<1> HIDE DEF d, all, m
<1>8. ASSUME NEW i \in 1 .. Len(all)
      PROVE  Query!Related(all[i].owner) /\ \E p \in 1 .. k + 1 : all[i].owner = s[p]
  <2>1. CASE i <= m
      BY <1>3, <1>4, <1>5, <2>1
  <2>2. CASE i > m
    <3>1. all[i].owner = d /\ k + 1 \in 1 .. k + 1
        BY <1>4, <2>2
    <3> QED
        BY <1>1, <3>1 DEF d
  <2> QED
      BY <1>3, <2>1, <2>2
<1>9. ASSUME NEW i \in 1 .. Len(all), NEW j \in 1 .. Len(all), i < j
      PROVE  deployments[all[i].owner].created <= deployments[all[j].owner].created
  <2>1. CASE j <= m
    <3>1. i \in 1 .. m /\ j \in 1 .. m
        BY <1>3, <1>9, <2>1
    <3>2. all[i] = items[i] /\ all[j] = items[j]
        BY <1>4, <3>1
    <3> QED
        BY <1>9, <3>1, <3>2 DEF Gathered, m
  <2>2. CASE i <= m /\ j > m
    <3>1. all[i] = items[i] /\ i \in 1 .. m /\ all[j].owner = d
        BY <1>3, <1>4, <2>2
    <3> QED
        BY <1>5, <1>7, <3>1
  <2>3. CASE i > m
    <3>1. all[i].owner = d /\ all[j].owner = d
        BY <1>3, <1>4, <1>9, <2>3
    <3> QED
        BY <1>1, <1>6, <3>1
  <2> QED
      BY <1>3, <2>1, <2>2, <2>3
<1> QED
    BY <1>4, <1>8, <1>9 DEF Gathered, all, d

LEMMA ConcatenatedGathers ==
    ASSUME DeploymentsTyped, NEW n \in Nat, NEW s \in [1 .. n -> Deployment],
           Query!Sorted(s)
    PROVE  Gathered(Query!Concatenated(s), s, n)
<1> DEFINE concat == CHOOSE c : IsConcat(c, n, s)
<1>1. Len(s) = n
    OBVIOUS
<1>2. Query!Concatenated(s) = concat[n]
    BY <1>1 DEF Query!Concatenated, IsConcat, ConcatStep, Pieces
<1>3. IsConcat(concat, n, s)
    BY ConcatExists
<1> HIDE DEF concat
<1>4. \A i \in 0 .. n : concat[i] = ConcatStep(concat, s, i)
    BY <1>3 DEF IsConcat
<1> DEFINE S == {k \in Nat : k <= n => Gathered(concat[k], s, k)}
<1>5. 0 \in S
  <2>1. concat[0] = <<>>
      BY <1>4 DEF ConcatStep
  <2>2. <<>> \in Seq(Item) /\ 1 .. Len(<<>>) = {}
      OBVIOUS
  <2>3. Gathered(<<>>, s, 0)
      BY <2>2 DEF Gathered
  <2> QED
      BY <2>1, <2>3
<1>6. ASSUME NEW k \in Nat, k \in S PROVE k + 1 \in S
  <2> SUFFICES ASSUME k + 1 <= n PROVE Gathered(concat[k + 1], s, k + 1)
      OBVIOUS
  <2>1. Gathered(concat[k], s, k)
      BY <1>6
  <2>2. k + 1 \in 0 .. n /\ k + 1 # 0 /\ (k + 1) - 1 = k
      OBVIOUS
  <2>3. concat[k + 1] = IF ~Query!Related(s[k + 1]) THEN concat[k]
                        ELSE concat[k] \o Pieces(s[k + 1])
      BY <1>4, <2>2 DEF ConcatStep
  <2>4. CASE Query!Related(s[k + 1])
    <3>1. Gathered(concat[k] \o Pieces(s[k + 1]), s, k + 1)
        BY <2>1, <2>4, GatheredNext
    <3> QED
        BY <2>3, <2>4, <3>1
  <2>5. CASE ~Query!Related(s[k + 1])
    <3>1. \A p \in 1 .. k : p \in 1 .. k + 1
        OBVIOUS
    <3> QED
        BY <2>1, <2>3, <2>5, <3>1 DEF Gathered
  <2> QED
      BY <2>4, <2>5
<1> HIDE DEF S
<1>7. Nat \subseteq S
    BY <1>5, <1>6, AllNumbers
<1>8. n <= n
    OBVIOUS
<1> QED
    BY <1>2, <1>7, <1>8 DEF S

(* How a deployment names the cluster of a base.                           *)
Names(d) ==
    \/ d.label = {request}
    \/ d.label = {} /\ d.selector = {request}
    \/ /\ d.label = {} /\ d.selector = {}
       /\ d.affinity # <<>> /\ d.affinity[1].values[1] = request

(* A deployment is related to a base by the only value of its label, or of *)
(* its selector, or by the first value of its affinity.                    *)
LEMMA RelatedNames ==
    ASSUME DeploymentsTyped, NEW d \in Deployment, Query!Related(d)
    PROVE  request # "" /\ Names(deployments[d])
<1> DEFINE name == Query!ClusterName(deployments[d])
<1>1. deployments[d].label \in Label /\ deployments[d].selector \in Label
    BY DEF DeploymentsTyped
<1>2. \A label \in Label : label # {} => label = {CHOOSE c \in label : TRUE}
    BY DeploymentAssumption
<1>3. name # "" /\ name = request
    BY DEF Query!Related
<1>4. deployments[d].label # {} => name = CHOOSE c \in deployments[d].label : TRUE
    BY DEF Query!ClusterName
<1>5. deployments[d].label = {} /\ deployments[d].selector # {}
          => name = CHOOSE c \in deployments[d].selector : TRUE
    BY DEF Query!ClusterName
<1>6. deployments[d].label = {} /\ deployments[d].selector = {}
          => name = IF deployments[d].affinity # <<>>
                    THEN deployments[d].affinity[1].values[1] ELSE ""
    BY DEF Query!ClusterName
<1> HIDE DEF name
<1>7. CASE deployments[d].label # {}
    BY <1>1, <1>2, <1>3, <1>4, <1>7 DEF Names
<1>8. CASE deployments[d].label = {} /\ deployments[d].selector # {}
    BY <1>1, <1>2, <1>3, <1>5, <1>8 DEF Names
<1>9. CASE deployments[d].label = {} /\ deployments[d].selector = {}
    BY <1>3, <1>6, <1>9 DEF Names
<1> QED
    BY <1>7, <1>8, <1>9

BaselineInv == DeploymentsTyped /\ Query!OwnModulesOnly /\ Query!NewestLast

LEMMA QueryOrders ==
    ASSUME BaselineInv, Query!QueryContainerBaseline
    PROVE  BaselineInv'
<1>1. UNCHANGED <<deployments, request>>
    BY DEF Query!QueryContainerBaseline
<1>2. DeploymentsTyped /\ DeploymentsTyped'
    BY <1>1 DEF BaselineInv, DeploymentsTyped
<1>3. CASE UNCHANGED answer
    BY <1>1, <1>2, <1>3 DEF BaselineInv, Query!OwnModulesOnly, Query!NewestLast
<1>4. CASE \E s \in Query!Orders : Query!Sorted(s) /\ answer' = Query!Concatenated(s)
  <2> DEFINE n == Query!Cardinality(Query!Listed)
  <2>1. PICK s \in [1 .. n -> Query!Listed] :
            Query!Sorted(s) /\ answer' = Query!Concatenated(s)
      BY <1>4 DEF Query!Orders
  <2>2. n \in Nat
    <3>1. IsFiniteSet(Query!Listed)
        BY DeploymentAssumption, FS_Subset DEF Query!Listed
    <3>2. n = Cardinality(Query!Listed)
        BY DEF Cardinality, Query!Cardinality
    <3> QED
        BY <3>1, <3>2, FS_CardinalityType
  <2> HIDE DEF n
  <2>3. s \in [1 .. n -> Deployment] /\ \A p \in 1 .. n : deployments[s[p]].env
      BY <2>1 DEF Query!Listed
  <2>4. Gathered(answer', s, n)
      BY <1>2, <2>1, <2>2, <2>3, ConcatenatedGathers
  <2>5. answer' \in Seq(Item) /\ DOMAIN answer' = 1 .. Len(answer')
      BY <2>4 DEF Gathered
  <2>6. Query!OwnModulesOnly'
    <3> SUFFICES ASSUME NEW i \in 1 .. Len(answer')
                 PROVE  LET d == deployments[answer'[i].owner] IN
                        d.env /\ request # "" /\ Names(d)
        BY <1>1, <2>5 DEF Query!OwnModulesOnly, Names
    <3>1. Query!Related(answer'[i].owner) /\ \E p \in 1 .. n : answer'[i].owner = s[p]
        BY <2>4 DEF Gathered
    <3>2. answer'[i].owner \in Deployment /\ deployments[answer'[i].owner].env
        BY <2>3, <3>1
    <3> QED
        BY <1>2, <3>1, <3>2, RelatedNames
  <2>7. Query!NewestLast'
      BY <1>1, <2>4, <2>5 DEF Query!NewestLast, Gathered
  <2> QED
      BY <1>2, <2>6, <2>7 DEF BaselineInv
<1> QED
    BY <1>3, <1>4 DEF Query!QueryContainerBaseline

(* The baseline of a cluster has containers of deployments that name it    *)
(* only, in whichever of the three ways, and those of a newer deployment   *)
(* come later, for all deployments and every order the sort may leave them *)
(* in (QueryContainerBaseline).                                            *)
THEOREM BaselineIsOrdered == PartsSpec => []BaselineOrdered
<1> DEFINE Inv == part = "baseline" => BaselineInv
<1>1. PartsInit => Inv
  <2>1. Query!Init => DeploymentsTyped /\ answer = <<>>
      BY DEF Query!Init, DeploymentsTyped
  <2>2. answer = <<>> => Query!OwnModulesOnly /\ Query!NewestLast
      BY DEF Query!OwnModulesOnly, Query!NewestLast
  <2> QED
      BY <2>1, <2>2 DEF PartsInit, BaselineInv
<1>2. Inv /\ [PartsNext]_<<part, vars, convVars, baselineVars>> => Inv'
  <2> SUFFICES ASSUME BaselineInv, part = "baseline",
                      [PartsNext]_<<part, vars, convVars, baselineVars>>
               PROVE  BaselineInv'
      BY DEF PartsNext
  <2>1. ASSUME UNCHANGED <<deployments, request, answer>>
        PROVE  BaselineInv'
      BY <2>1 DEF BaselineInv, DeploymentsTyped, Query!OwnModulesOnly, Query!NewestLast
  <2>2. CASE Query!Next
      BY <2>1, <2>2, QueryOrders DEF Query!Next, Query!QueryFails, Query!ProcessBaseline
  <2> QED
      BY <2>1, <2>2 DEF PartsNext, baselineVars
<1>3. Inv => BaselineOrdered
    BY DEF BaselineInv, BaselineOrdered
<1> QED
    BY <1>1, <1>2, <1>3, PTL DEF PartsSpec
=============================================================================
