---------------------- MODULE SubscriptionHelperProofs ----------------------
(***************************************************************************)
(* Theorems about SubscriptionHelper, for every value of its constants.    *)
(*                                                                         *)
(* Two layers: the types, with the fact that what is under way belongs to  *)
(* a start() that was made (TypeInv), and then what relates a helper, the  *)
(* start it serves and the bootstraps under way (HelperInv).               *)
(***************************************************************************)
EXTENDS SubscriptionHelper, SequenceTheorems, TLAPS

\* The starts whose bootstrap waits for its answer.
Asked == {up[i].by : i \in {j \in 1..Len(up) : up[j].kind = "get"}}
Answered == {down[i].by : i \in {j \in 1..Len(down) : down[j].kind # "publish"}}

\* The handler of a helper is that of the start in use, and a startup in progress
\* has one.
HandlersInUse ==
  \A h \in Helpers :
    /\ helper[h].m_handler = inUse[h]
    /\ helper[h].m_startupInProgress => helper[h].m_handler # 0

TypeInv ==
  /\ TypeOK
  /\ HandlersInUse
  /\ Asked \subseteq 1..Len(starts)
  /\ Answered \subseteq 1..Len(starts)

----------------------------------------------------------------------------
(* Frames. *)

LEMMA RequestsTyped ==
  /\ \A kind \in {"subscribe", "unsubscribe"}, topics \in SUBSET Topics :
       TopicRequest(kind, topics) \in Requests /\ TopicRequest(kind, topics).kind # "get"
  /\ \A s \in Starts : [kind |-> "get", by |-> s] \in Requests
  /\ \A request \in Requests :
       /\ request.kind \in {"subscribe", "unsubscribe", "get"}
       /\ request.kind # "get" => request.topics \subseteq Topics
       /\ request.kind = "get" => request.by \in Starts
BY DEF Requests, TopicRequest

\* What the backend sends is a message.
LEMMA MessagesTyped ==
  /\ \A s \in Starts, data \in Data : [kind |-> "data", by |-> s, data |-> data] \in Messages
  /\ \A s \in Starts : [kind |-> "refusal", by |-> s, data |-> NoData] \in Messages
  /\ \A data \in Data : [kind |-> "publish", data |-> data] \in Messages
  /\ \A message \in Messages :
       /\ message.kind \in {"data", "refusal", "publish"}
       /\ message.kind # "publish" => message.by \in Starts
       /\ message.kind = "publish" => message.data \in Data
       /\ message.data \in Data \cup {NoData}
BY DEF Messages

\* Of what is sent, only a get adds to what is asked.
LEMMA SendEffect ==
  ASSUME TypeInv, NEW frames \in Seq(Requests), Send(frames)
  PROVE  /\ up' \in Seq(Requests)
         /\ \A w : w \in Asked' =>
              w \in Asked \/ \E i \in 1..Len(frames) : frames[i].kind = "get" /\ frames[i].by = w
<1>1. up \in Seq(Requests)
  BY DEF TypeInv, TypeOK
<1>2. CASE m_connected
  <2>1. up' = up \o frames
    BY <1>2 DEF Send
  <2>2. /\ up' \in Seq(Requests)
        /\ Len(up') = Len(up) + Len(frames)
        /\ Len(up) \in Nat /\ Len(frames) \in Nat
        /\ \A i \in 1..Len(up') :
             up'[i] = IF i <= Len(up) THEN up[i] ELSE frames[i - Len(up)]
    BY <1>1, <2>1, ConcatProperties
  <2>3. ASSUME NEW i \in 1..Len(up'), up'[i].kind = "get"
        PROVE  up'[i].by \in Asked \/ \E j \in 1..Len(frames) : frames[j].kind = "get" /\ frames[j].by = up'[i].by
    <3>1. CASE i <= Len(up)
      BY <2>2, <2>3, <3>1 DEF Asked
    <3>2. CASE i > Len(up)
      <4>1. i - Len(up) \in 1..Len(frames) /\ up'[i] = frames[i - Len(up)]
        BY <2>2, <3>2
      <4> QED
        BY <2>3, <4>1
    <3> QED
      BY <2>2, <3>1, <3>2
  <2> QED
    BY <2>2, <2>3 DEF Asked
<1>3. CASE ~m_connected
  BY <1>1, <1>3 DEF Send, Asked
<1> QED
  BY <1>2, <1>3

----------------------------------------------------------------------------
(* What the operations do to the members of a helper and to the outcomes.   *)

Outcomes == {"completed", "timedOut"}

\* The members of h become r, but for the startup, the timer and the watcher.
Becomes(h, r) ==
  /\ helper' \in [Helpers -> Members]
  /\ \A g \in Helpers \ {h} : helper'[g] = helper[g]
  /\ helper'[h].m_topic = r.m_topic
  /\ helper'[h].m_bootstrapMethod = r.m_bootstrapMethod
  /\ helper'[h].m_handler = r.m_handler

\* A startup of r completes, or r has none and no outcome is added.
Completes(h, r) ==
  /\ Becomes(h, r)
  /\ ~helper'[h].m_startupInProgress
  /\ outcomes' = IF r.m_startupInProgress
                 THEN [outcomes EXCEPT ![r.m_handler] = Append(@, "completed")] ELSE outcomes

\* completeStartup changes the members of one helper, cuts connections, and signals
\* at most once.
LEMMA CompleteEffect ==
  ASSUME TypeInv, NEW h \in Helpers, NEW r \in Members, NEW live, completeStartup(h, r, live)
  PROVE  Completes(h, r) /\ watchers' \subseteq live
<1>1. helper \in [Helpers -> Members]
  BY DEF TypeInv, TypeOK
<1>2. CASE ~r.m_startupInProgress
  BY <1>1, <1>2 DEF completeStartup, MayComplete, Completes, Becomes
<1>3. CASE r.m_startupInProgress
  <2> DEFINE q == [r EXCEPT !.m_startupInProgress = FALSE, !.timer = FALSE, !.m_connectionWatcher = 0]
  <2>0. 0 \in 0..MaxStarts
    BY HelperAssumption
  <2>1. /\ q \in Members /\ ~q.m_startupInProgress
        /\ q.m_topic = r.m_topic /\ q.m_bootstrapMethod = r.m_bootstrapMethod
        /\ q.m_handler = r.m_handler
    BY <2>0 DEF Members
  <2>2. /\ helper' = [helper EXCEPT ![h] = q]
        /\ watchers' \subseteq live
        /\ Signal(r.m_handler, "completed")
    BY <1>3 DEF completeStartup, MayComplete
  <2> HIDE DEF q
  <2> QED
    BY <1>1, <1>3, <2>1, <2>2 DEF Completes, Becomes, Signal
<1> QED
  BY <1>2, <1>3

\* performBootstrap completes the startup at once, or asks for the topic's data.
LEMMA BootstrapEffect ==
  ASSUME TypeInv, NEW h \in Helpers, NEW r \in Members, NEW live, NEW frames \in Seq(Requests),
         r.m_handler \in Starts, \A i \in 1..Len(frames) : frames[i].kind # "get",
         performBootstrap(h, r, live, frames)
  PROVE  /\ \/ r.m_bootstrapMethod = "UnknownMethod" /\ Completes(h, r)
            \/ Becomes(h, r) /\ helper'[h] = r /\ UNCHANGED outcomes
         /\ watchers' \subseteq live
         /\ up' \in Seq(Requests)
         /\ Asked' \subseteq Asked \cup {r.m_handler}
<1>1. CASE r.m_bootstrapMethod = "UnknownMethod"
  <2>1. completeStartup(h, r, live) /\ Send(frames)
    BY <1>1 DEF performBootstrap
  <2> QED
    BY <1>1, <2>1, CompleteEffect, SendEffect
<1>2. CASE r.m_bootstrapMethod # "UnknownMethod"
  <2> DEFINE get == [kind |-> "get", by |-> r.m_handler]
  <2>1. get \in Requests /\ get.by = r.m_handler
    BY RequestsTyped
  <2>2. /\ helper' = [helper EXCEPT ![h] = r]
        /\ watchers' \subseteq live /\ UNCHANGED outcomes
        /\ Send(Append(frames, get)) \/ Send(frames \o <<get>>)
    BY <1>2 DEF performBootstrap, InOrder
  <2> HIDE DEF get
  <2>3. /\ frames \o <<get>> = Append(frames, get)
        /\ Append(frames, get) \in Seq(Requests)
        /\ \A i \in 1..Len(Append(frames, get)) :
             Append(frames, get)[i].kind = "get" => Append(frames, get)[i] = get
    BY <2>1, AppendProperties, AppendIsConcat
  <2>4. up' \in Seq(Requests) /\ Asked' \subseteq Asked \cup {r.m_handler}
    <3> DEFINE all == Append(frames, get)
    <3>1. all \in Seq(Requests) /\ Send(all)
      BY <2>2, <2>3
    <3>2. \A i \in 1..Len(all) : all[i].kind = "get" => all[i].by = r.m_handler
      BY <2>1, <2>3
    <3> HIDE DEF all
    <3> QED
      BY <3>1, <3>2, SendEffect
  <2>5. helper \in [Helpers -> Members]
    BY DEF TypeInv, TypeOK
  <2> QED
    BY <2>2, <2>4, <2>5 DEF Becomes
<1> QED
  BY <1>1, <1>2

----------------------------------------------------------------------------
(* Types. *)

\* An operation on the members of h, and the outcome it may add, keep the types.
LEMMA MembersKept ==
  ASSUME TypeInv, NEW h \in Helpers, NEW r \in Members, Becomes(h, r),
         r.m_handler = 0 <=> r.m_topic = "UnknownTopic"
  PROVE  /\ helper' \in [Helpers -> Members]
         /\ \A g \in Helpers : helper'[g].m_handler = 0 <=> helper'[g].m_topic = "UnknownTopic"
<1> SUFFICES ASSUME NEW g \in Helpers
             PROVE  helper'[g].m_handler = 0 <=> helper'[g].m_topic = "UnknownTopic"
  BY DEF Becomes
<1>1. CASE g = h
  BY <1>1 DEF Becomes
<1>2. CASE g # h
  BY <1>2 DEF Becomes, TypeInv, TypeOK
<1> QED
  BY <1>1, <1>2

\* A signal keeps the type of the outcomes.
LEMMA SignalTyped ==
  ASSUME TypeInv, NEW s \in Starts, NEW outcome \in Outcomes
  PROVE  [outcomes EXCEPT ![s] = Append(@, outcome)] \in [Starts -> Seq(Outcomes)]
<1>1. outcomes \in [Starts -> Seq(Outcomes)]
  BY DEF TypeInv, TypeOK, Outcomes
<1>2. Append(outcomes[s], outcome) \in Seq(Outcomes)
  BY <1>1, AppendProperties
<1> QED
  BY <1>1, <1>2

\* completeStartup keeps the types of what it changes.
LEMMA CompletesTyped ==
  ASSUME TypeInv, NEW h \in Helpers, NEW r \in Members, Completes(h, r),
         r.m_startupInProgress => r.m_handler # 0
  PROVE  outcomes' \in [Starts -> Seq(Outcomes)]
<1>1. outcomes \in [Starts -> Seq(Outcomes)]
  BY DEF TypeInv, TypeOK, Outcomes
<1>2. CASE r.m_startupInProgress
  <2>1. r.m_handler \in Starts
    BY <1>2, HelperAssumption DEF Members, Starts
  <2>2. outcomes' = [outcomes EXCEPT ![r.m_handler] = Append(@, "completed")]
    BY <1>2 DEF Completes
  <2>3. "completed" \in Outcomes
    BY DEF Outcomes
  <2> QED
    BY <2>1, <2>2, <2>3, SignalTyped
<1>3. CASE ~r.m_startupInProgress
  BY <1>1, <1>3 DEF Completes
<1> QED
  BY <1>2, <1>3

\* The members that start() sets, and the call that it records.
Started(h, t, method) ==
  [m_topic |-> t, m_bootstrapMethod |-> method, m_handler |-> Len(starts) + 1,
   m_startupInProgress |-> TRUE, timer |-> TimerRuns,
   m_connectionWatcher |-> helper[h].m_connectionWatcher]

Call(h, t, method) ==
  [helper |-> h, topic |-> t, method |-> method,
   since |-> IF m_connected THEN conn ELSE 0, clean |-> ~AwaitsBootstrap(h)]

\* A helper that start() has set up is well typed, and so is the start it is
\* recorded as.
LEMMA StartedTyped ==
  ASSUME TypeInv, NEW h \in Helpers, NEW t \in Topics, NEW method \in BootstrapMethods,
         Len(starts) + 1 \in Starts
  PROVE  /\ Started(h, t, method) \in Members
         /\ Started(h, t, method).m_handler = Len(starts) + 1
         /\ Started(h, t, method).m_topic = t
         /\ Started(h, t, method).m_bootstrapMethod = method
         /\ Started(h, t, method).m_startupInProgress
         /\ Call(h, t, method) \in StartCalls
         /\ Append(starts, Call(h, t, method)) \in Seq(StartCalls)
         /\ Len(Append(starts, Call(h, t, method))) = Len(starts) + 1
         /\ Len(starts) \in Nat
<1>1. /\ helper[h].m_connectionWatcher \in 0..MaxStarts
      /\ starts \in Seq(StartCalls) /\ conn \in 0..MaxConnections /\ m_connected \in BOOLEAN
  BY DEF TypeInv, TypeOK, Members
<1>2. Len(starts) + 1 \in 0..MaxStarts /\ Len(starts) \in Nat /\ 0 \in 0..MaxConnections
  BY <1>1, HelperAssumption, LenProperties DEF Starts
<1>3. AwaitsBootstrap(h) \in BOOLEAN
  BY DEF AwaitsBootstrap
<1>4. Call(h, t, method) \in StartCalls
  BY <1>1, <1>2, <1>3 DEF Call, StartCalls
<1>5. /\ Started(h, t, method) \in Members
      /\ Started(h, t, method).m_handler = Len(starts) + 1
      /\ Started(h, t, method).m_topic = t
      /\ Started(h, t, method).m_bootstrapMethod = method
      /\ Started(h, t, method).m_startupInProgress
  BY <1>1, <1>2 DEF Started, Members, TimerRuns
<1> QED
  BY <1>1, <1>2, <1>4, <1>5, AppendProperties

\* What start() does to the members of h, in both of its cases.
LEMMA StartEffect ==
  ASSUME TypeInv, NEW h \in Helpers, NEW t \in Topics, NEW method \in BootstrapMethods,
         start(h, t, method)
  PROVE  LET s == Len(starts) + 1 IN
         /\ s \in Starts /\ Len(starts) \in Nat
         /\ starts' = Append(starts, Call(h, t, method)) /\ starts' \in Seq(StartCalls)
         /\ Len(starts') = s
         /\ Becomes(h, Started(h, t, method))
         /\ \/ method = "UnknownMethod" /\ ~helper'[h].m_startupInProgress
               /\ outcomes' = [outcomes EXCEPT ![s] = Append(@, "completed")]
            \/ helper'[h].m_startupInProgress /\ UNCHANGED outcomes
         /\ watchers' \subseteq watchers \cup {s}
         /\ up' \in Seq(Requests)
         /\ Asked' \subseteq Asked \cup {s}
<1> DEFINE s == Len(starts) + 1
           r == Started(h, t, method)
<1>1. /\ s \in Starts
      /\ starts' = Append(starts, Call(h, t, method))
  BY DEF start, Call
<1>2. /\ r \in Members /\ r.m_handler = s /\ r.m_topic = t /\ r.m_bootstrapMethod = method
      /\ r.m_startupInProgress
      /\ starts' \in Seq(StartCalls) /\ Len(starts') = s /\ Len(starts) \in Nat
  BY <1>1, StartedTyped
<1>3. CASE m_connected
  <2> DEFINE frames == <<TopicRequest("subscribe", {t})>>
  <2>1. performBootstrap(h, r, watchers, frames)
    BY <1>3 DEF start, Started
  <2>2. frames \in Seq(Requests) /\ \A i \in 1..Len(frames) : frames[i].kind # "get"
    <3>1. TopicRequest("subscribe", {t}) \in Requests /\ TopicRequest("subscribe", {t}).kind # "get"
      BY RequestsTyped
    <3> QED
      BY <3>1
  <2> HIDE DEF frames, r
  <2>3. /\ \/ r.m_bootstrapMethod = "UnknownMethod" /\ Completes(h, r)
           \/ Becomes(h, r) /\ helper'[h] = r /\ UNCHANGED outcomes
        /\ watchers' \subseteq watchers
        /\ up' \in Seq(Requests)
        /\ Asked' \subseteq Asked \cup {r.m_handler}
    BY <1>1, <1>2, <2>1, <2>2, BootstrapEffect
  <2>4. /\ Becomes(h, r)
        /\ \/ method = "UnknownMethod" /\ ~helper'[h].m_startupInProgress
              /\ outcomes' = [outcomes EXCEPT ![s] = Append(@, "completed")]
           \/ helper'[h].m_startupInProgress /\ UNCHANGED outcomes
    BY <1>2, <2>3 DEF Completes
  <2> USE DEF r
  <2> QED
    BY <1>1, <1>2, <2>3, <2>4
<1>4. CASE ~m_connected
  <2> DEFINE q == [r EXCEPT !.m_connectionWatcher = s]
  <2>1. /\ helper' = [helper EXCEPT ![h] = q]
        /\ watchers' = watchers \cup {s}
        /\ UNCHANGED <<up, outcomes>>
    BY <1>4 DEF start, Started
  <2>2. /\ q \in Members /\ q.m_topic = r.m_topic /\ q.m_bootstrapMethod = r.m_bootstrapMethod
        /\ q.m_handler = r.m_handler /\ q.m_startupInProgress
    <3>1. s \in 0..MaxStarts
      BY <1>1 DEF Starts
    <3> QED
      BY <1>2, <3>1 DEF Members, Started
  <2>3. helper \in [Helpers -> Members] /\ up \in Seq(Requests)
    BY DEF TypeInv, TypeOK
  <2>4. Asked' = Asked
    BY <2>1 DEF Asked
  <2> HIDE DEF q
  <2>5. Becomes(h, r) /\ helper'[h].m_startupInProgress
    BY <2>1, <2>2, <2>3 DEF Becomes
  <2> QED
    BY <1>1, <1>2, <2>1, <2>3, <2>4, <2>5
<1> QED
  BY <1>3, <1>4

\* What stop() leaves of the members of h.
Stopped ==
  [m_topic |-> "UnknownTopic", m_bootstrapMethod |-> "UnknownMethod", m_handler |-> 0,
   m_startupInProgress |-> FALSE, timer |-> FALSE, m_connectionWatcher |-> 0]

\* stop() leaves a helper without handler, timer and startup.
LEMMA StopEffect ==
  ASSUME TypeInv, NEW h \in Helpers, stop(h)
  PROVE  /\ Stopped \in Members /\ Becomes(h, Stopped) /\ helper'[h] = Stopped
         /\ UNCHANGED outcomes
         /\ watchers' \subseteq watchers
         /\ m_subscribedTopics' \subseteq Topics
         /\ up' \in Seq(Requests)
         /\ Asked' \subseteq Asked
<1>1. /\ helper \in [Helpers -> Members]
      /\ m_subscribedTopics \subseteq Topics
  BY DEF TypeInv, TypeOK
<1>2. Stopped \in Members
  <2>1. 0 \in 0..MaxStarts /\ "UnknownMethod" \in BootstrapMethods
    BY HelperAssumption DEF BootstrapMethods
  <2> QED
    BY <2>1 DEF Stopped, Members
<1>3. helper' = [helper EXCEPT ![h] = Stopped]
  BY DEF stop, HandlerAfterStop, Stopped
<1>4. Becomes(h, Stopped) /\ helper'[h] = Stopped
  <2> HIDE DEF Stopped
  <2> QED
    BY <1>1, <1>2, <1>3 DEF Becomes
<1> DEFINE topics == {helper[h].m_topic} \cap Topics
           request == TopicRequest("unsubscribe", topics)
           frames == IF topics = {} THEN <<>> ELSE <<request>>
<1>5. /\ Send(frames) /\ UNCHANGED outcomes /\ watchers' \subseteq watchers
      /\ m_subscribedTopics' = m_subscribedTopics \ topics
  BY DEF stop
<1>6. request \in Requests /\ request.kind # "get"
  BY RequestsTyped
<1> HIDE DEF request
<1>7. frames \in Seq(Requests) /\ \A i \in 1..Len(frames) : frames[i].kind # "get"
  BY <1>6
<1> HIDE DEF frames
<1>8. up' \in Seq(Requests) /\ Asked' \subseteq Asked
  BY <1>5, <1>7, SendEffect
<1> QED
  BY <1>1, <1>2, <1>4, <1>5, <1>8

\* A timer that fires ends a startup, and signals if there was one.
LEMMA TimeoutEffect ==
  ASSUME TypeInv, NEW h \in Helpers, timeout(h)
  PROVE  /\ Becomes(h, helper[h]) /\ ~helper'[h].m_startupInProgress
         /\ outcomes' = IF helper[h].m_startupInProgress
                        THEN [outcomes EXCEPT ![helper[h].m_handler] = Append(@, "timedOut")]
                        ELSE outcomes
<1> DEFINE r == helper[h]
           q == [r EXCEPT !.timer = FALSE, !.m_startupInProgress = FALSE]
<1>1. helper \in [Helpers -> Members] /\ r \in Members
  BY DEF TypeInv, TypeOK
<1>2. /\ helper' = [helper EXCEPT ![h] = q]
      /\ outcomes' = IF r.m_startupInProgress
                     THEN [outcomes EXCEPT ![r.m_handler] = Append(@, "timedOut")] ELSE outcomes
  BY DEF timeout, Signal
<1>3. /\ q \in Members /\ ~q.m_startupInProgress
      /\ q.m_topic = r.m_topic /\ q.m_bootstrapMethod = r.m_bootstrapMethod
      /\ q.m_handler = r.m_handler
  BY <1>1 DEF Members
<1> HIDE DEF q
<1> QED
  BY <1>1, <1>2, <1>3 DEF Becomes

\* The slot bootstraps the helper of its watcher, or changes nothing.
LEMMA ConnectedChangedEffect ==
  ASSUME TypeInv, NEW w \in Starts, connectedChanged(w)
  PROVE  LET h == starts[w].helper IN
         \/ /\ h \in Helpers
            /\ helper[h].m_startupInProgress /\ helper[h].m_handler \in Starts
            /\ \/ helper[h].m_bootstrapMethod = "UnknownMethod" /\ ~helper'[h].m_startupInProgress
                  /\ outcomes' = [outcomes EXCEPT ![helper[h].m_handler] = Append(@, "completed")]
               \/ helper'[h].m_startupInProgress /\ UNCHANGED outcomes
            /\ Becomes(h, helper[h])
            /\ watchers' \subseteq watchers
            /\ up' \in Seq(Requests)
            /\ Asked' \subseteq Asked \cup {helper[h].m_handler}
         \/ UNCHANGED <<helper, watchers, up, outcomes>>
<1> DEFINE h == starts[w].helper
           r == helper[h]
           q == [r EXCEPT !.m_connectionWatcher = 0]
<1>1. CASE ~(m_connected /\ r.m_startupInProgress)
  BY <1>1 DEF connectedChanged
<1>2. CASE m_connected /\ r.m_startupInProgress
  <2>1. h \in Helpers
    <3>1. starts \in Seq(StartCalls) /\ watchers \subseteq 1..Len(starts) /\ w \in watchers
      BY DEF connectedChanged, TypeInv, TypeOK
    <3>2. starts[w] \in StartCalls
      BY <3>1, ElementOfSeq
    <3> QED
      BY <3>2 DEF StartCalls
  <2>2. r \in Members /\ r.m_handler \in Starts
    <3>1. r \in Members /\ r.m_handler # 0
      BY <1>2, <2>1 DEF TypeInv, TypeOK, HandlersInUse
    <3> QED
      BY <3>1, HelperAssumption DEF Members, Starts
  <2>3. /\ q \in Members /\ q.m_handler = r.m_handler /\ q.m_topic = r.m_topic
        /\ q.m_bootstrapMethod = r.m_bootstrapMethod
        /\ q.m_startupInProgress = r.m_startupInProgress
    <3>1. 0 \in 0..MaxStarts
      BY HelperAssumption
    <3> QED
      BY <2>2, <3>1 DEF Members
  <2> DEFINE live == watchers \ {r.m_connectionWatcher}
             none == <<>>
  <2>4. performBootstrap(h, q, live, none)
    BY <1>2 DEF connectedChanged
  <2>5. none \in Seq(Requests) /\ \A i \in 1..Len(none) : none[i].kind # "get"
    OBVIOUS
  <2>6. live \subseteq watchers
    OBVIOUS
  <2> HIDE DEF q, live, none, h
  <2>7. /\ \/ q.m_bootstrapMethod = "UnknownMethod" /\ Completes(h, q)
           \/ Becomes(h, q) /\ helper'[h] = q /\ UNCHANGED outcomes
        /\ watchers' \subseteq live
        /\ up' \in Seq(Requests)
        /\ Asked' \subseteq Asked \cup {q.m_handler}
    BY <2>1, <2>2, <2>3, <2>4, <2>5, BootstrapEffect
  <2>8. Becomes(h, r)
    BY <2>3, <2>7 DEF Becomes, Completes
  <2>9. \/ r.m_bootstrapMethod = "UnknownMethod" /\ ~helper'[h].m_startupInProgress
           /\ outcomes' = [outcomes EXCEPT ![r.m_handler] = Append(@, "completed")]
        \/ helper'[h].m_startupInProgress /\ UNCHANGED outcomes
    BY <1>2, <2>3, <2>7 DEF Completes
  <2> USE DEF h
  <2> QED
    BY <1>2, <2>1, <2>2, <2>3, <2>6, <2>7, <2>8, <2>9
<1> QED
  BY <1>1, <1>2

\* The message that dispatchMessage takes, and what is left under way.
LEMMA TakeEffect ==
  ASSUME TypeInv, down # <<>>, down' = Tail(down)
  PROVE  /\ Head(down) \in Messages /\ 1 \in 1..Len(down) /\ Head(down) = down[1]
         /\ down' \in Seq(Messages)
         /\ \A i \in 1..Len(down') : \E j \in 1..Len(down) : down'[i] = down[j]
         /\ Answered' \subseteq Answered
<1>1. down \in Seq(Messages)
  BY DEF TypeInv, TypeOK
<1>2. /\ Len(down) \in Nat /\ Len(down) # 0
      /\ Head(down) = down[1] /\ Head(down) \in Messages
      /\ Tail(down) \in Seq(Messages) /\ Len(Tail(down)) = Len(down) - 1
      /\ \A i \in 1..Len(Tail(down)) : Tail(down)[i] = down[i + 1]
  BY <1>1, HeadTailProperties, EmptySeq, LenProperties
<1>3. \A i \in 1..Len(down') : i + 1 \in 1..Len(down) /\ down'[i] = down[i + 1]
  BY <1>2
<1>4. Answered' \subseteq Answered
  BY <1>3 DEF Answered
<1>5. 1 \in 1..Len(down)
  BY <1>2
<1> QED
  BY <1>2, <1>3, <1>4, <1>5

\* An answer is for a start that was made.
LEMMA AnswerIsOfAStart ==
  ASSUME TypeInv, NEW i \in 1..Len(down), down[i].kind # "publish"
  PROVE  /\ down[i].by \in Answered /\ down[i].by \in 1..Len(starts)
         /\ starts[down[i].by] \in StartCalls /\ starts[down[i].by].helper \in Helpers
<1>1. down[i].by \in Answered /\ down[i].by \in 1..Len(starts)
  BY DEF Answered, TypeInv
<1>2. starts \in Seq(StartCalls)
  BY DEF TypeInv, TypeOK
<1>3. starts[down[i].by] \in StartCalls
  BY <1>1, <1>2, ElementOfSeq
<1> QED
  BY <1>1, <1>3 DEF StartCalls

\* The callback of a bootstrap shows data to the handler in place, or changes
\* nothing.
LEMMA AnsweredEffect ==
  ASSUME TypeInv, NEW message \in Messages, message.kind # "publish",
         starts[message.by].helper \in Helpers, bootstrapAnswered(message)
  PROVE  LET h == starts[message.by].helper IN
         \/ /\ message.kind = "data" /\ Completes(h, helper[h])
            /\ shown' = Given(helper[h].m_handler, message.data)
            /\ watchers' \subseteq watchers
         \/ UNCHANGED <<helper, watchers, outcomes, shown>>
<1> DEFINE h == starts[message.by].helper
<1>1. CASE Succeeded(message)
  <2>1. helper[h] \in Members
    BY DEF TypeInv, TypeOK
  <2>2. completeStartup(h, helper[h], watchers) /\ shown' = Given(helper[h].m_handler, message.data)
    BY <1>1 DEF bootstrapAnswered
  <2>3. Completes(h, helper[h]) /\ watchers' \subseteq watchers
    BY <2>1, <2>2, CompleteEffect
  <2> QED
    BY <1>1, <2>2, <2>3 DEF Succeeded
<1>2. CASE ~Succeeded(message)
  BY <1>2 DEF bootstrapAnswered
<1> QED
  BY <1>1, <1>2

\* What the server takes and what it answers.
LEMMA ProcessEffect ==
  ASSUME TypeInv, processRequest
  PROVE  /\ up' \in Seq(Requests) /\ Asked' \subseteq Asked
         /\ down' \in Seq(Messages)
         /\ served' \subseteq Topics
         /\ Answered' \subseteq Answered \cup Asked
         /\ \A i \in 1..Len(down') :
              \/ i \in 1..Len(down) /\ down'[i] = down[i]
              \/ /\ down'[i].kind # "publish" /\ down'[i].by \in Asked
                 /\ down'[i].kind = "data" =>
                      down'[i].data \in Data /\ down'[i].data.topic = starts[down'[i].by].topic
<1> DEFINE request == Head(up)
<1>1. up \in Seq(Requests) /\ down \in Seq(Messages) /\ served \subseteq Topics
  BY DEF TypeInv, TypeOK
<1>2. up # <<>> /\ up' = Tail(up)
  BY DEF processRequest
<1>3. /\ Len(up) \in Nat /\ Len(up) # 0
      /\ request = up[1] /\ request \in Requests
      /\ up' \in Seq(Requests) /\ Len(up') = Len(up) - 1
      /\ \A i \in 1..Len(up') : up'[i] = up[i + 1]
  BY <1>1, <1>2, HeadTailProperties, EmptySeq, LenProperties
<1>4. Asked' \subseteq Asked
  <2>1. \A i \in 1..Len(up') : i + 1 \in 1..Len(up) /\ up'[i] = up[i + 1]
    BY <1>3
  <2> QED
    BY <2>1 DEF Asked
<1> HIDE DEF request
<1>5. CASE request.kind # "get"
  <2>1. request.topics \subseteq Topics
    BY <1>3, <1>5, RequestsTyped
  <2>2. UNCHANGED down /\ served' \subseteq served \cup request.topics
    BY <1>5 DEF processRequest, request
  <2>3. Answered' = Answered
    BY <2>2 DEF Answered
  <2> QED
    BY <1>1, <1>3, <1>4, <2>1, <2>2, <2>3
<1>6. CASE request.kind = "get"
  <2>1. request.by \in Asked
    BY <1>3, <1>6 DEF Asked
  <2>2. /\ request.by \in Starts /\ request.by \in 1..Len(starts)
        /\ starts[request.by].topic \in Topics
    <3>1. request.by \in 1..Len(starts) /\ starts \in Seq(StartCalls)
      BY <2>1 DEF TypeInv, TypeOK
    <3>2. starts[request.by] \in StartCalls
      BY <3>1, ElementOfSeq
    <3> QED
      BY <1>3, <1>6, <3>1, <3>2, RequestsTyped DEF StartCalls
  <2> DEFINE data == Current(starts[request.by].topic)
             answer == [kind |-> "data", by |-> request.by, data |-> data]
             refusal == [kind |-> "refusal", by |-> request.by, data |-> NoData]
  <2>3. data \in Data /\ data.topic = starts[request.by].topic
    <3>1. version \in [Topics -> 0..MaxChanges]
      BY DEF TypeInv, TypeOK
    <3> QED
      BY <2>2, <3>1 DEF Current, Data
  <2>4. UNCHANGED served /\ (down' = Append(down, answer) \/ down' = Append(down, refusal))
    BY <1>6 DEF processRequest, request
  <2> HIDE DEF data
  <2>5. /\ answer \in Messages /\ answer.kind = "data" /\ answer.by = request.by
        /\ answer.data = data
        /\ refusal \in Messages /\ refusal.kind = "refusal" /\ refusal.by = request.by
    BY <2>2, <2>3, MessagesTyped
  <2> HIDE DEF answer, refusal
  <2>6. PICK m \in {answer, refusal} : down' = Append(down, m)
    BY <2>4
  <2>7. /\ down' \in Seq(Messages)
        /\ \A i \in 1..Len(down') :
             \/ i \in 1..Len(down) /\ down'[i] = down[i]
             \/ down'[i] = m
    BY <1>1, <2>5, <2>6, AppendProperties, LenProperties
  <2>8. /\ m.kind # "publish" /\ m.by = request.by
        /\ m.kind = "data" => m.data \in Data /\ m.data.topic = starts[request.by].topic
    BY <2>3, <2>5, <2>6
  <2>9. Answered' \subseteq Answered \cup Asked
    BY <2>1, <2>7, <2>8 DEF Answered
  <2> QED
    BY <1>1, <1>3, <1>4, <2>1, <2>4, <2>7, <2>8, <2>9
<1> QED
  BY <1>5, <1>6

\* A publication is shown to handlers only, and changes no member.
LEMMA PublishEffect ==
  ASSUME TypeInv, NEW t \in Topics, publish(t)
  PROVE  /\ version' \in [Topics -> 0..MaxChanges]
         /\ down' \in Seq(Messages)
         /\ Answered' \subseteq Answered
         /\ \A i \in 1..Len(down') :
              (i \in 1..Len(down) /\ down'[i] = down[i]) \/ down'[i].kind = "publish"
<1>1. down \in Seq(Messages) /\ version \in [Topics -> 0..MaxChanges]
  BY DEF TypeInv, TypeOK
<1>2. version[t] + 1 \in 0..MaxChanges
  BY <1>1, HelperAssumption DEF publish
<1>3. version' \in [Topics -> 0..MaxChanges]
  BY <1>1, <1>2 DEF publish
<1>4. CASE t \in served
  <2> DEFINE data == [topic |-> t, version |-> version[t] + 1]
             m == [kind |-> "publish", data |-> data]
  <2>1. data \in Data
    BY <1>2 DEF Data
  <2>2. down' = Append(down, m)
    BY <1>4 DEF publish
  <2> HIDE DEF data
  <2>3. m \in Messages /\ m.kind = "publish"
    BY <2>1, MessagesTyped
  <2> HIDE DEF m
  <2>4. /\ down' \in Seq(Messages)
        /\ \A i \in 1..Len(down') :
             (i \in 1..Len(down) /\ down'[i] = down[i]) \/ down'[i] = m
    BY <1>1, <2>2, <2>3, AppendProperties, LenProperties
  <2>5. Answered' \subseteq Answered
    BY <2>3, <2>4 DEF Answered
  <2> QED
    BY <1>3, <2>3, <2>4, <2>5
<1>5. CASE t \notin served
  <2>1. down' = down
    BY <1>5 DEF publish
  <2>2. Answered' = Answered
    BY <2>1 DEF Answered
  <2> QED
    BY <1>1, <1>3, <2>1, <2>2
<1> QED
  BY <1>4, <1>5

----------------------------------------------------------------------------
(* Every step keeps the types. *)

LEMMA StartTyped ==
  ASSUME TypeInv, NEW h \in Helpers, NEW t \in Topics, NEW method \in BootstrapMethods,
         start(h, t, method)
  PROVE  TypeInv'
<1> DEFINE s == Len(starts) + 1
           r == Started(h, t, method)
<1>1. /\ s \in Starts /\ Len(starts) \in Nat
      /\ starts' \in Seq(StartCalls) /\ Len(starts') = s
      /\ Becomes(h, r)
      /\ \/ outcomes' = [outcomes EXCEPT ![s] = Append(@, "completed")] \/ UNCHANGED outcomes
      /\ watchers' \subseteq watchers \cup {s}
      /\ up' \in Seq(Requests)
      /\ Asked' \subseteq Asked \cup {s}
  BY StartEffect
<1>2. r \in Members /\ r.m_handler = s /\ r.m_topic = t
  BY <1>1, StartedTyped
<1>3. s # 0 /\ s <= MaxStarts /\ t # "UnknownTopic"
  BY <1>1, HelperAssumption DEF Starts
<1> HIDE DEF r
<1>4. /\ helper' \in [Helpers -> Members]
      /\ \A g \in Helpers : helper'[g].m_handler = 0 <=> helper'[g].m_topic = "UnknownTopic"
  BY <1>1, <1>2, <1>3, MembersKept
<1>5. outcomes' \in [Starts -> Seq(Outcomes)]
  <2>1. "completed" \in Outcomes /\ outcomes \in [Starts -> Seq(Outcomes)]
    BY DEF Outcomes, TypeInv, TypeOK
  <2>2. [outcomes EXCEPT ![s] = Append(@, "completed")] \in [Starts -> Seq(Outcomes)]
    BY <1>1, <2>1, SignalTyped
  <2> QED
    BY <1>1, <2>1, <2>2
<1>7. /\ UNCHANGED <<m_connected, conn, stackVars, down, backendVars, shown>>
      /\ inUse' = [inUse EXCEPT ![h] = s]
      /\ m_subscribedTopics' = m_subscribedTopics \cup {t}
  BY DEF start
<1>6. HandlersInUse'
  <2>1. inUse \in [Helpers -> 0..Len(starts)]
    BY DEF TypeInv, TypeOK
  <2> SUFFICES ASSUME NEW g \in Helpers
               PROVE  /\ helper'[g].m_handler = inUse'[g]
                      /\ helper'[g].m_startupInProgress => helper'[g].m_handler # 0
    BY DEF HandlersInUse
  <2>2. CASE g = h
    BY <1>1, <1>2, <1>3, <1>7, <2>1, <2>2 DEF Becomes
  <2>3. CASE g # h
    BY <1>1, <1>7, <2>1, <2>3 DEF Becomes, HandlersInUse, TypeInv
  <2> QED
    BY <2>2, <2>3
<1>8. watchers' \subseteq 1..Len(starts') /\ toNotify' \subseteq 1..Len(starts')
      /\ Asked' \subseteq 1..Len(starts')
  <2>1. watchers \subseteq 1..Len(starts) /\ toNotify \subseteq 1..Len(starts)
        /\ Asked \subseteq 1..Len(starts) /\ toNotify' = toNotify
    BY <1>7 DEF TypeInv, TypeOK, stackVars
  <2> QED
    BY <1>1, <2>1
<1>9. inUse' \in [Helpers -> 0..Len(starts')]
  <2>1. inUse \in [Helpers -> 0..Len(starts)]
    BY DEF TypeInv, TypeOK
  <2> QED
    BY <1>1, <1>7, <2>1
<1>10. Answered' \subseteq 1..Len(starts')
  <2>1. Answered' = Answered
    BY <1>7 DEF Answered
  <2> QED
    BY <1>1, <2>1 DEF TypeInv
<1>11. TypeOK'
  BY <1>1, <1>3, <1>4, <1>5, <1>7, <1>8, <1>9
     DEF TypeInv, TypeOK, Outcomes, stackVars, backendVars
<1> QED
  BY <1>6, <1>8, <1>10, <1>11 DEF TypeInv

\* stop() keeps the types.
LEMMA StopTyped ==
  ASSUME TypeInv, NEW h \in Helpers, stop(h)
  PROVE  TypeInv'
<1>1. /\ Stopped \in Members /\ Becomes(h, Stopped) /\ helper'[h] = Stopped
      /\ UNCHANGED outcomes
      /\ watchers' \subseteq watchers
      /\ m_subscribedTopics' \subseteq Topics
      /\ up' \in Seq(Requests)
      /\ Asked' \subseteq Asked
  BY StopEffect
<1>2. /\ helper' \in [Helpers -> Members]
      /\ \A g \in Helpers : helper'[g].m_handler = 0 <=> helper'[g].m_topic = "UnknownTopic"
  <2>1. Stopped.m_handler = 0 <=> Stopped.m_topic = "UnknownTopic"
    BY DEF Stopped
  <2> QED
    BY <1>1, <2>1, MembersKept
<1>4. /\ UNCHANGED <<m_connected, conn, stackVars, down, backendVars, starts, shown>>
      /\ inUse' = [inUse EXCEPT ![h] = 0]
  BY DEF stop
<1>3. HandlersInUse'
  <2>1. inUse \in [Helpers -> 0..Len(starts)]
    BY DEF TypeInv, TypeOK
  <2>2. ~Stopped.m_startupInProgress /\ Stopped.m_handler = 0
    BY DEF Stopped
  <2> SUFFICES ASSUME NEW g \in Helpers
               PROVE  /\ helper'[g].m_handler = inUse'[g]
                      /\ helper'[g].m_startupInProgress => helper'[g].m_handler # 0
    BY DEF HandlersInUse
  <2>3. CASE g = h
    BY <1>1, <1>4, <2>1, <2>2, <2>3
  <2>4. CASE g # h
    BY <1>1, <1>4, <2>1, <2>4 DEF Becomes, HandlersInUse, TypeInv
  <2> QED
    BY <2>3, <2>4
<1>5. inUse' \in [Helpers -> 0..Len(starts)]
  <2>1. inUse \in [Helpers -> 0..Len(starts)] /\ 0 \in 0..Len(starts)
    BY LenProperties DEF TypeInv, TypeOK
  <2> QED
    BY <1>4, <2>1
<1>6. Answered' = Answered
  BY <1>4 DEF Answered
<1>7. TypeOK'
  BY <1>1, <1>2, <1>4, <1>5 DEF TypeInv, TypeOK, stackVars, backendVars
<1> QED
  BY <1>1, <1>3, <1>4, <1>6, <1>7 DEF TypeInv

\* The timer keeps the types.
LEMMA TimeoutTyped ==
  ASSUME TypeInv, NEW h \in Helpers, timeout(h)
  PROVE  TypeInv'
<1> DEFINE r == helper[h]
<1>1. /\ Becomes(h, r) /\ ~helper'[h].m_startupInProgress
      /\ outcomes' = IF r.m_startupInProgress
                     THEN [outcomes EXCEPT ![r.m_handler] = Append(@, "timedOut")] ELSE outcomes
  BY TimeoutEffect
<1>2. /\ r \in Members /\ (r.m_handler = 0 <=> r.m_topic = "UnknownTopic")
      /\ r.m_startupInProgress => r.m_handler \in Starts
      /\ outcomes \in [Starts -> Seq(Outcomes)]
  BY HelperAssumption DEF TypeInv, TypeOK, HandlersInUse, Members, Starts, Outcomes
<1>3. outcomes' \in [Starts -> Seq(Outcomes)]
  <2>1. "timedOut" \in Outcomes
    BY DEF Outcomes
  <2> QED
    BY <1>1, <1>2, <2>1, SignalTyped
<1>4. /\ helper' \in [Helpers -> Members]
      /\ \A g \in Helpers : helper'[g].m_handler = 0 <=> helper'[g].m_topic = "UnknownTopic"
  BY <1>1, <1>2, MembersKept
<1>6. UNCHANGED <<watchers, serviceVars, stackVars, up, down, backendVars, starts, shown, inUse>>
  BY DEF timeout
<1>5. HandlersInUse'
  <2> SUFFICES ASSUME NEW g \in Helpers
               PROVE  /\ helper'[g].m_handler = inUse[g]
                      /\ helper'[g].m_startupInProgress => helper'[g].m_handler # 0
    BY <1>6 DEF HandlersInUse
  <2>1. CASE g = h
    BY <1>1, <2>1 DEF Becomes, HandlersInUse, TypeInv
  <2>2. CASE g # h
    BY <1>1, <2>2 DEF Becomes, HandlersInUse, TypeInv
  <2> QED
    BY <2>1, <2>2
<1>7. Asked' = Asked /\ Answered' = Answered
  BY <1>6 DEF Asked, Answered
<1>8. TypeOK'
  BY <1>3, <1>4, <1>6 DEF TypeInv, TypeOK, Outcomes, serviceVars, stackVars, backendVars
<1> QED
  BY <1>5, <1>6, <1>7, <1>8 DEF TypeInv

\* The slots of connectedChanged keep the types.
LEMMA ConnectedChangedTyped ==
  ASSUME TypeInv, NEW w \in Starts, connectedChanged(w)
  PROVE  TypeInv'
<1> DEFINE h == starts[w].helper
           r == helper[h]
<1>1. /\ UNCHANGED <<serviceVars, inOnConnected, down, backendVars, starts, shown, inUse>>
      /\ toNotify' \subseteq toNotify
  BY DEF connectedChanged
<1>2. Answered' = Answered
  BY <1>1 DEF Answered
<1>3. CASE UNCHANGED <<helper, watchers, up, outcomes>>
  <2>1. Asked' = Asked
    BY <1>3 DEF Asked
  <2>2. TypeOK'
    BY <1>1, <1>3 DEF TypeInv, TypeOK, serviceVars, backendVars
  <2>3. HandlersInUse'
    BY <1>1, <1>3 DEF HandlersInUse, TypeInv
  <2> QED
    BY <1>1, <1>2, <2>1, <2>2, <2>3 DEF TypeInv
<1>4. CASE ~UNCHANGED <<helper, watchers, up, outcomes>>
  <2>1. /\ h \in Helpers
        /\ r.m_startupInProgress /\ r.m_handler \in Starts
        /\ \/ outcomes' = [outcomes EXCEPT ![r.m_handler] = Append(@, "completed")]
           \/ UNCHANGED outcomes
        /\ Becomes(h, r)
        /\ watchers' \subseteq watchers
        /\ up' \in Seq(Requests)
        /\ Asked' \subseteq Asked \cup {r.m_handler}
    BY <1>4, ConnectedChangedEffect
  <2>2. /\ r \in Members /\ (r.m_handler = 0 <=> r.m_topic = "UnknownTopic") /\ r.m_handler # 0
        /\ outcomes \in [Starts -> Seq(Outcomes)]
    BY <2>1 DEF TypeInv, TypeOK, HandlersInUse, Outcomes
  <2>3. outcomes' \in [Starts -> Seq(Outcomes)]
    <3>1. "completed" \in Outcomes
      BY DEF Outcomes
    <3>2. [outcomes EXCEPT ![r.m_handler] = Append(@, "completed")] \in [Starts -> Seq(Outcomes)]
      BY <2>1, <3>1, SignalTyped
    <3> QED
      BY <2>1, <2>2, <3>2
  <2>4. /\ helper' \in [Helpers -> Members]
        /\ \A g \in Helpers : helper'[g].m_handler = 0 <=> helper'[g].m_topic = "UnknownTopic"
    BY <2>1, <2>2, MembersKept
  <2>5. HandlersInUse'
    <3> SUFFICES ASSUME NEW g \in Helpers
                 PROVE  /\ helper'[g].m_handler = inUse[g]
                        /\ helper'[g].m_startupInProgress => helper'[g].m_handler # 0
      BY <1>1 DEF HandlersInUse
    <3>1. CASE g = h
      BY <2>1, <2>2, <3>1 DEF Becomes, HandlersInUse, TypeInv
    <3>2. CASE g # h
      BY <2>1, <3>2 DEF Becomes, HandlersInUse, TypeInv
    <3> QED
      BY <3>1, <3>2
  <2>6. r.m_handler \in 1..Len(starts)
    <3>1. inUse[h] \in 0..Len(starts) /\ r.m_handler = inUse[h]
      BY <2>1 DEF TypeInv, TypeOK, HandlersInUse
    <3> QED
      BY <2>2, <3>1, LenProperties DEF TypeInv, TypeOK
  <2>7. TypeOK'
    BY <1>1, <2>1, <2>3, <2>4 DEF TypeInv, TypeOK, Outcomes, serviceVars, backendVars
  <2> QED
    BY <1>1, <1>2, <2>1, <2>5, <2>6, <2>7 DEF TypeInv
<1> QED
  BY <1>3, <1>4

\* Reading a frame keeps the types.
LEMMA DispatchTyped ==
  ASSUME TypeInv, dispatchMessage
  PROVE  TypeInv'
<1> DEFINE message == Head(down)
<1>1. /\ down # <<>> /\ down' = Tail(down)
      /\ bootstrapAnswered(message) \/ publishReceived(message)
      /\ UNCHANGED <<serviceVars, stackVars, up, backendVars, starts, inUse>>
  BY DEF dispatchMessage
<1>2. /\ message \in Messages /\ 1 \in 1..Len(down) /\ message = down[1]
      /\ down' \in Seq(Messages) /\ Answered' \subseteq Answered
  BY <1>1, TakeEffect
<1> HIDE DEF message
<1>3. Asked' = Asked
  BY <1>1 DEF Asked
<1>4. CASE publishReceived(message)
  <2>1. UNCHANGED <<helper, watchers, outcomes>>
    BY <1>4 DEF publishReceived
  <2>2. shown' \in [Starts -> Data \cup {NoData}]
    <3>1. message.data \in Data /\ shown \in [Starts -> Data \cup {NoData}]
      BY <1>2, <1>4, MessagesTyped DEF publishReceived, TypeInv, TypeOK
    <3> QED
      BY <1>4, <3>1 DEF publishReceived
  <2>3. TypeOK'
    BY <1>1, <1>2, <2>1, <2>2 DEF TypeInv, TypeOK, serviceVars, stackVars, backendVars
  <2>4. HandlersInUse'
    BY <1>1, <2>1 DEF HandlersInUse, TypeInv
  <2> QED
    BY <1>1, <1>2, <1>3, <2>3, <2>4 DEF TypeInv
<1>5. CASE bootstrapAnswered(message)
  <2> DEFINE h == starts[message.by].helper
             r == helper[h]
  <2>1. message.kind # "publish"
    BY <1>5 DEF bootstrapAnswered
  <2>2. h \in Helpers
    BY <1>2, <2>1, AnswerIsOfAStart
  <2>3. \/ /\ Completes(h, r) /\ watchers' \subseteq watchers
           /\ shown' = Given(r.m_handler, message.data)
        \/ UNCHANGED <<helper, watchers, outcomes, shown>>
    BY <1>2, <1>5, <2>1, <2>2, AnsweredEffect
  <2>4. /\ r \in Members /\ (r.m_handler = 0 <=> r.m_topic = "UnknownTopic")
        /\ r.m_startupInProgress => r.m_handler # 0
        /\ r.m_handler = inUse[h]
    BY <2>2 DEF TypeInv, TypeOK, HandlersInUse
  <2>5. CASE UNCHANGED <<helper, watchers, outcomes, shown>>
    <3>1. TypeOK'
      BY <1>1, <1>2, <2>5 DEF TypeInv, TypeOK, serviceVars, stackVars, backendVars
    <3>2. HandlersInUse'
      BY <1>1, <2>5 DEF HandlersInUse, TypeInv
    <3> QED
      BY <1>1, <1>2, <1>3, <3>1, <3>2 DEF TypeInv
  <2>6. CASE /\ Completes(h, r) /\ watchers' \subseteq watchers
             /\ shown' = Given(r.m_handler, message.data)
    <3>1. Becomes(h, r) /\ ~helper'[h].m_startupInProgress
      BY <2>6 DEF Completes
    <3>2. outcomes' \in [Starts -> Seq(Outcomes)]
      BY <2>2, <2>4, <2>6, CompletesTyped
    <3>3. /\ helper' \in [Helpers -> Members]
          /\ \A g \in Helpers : helper'[g].m_handler = 0 <=> helper'[g].m_topic = "UnknownTopic"
      BY <2>2, <2>4, <3>1, MembersKept
    <3>4. shown' \in [Starts -> Data \cup {NoData}]
      <4>1. message.data \in Data \cup {NoData} /\ shown \in [Starts -> Data \cup {NoData}]
        BY <1>2, MessagesTyped DEF TypeInv, TypeOK
      <4> QED
        BY <2>6, <4>1 DEF Given
    <3>5. HandlersInUse'
      <4> SUFFICES ASSUME NEW g \in Helpers
                   PROVE  /\ helper'[g].m_handler = inUse[g]
                          /\ helper'[g].m_startupInProgress => helper'[g].m_handler # 0
        BY <1>1 DEF HandlersInUse
      <4>1. CASE g = h
        BY <2>4, <3>1, <4>1 DEF Becomes
      <4>2. CASE g # h
        BY <3>1, <4>2 DEF Becomes, HandlersInUse, TypeInv
      <4> QED
        BY <4>1, <4>2
    <3>6. TypeOK'
      BY <1>1, <1>2, <2>6, <3>2, <3>3, <3>4
         DEF TypeInv, TypeOK, Outcomes, serviceVars, stackVars, backendVars
    <3> QED
      BY <1>1, <1>2, <1>3, <3>5, <3>6 DEF TypeInv
  <2> QED
    BY <2>3, <2>5, <2>6
<1> QED
  BY <1>1, <1>4, <1>5

\* The steps of the client service and of the backend.
LEMMA ConnectedTyped ==
  ASSUME TypeInv, onConnected
  PROVE  TypeInv'
<1>1. conn' \in 0..MaxConnections
  BY HelperAssumption DEF onConnected, TypeInv, TypeOK
<1>2. /\ UNCHANGED <<helper, watchers, m_subscribedTopics, up, down, backendVars, starts,
                     outcomes, shown, inUse>>
      /\ m_connected' = TRUE /\ inOnConnected' = TRUE /\ toNotify' = watchers
  BY DEF onConnected
<1>3. TypeOK'
  BY <1>1, <1>2 DEF TypeInv, TypeOK, backendVars
<1>4. HandlersInUse' /\ Asked' = Asked /\ Answered' = Answered
  BY <1>2 DEF HandlersInUse, Asked, Answered, TypeInv
<1> QED
  BY <1>2, <1>3, <1>4 DEF TypeInv

\* resubscribeAll keeps the types.
LEMMA ResubscribeTyped ==
  ASSUME TypeInv, resubscribeAll
  PROVE  TypeInv' /\ Asked' \subseteq Asked
<1> DEFINE request == TopicRequest("subscribe", m_subscribedTopics)
<1>1. /\ Send(<<request>>) /\ inOnConnected' = FALSE /\ toNotify' = {}
      /\ UNCHANGED <<helper, watchers, serviceVars, down, backendVars, starts, outcomes, shown,
                     inUse>>
  BY DEF resubscribeAll
<1>2. request \in Requests /\ request.kind # "get"
  BY RequestsTyped DEF TypeInv, TypeOK
<1> HIDE DEF request
<1> DEFINE frames == <<request>>
<1>3. frames \in Seq(Requests) /\ \A i \in 1..Len(frames) : frames[i].kind # "get"
  BY <1>2
<1>4. Send(frames)
  BY <1>1
<1> HIDE DEF frames
<1>5. up' \in Seq(Requests) /\ Asked' \subseteq Asked
  BY <1>3, <1>4, SendEffect
<1>6. TypeOK'
  BY <1>1, <1>5 DEF TypeInv, TypeOK, serviceVars, backendVars
<1>7. HandlersInUse' /\ Answered' = Answered
  BY <1>1 DEF HandlersInUse, Answered, TypeInv
<1> QED
  BY <1>1, <1>5, <1>6, <1>7 DEF TypeInv

\* A disconnect keeps the types: nothing is under way after it.
LEMMA DisconnectedTyped ==
  ASSUME TypeInv, onDisconnected
  PROVE  TypeInv' /\ Asked' = {} /\ Answered' = {}
<1>1. /\ m_connected' = FALSE /\ up' = <<>> /\ down' = <<>> /\ served' = {}
      /\ UNCHANGED <<helper, watchers, m_subscribedTopics, conn, stackVars, version, starts,
                     outcomes, shown, inUse>>
  BY DEF onDisconnected
<1>2. up' \in Seq(Requests) /\ down' \in Seq(Messages)
  BY <1>1
<1>3. TypeOK'
  BY <1>1, <1>2 DEF TypeInv, TypeOK, stackVars
<1>4. Asked' = {} /\ Answered' = {}
  BY <1>1 DEF Asked, Answered
<1>5. HandlersInUse'
  BY <1>1 DEF HandlersInUse, TypeInv
<1> QED
  BY <1>3, <1>4, <1>5 DEF TypeInv

\* The backend answers starts that were made.
LEMMA ProcessTyped ==
  ASSUME TypeInv, processRequest
  PROVE  TypeInv'
<1>1. UNCHANGED <<helper, watchers, serviceVars, stackVars, version, starts, outcomes, shown,
                  inUse>>
  BY DEF processRequest
<1>2. /\ up' \in Seq(Requests) /\ down' \in Seq(Messages) /\ served' \subseteq Topics
      /\ Asked' \subseteq Asked /\ Answered' \subseteq Answered \cup Asked
  BY ProcessEffect
<1>3. TypeOK'
  BY <1>1, <1>2 DEF TypeInv, TypeOK, serviceVars, stackVars
<1>4. HandlersInUse'
  BY <1>1 DEF HandlersInUse, TypeInv
<1> QED
  BY <1>1, <1>2, <1>3, <1>4 DEF TypeInv

\* A publication keeps the types.
LEMMA PublishTyped ==
  ASSUME TypeInv, NEW t \in Topics, publish(t)
  PROVE  TypeInv'
<1>1. UNCHANGED <<helper, watchers, serviceVars, stackVars, up, served, starts, outcomes, shown,
                  inUse>>
  BY DEF publish
<1>2. /\ version' \in [Topics -> 0..MaxChanges] /\ down' \in Seq(Messages)
      /\ Answered' \subseteq Answered
  BY PublishEffect
<1>3. TypeOK'
  BY <1>1, <1>2 DEF TypeInv, TypeOK, serviceVars, stackVars
<1>4. HandlersInUse' /\ Asked' = Asked
  BY <1>1 DEF HandlersInUse, Asked, TypeInv
<1> QED
  BY <1>1, <1>2, <1>3, <1>4 DEF TypeInv

\* The service starts well typed.
LEMMA InitTyped == Init => TypeInv
<1> SUFFICES ASSUME Init PROVE TypeInv
  OBVIOUS
<1>1. /\ 0 \in 0..MaxStarts /\ 0 \in 0..MaxConnections /\ 0 \in 0..MaxChanges /\ MaxStarts >= 0
      /\ "UnknownMethod" \in BootstrapMethods
  BY HelperAssumption DEF BootstrapMethods
<1>2. helper \in [Helpers -> Members]
  BY <1>1 DEF Init, Members
<1>3. /\ \A h \in Helpers : helper[h].m_handler = 0 /\ helper[h].m_topic = "UnknownTopic"
                            /\ ~helper[h].m_startupInProgress
  BY DEF Init
<1>4. starts \in Seq(StartCalls) /\ Len(starts) = 0 /\ up \in Seq(Requests) /\ down \in Seq(Messages)
  BY DEF Init
<1>5. outcomes \in [Starts -> Seq({"completed", "timedOut"})]
  BY DEF Init
<1>6. TypeOK
  <2>1. /\ watchers = {} /\ m_connected \in BOOLEAN /\ m_subscribedTopics = {}
        /\ conn \in 0..MaxConnections /\ inOnConnected \in BOOLEAN /\ toNotify = {} /\ served = {}
    BY <1>1 DEF Init
  <2>2. version \in [Topics -> 0..MaxChanges]
    BY <1>1 DEF Init
  <2>3. shown \in [Starts -> Data \cup {NoData}]
    BY DEF Init
  <2>4. inUse \in [Helpers -> 0..Len(starts)]
    BY <1>4 DEF Init
  <2> QED
    BY <1>1, <1>2, <1>3, <1>4, <1>5, <2>1, <2>2, <2>3, <2>4 DEF TypeOK
<1>7. HandlersInUse
  BY <1>3 DEF Init, HandlersInUse
<1>8. Asked = {} /\ Answered = {}
  BY DEF Init, Asked, Answered
<1> QED
  BY <1>6, <1>7, <1>8 DEF TypeInv

\* Every step keeps the types.
LEMMA NextTyped == TypeInv /\ [Next]_helperVars => TypeInv'
<1> SUFFICES ASSUME TypeInv, [Next]_helperVars PROVE TypeInv'
  OBVIOUS
<1>1. ASSUME NEW use \in Uses, start(use[1], use[2], use[3]) PROVE TypeInv'
  <2>1. use[1] \in Helpers /\ use[2] \in Topics /\ use[3] \in BootstrapMethods
    BY HelperAssumption DEF BootstrapMethods
  <2> QED
    BY <1>1, <2>1, StartTyped
<1>2. ASSUME NEW h \in Helpers, stop(h) \/ timeout(h) PROVE TypeInv'
  BY <1>2, StopTyped, TimeoutTyped
<1>3. CASE LoopStep
  BY <1>3, ResubscribeTyped, ConnectedChangedTyped DEF LoopStep
<1>4. CASE onConnected \/ onDisconnected \/ dispatchMessage \/ processRequest
  BY <1>4, ConnectedTyped, DisconnectedTyped, DispatchTyped, ProcessTyped
<1>5. ASSUME NEW t \in Topics, publish(t) PROVE TypeInv'
  BY <1>5, PublishTyped
<1>6. CASE UNCHANGED helperVars
  BY <1>6 DEF helperVars, serviceVars, stackVars, backendVars, TypeInv, TypeOK, HandlersInUse,
              Asked, Answered
<1> QED
  BY <1>1, <1>2, <1>3, <1>4, <1>5, <1>6 DEF Next

\* The types, and what is under way, hold of every behaviour.
LEMMA TypeInvHolds == Spec => []TypeInv
  BY InitTyped, NextTyped, PTL DEF Spec

\* Every variable keeps its type; the members of a helper, and what is under way,
\* name starts that were made.
THEOREM TypeCorrect == Spec => []TypeOK
  BY TypeInvHolds, PTL DEF TypeInv

----------------------------------------------------------------------------
(* A helper and the start it serves; outcomes.                              *)

\* The start in use is one of the helper, with its topic and its method.
Owned ==
  \A h \in Helpers :
    inUse[h] # 0 =>
      /\ starts[inUse[h]].helper = h
      /\ starts[inUse[h]].topic = helper[h].m_topic
      /\ starts[inUse[h]].method = helper[h].m_bootstrapMethod

\* A startup in progress has reported nothing, nor has a start to come.
Unreported ==
  /\ \A h \in Helpers : helper[h].m_startupInProgress => outcomes[inUse[h]] = <<>>
  /\ \A s \in Starts : s > Len(starts) => outcomes[s] = <<>>

OutcomeInv == Owned /\ Unreported /\ OneOutcome

\* Outcomes are added for the starts in use only.
OutcomesOfUsers == \A s \in 1..Len(starts) : ~IsInUse(s) => outcomes'[s] = outcomes[s]

\* How an operation ends the startup of h: with outcome o, or not at all.
Reports(h, o) ==
  \/ /\ helper[h].m_startupInProgress /\ ~helper'[h].m_startupInProgress
     /\ outcomes' = [outcomes EXCEPT ![helper[h].m_handler] = Append(@, o)]
  \/ /\ helper'[h].m_startupInProgress => helper[h].m_startupInProgress
     /\ UNCHANGED outcomes

\* The start that the helper serves, if it has one.
LEMMA InUseIsAStart ==
  ASSUME TypeInv, NEW h \in Helpers, helper[h].m_handler # 0
  PROVE  /\ helper[h].m_handler = inUse[h] /\ inUse[h] \in 1..Len(starts)
         /\ inUse[h] \in Starts
         /\ starts[inUse[h]] \in StartCalls
<1>1. /\ helper[h].m_handler = inUse[h] /\ inUse[h] \in 0..Len(starts)
      /\ starts \in Seq(StartCalls) /\ Len(starts) <= MaxStarts
  BY DEF TypeInv, TypeOK, HandlersInUse
<1>2. inUse[h] \in 1..Len(starts) /\ inUse[h] \in Starts
  BY <1>1, LenProperties, HelperAssumption DEF Starts
<1> QED
  BY <1>1, <1>2, ElementOfSeq

\* A step that reports for starts in progress only, and ends them, keeps the
\* outcomes.
LEMMA ReportKeepsOutcomes ==
  ASSUME TypeInv, OutcomeInv, NEW h \in Helpers, NEW o \in Outcomes,
         Becomes(h, helper[h]), Reports(h, o), UNCHANGED <<starts, inUse>>
  PROVE  OutcomeInv' /\ OutcomesOfUsers
<1>1. Owned'
  <2> SUFFICES ASSUME NEW g \in Helpers, inUse[g] # 0
               PROVE  /\ starts[inUse[g]].helper = g
                      /\ starts[inUse[g]].topic = helper'[g].m_topic
                      /\ starts[inUse[g]].method = helper'[g].m_bootstrapMethod
    BY DEF Owned
  <2>1. helper'[g].m_topic = helper[g].m_topic
        /\ helper'[g].m_bootstrapMethod = helper[g].m_bootstrapMethod
    BY DEF Becomes
  <2> QED
    BY <2>1 DEF OutcomeInv, Owned
<1>2. CASE /\ helper'[h].m_startupInProgress => helper[h].m_startupInProgress
           /\ UNCHANGED outcomes
  <2>1. \A g \in Helpers : helper'[g].m_startupInProgress => helper[g].m_startupInProgress
    BY <1>2 DEF Becomes
  <2> QED
    BY <1>1, <1>2, <2>1 DEF OutcomeInv, Unreported, OneOutcome, OutcomesOfUsers
<1>3. CASE /\ helper[h].m_startupInProgress /\ ~helper'[h].m_startupInProgress
           /\ outcomes' = [outcomes EXCEPT ![helper[h].m_handler] = Append(@, o)]
  <2>1. /\ inUse[h] = helper[h].m_handler
        /\ inUse[h] \in 1..Len(starts) /\ inUse[h] \in Starts
    BY <1>3, InUseIsAStart DEF TypeInv, HandlersInUse
  <2>2. /\ outcomes \in [Starts -> Seq({"completed", "timedOut"})]
        /\ Len(starts) \in Nat
    BY LenProperties DEF TypeInv, TypeOK
  <2>3. outcomes[inUse[h]] = <<>> /\ starts[inUse[h]].helper = h
    BY <1>3, <2>1 DEF OutcomeInv, Unreported, Owned
  <2>4. /\ outcomes'[inUse[h]] = <<o>>
        /\ \A s \in Starts : s # inUse[h] => outcomes'[s] = outcomes[s]
    BY <1>3, <2>1, <2>2, <2>3
  <2>5. OneOutcome'
    <3>1. Len(<<o>>) <= 1
      OBVIOUS
    <3> QED
      BY <2>4, <3>1 DEF OutcomeInv, OneOutcome
  <2>6. Unreported'
    <3>1. \A s \in Starts : s > Len(starts) => outcomes'[s] = <<>>
      BY <2>1, <2>2, <2>4 DEF OutcomeInv, Unreported, Starts
    <3>2. ASSUME NEW g \in Helpers, helper'[g].m_startupInProgress
          PROVE  outcomes'[inUse[g]] = <<>>
      <4>1. g # h /\ helper[g].m_startupInProgress
        BY <1>3, <3>2 DEF Becomes
      <4>2. inUse[g] \in Starts /\ starts[inUse[g]].helper = g
        BY <4>1, InUseIsAStart DEF TypeInv, HandlersInUse, OutcomeInv, Owned
      <4> QED
        BY <2>3, <2>4, <4>1, <4>2 DEF OutcomeInv, Unreported
    <3> QED
      BY <3>1, <3>2 DEF Unreported
  <2>7. OutcomesOfUsers
    <3> SUFFICES ASSUME NEW s \in 1..Len(starts), ~IsInUse(s)
                 PROVE  outcomes'[s] = outcomes[s]
      BY DEF OutcomesOfUsers
    <3>1. s \in Starts
      BY <2>2, HelperAssumption DEF Starts, TypeInv, TypeOK
    <3> QED
      BY <2>3, <2>4, <3>1 DEF IsInUse
  <2> QED
    BY <1>1, <2>5, <2>6, <2>7 DEF OutcomeInv
<1> QED
  BY <1>2, <1>3 DEF Reports

\* start() keeps the outcomes: its start is new.
LEMMA StartKeepsOutcomes ==
  ASSUME TypeInv, OutcomeInv, NEW h \in Helpers, NEW t \in Topics, NEW method \in BootstrapMethods,
         start(h, t, method)
  PROVE  OutcomeInv' /\ OutcomesOfUsers
<1> DEFINE s == Len(starts) + 1
           r == Started(h, t, method)
           call == Call(h, t, method)
<1>1. /\ s \in Starts /\ Len(starts) \in Nat
      /\ starts' = Append(starts, call) /\ Len(starts') = s
      /\ Becomes(h, r)
      /\ \/ ~helper'[h].m_startupInProgress /\ outcomes' = [outcomes EXCEPT ![s] = Append(@, "completed")]
         \/ UNCHANGED outcomes
  BY StartEffect
<1>2. /\ r.m_handler = s /\ r.m_topic = t /\ r.m_bootstrapMethod = method
      /\ call.helper = h /\ call.topic = t /\ call.method = method
  BY <1>1, StartedTyped DEF Call
<1>3. /\ inUse' = [inUse EXCEPT ![h] = s]
      /\ inUse \in [Helpers -> 0..Len(starts)]
      /\ starts \in Seq(StartCalls)
      /\ outcomes \in [Starts -> Seq({"completed", "timedOut"})]
  BY DEF start, TypeInv, TypeOK
<1> HIDE DEF r, call
<1>4. starts'[s] = call /\ \A w \in 1..Len(starts) : starts'[w] = starts[w]
  BY <1>1, <1>3, AppendProperties
<1>5. outcomes[s] = <<>>
  BY <1>1 DEF OutcomeInv, Unreported
<1>6. /\ \/ outcomes'[s] = <<>>
         \/ outcomes'[s] = <<"completed">> /\ ~helper'[h].m_startupInProgress
      /\ \A w \in Starts : w # s => outcomes'[w] = outcomes[w]
  <2>1. Append(<<>>, "completed") = <<"completed">>
    OBVIOUS
  <2> QED
    BY <1>1, <1>3, <1>5, <2>1
<1>7. Owned'
  <2> SUFFICES ASSUME NEW g \in Helpers, inUse'[g] # 0
               PROVE  /\ starts'[inUse'[g]].helper = g
                      /\ starts'[inUse'[g]].topic = helper'[g].m_topic
                      /\ starts'[inUse'[g]].method = helper'[g].m_bootstrapMethod
    BY DEF Owned
  <2>1. CASE g = h
    BY <1>1, <1>2, <1>3, <1>4, <2>1 DEF Becomes
  <2>2. CASE g # h
    <3>1. inUse'[g] = inUse[g] /\ inUse[g] \in 1..Len(starts) /\ helper'[g] = helper[g]
      BY <1>1, <1>3, <2>2 DEF Becomes
    <3> QED
      BY <1>4, <3>1 DEF OutcomeInv, Owned
  <2> QED
    BY <2>1, <2>2
<1>8. Unreported'
  <2>1. \A w \in Starts : w > Len(starts') => outcomes'[w] = <<>>
    BY <1>1, <1>6 DEF OutcomeInv, Unreported, Starts
  <2>2. ASSUME NEW g \in Helpers, helper'[g].m_startupInProgress
        PROVE  outcomes'[inUse'[g]] = <<>>
    <3>1. CASE g = h
      BY <1>3, <1>6, <2>2, <3>1
    <3>2. CASE g # h
      <4>1. helper[g].m_startupInProgress /\ inUse'[g] = inUse[g]
        BY <1>1, <1>3, <2>2, <3>2 DEF Becomes
      <4>2. inUse[g] \in Starts /\ inUse[g] \in 1..Len(starts)
        BY <4>1, InUseIsAStart DEF TypeInv, HandlersInUse
      <4> QED
        BY <1>1, <1>6, <4>1, <4>2 DEF OutcomeInv, Unreported
    <3> QED
      BY <3>1, <3>2
  <2> QED
    BY <2>1, <2>2 DEF Unreported
<1>9. OneOutcome'
  <2>1. Len(<<>>) <= 1 /\ Len(<<"completed">>) <= 1
    OBVIOUS
  <2> QED
    BY <1>6, <2>1 DEF OutcomeInv, OneOutcome
<1>10. OutcomesOfUsers
  <2> SUFFICES ASSUME NEW w \in 1..Len(starts) PROVE outcomes'[w] = outcomes[w]
    BY DEF OutcomesOfUsers
  <2>1. w \in Starts /\ w # s
    BY <1>1, HelperAssumption DEF Starts
  <2> QED
    BY <1>6, <2>1
<1> QED
  BY <1>7, <1>8, <1>9, <1>10 DEF OutcomeInv

\* stop() keeps the outcomes: it signals nothing.
LEMMA StopKeepsOutcomes ==
  ASSUME TypeInv, OutcomeInv, NEW h \in Helpers, stop(h)
  PROVE  OutcomeInv' /\ OutcomesOfUsers
<1>1. /\ Becomes(h, Stopped) /\ helper'[h] = Stopped /\ UNCHANGED <<starts, outcomes>>
      /\ inUse' = [inUse EXCEPT ![h] = 0] /\ inUse \in [Helpers -> 0..Len(starts)]
  BY StopEffect DEF stop, TypeInv, TypeOK
<1>2. \A g \in Helpers : helper'[g].m_startupInProgress =>
        g # h /\ helper[g].m_startupInProgress /\ inUse'[g] = inUse[g]
  BY <1>1 DEF Becomes, Stopped
<1>3. \A g \in Helpers : inUse'[g] # 0 => g # h /\ inUse'[g] = inUse[g] /\ helper'[g] = helper[g]
  BY <1>1 DEF Becomes
<1>4. Owned'
  BY <1>1, <1>3 DEF OutcomeInv, Owned
<1>5. Unreported'
  BY <1>1, <1>2 DEF OutcomeInv, Unreported
<1>6. OneOutcome' /\ OutcomesOfUsers
  BY <1>1 DEF OutcomeInv, OneOutcome, OutcomesOfUsers
<1> QED
  BY <1>4, <1>5, <1>6 DEF OutcomeInv

\* How timeout, connectedChanged and an answer report.
LEMMA TimeoutReports ==
  ASSUME TypeInv, NEW h \in Helpers, timeout(h)
  PROVE  Becomes(h, helper[h]) /\ Reports(h, "timedOut") /\ UNCHANGED <<starts, inUse>>
<1>1. UNCHANGED <<starts, inUse>>
  BY DEF timeout
<1> QED
  BY <1>1, TimeoutEffect DEF Reports

\* A slot of connectedChanged reports at most for the startup in progress.
LEMMA ConnectedChangedReports ==
  ASSUME TypeInv, NEW w \in Starts, connectedChanged(w),
         ~UNCHANGED <<helper, watchers, up, outcomes>>
  PROVE  LET h == starts[w].helper IN
         /\ h \in Helpers /\ helper[h].m_handler # 0
         /\ Becomes(h, helper[h]) /\ Reports(h, "completed")
         /\ outcomes' = outcomes \/ helper[h].m_bootstrapMethod = "UnknownMethod"
         /\ Asked' \subseteq Asked \cup {helper[h].m_handler}
<1>1. \A h \in Helpers : helper[h].m_handler \in Starts => helper[h].m_handler # 0
  BY HelperAssumption DEF Starts
<1> QED
  BY <1>1, ConnectedChangedEffect DEF Reports

\* The callback of a bootstrap reports at most for the startup in progress.
LEMMA AnswerReports ==
  ASSUME TypeInv, NEW h \in Helpers, Completes(h, helper[h])
  PROVE  Becomes(h, helper[h]) /\ Reports(h, "completed")
BY DEF Completes, Reports

\* Every step keeps the outcomes, and those of starts not in use.
LEMMA NextKeepsOutcomes ==
  TypeInv /\ OutcomeInv /\ [Next]_helperVars => OutcomeInv' /\ OutcomesOfUsers
<1> SUFFICES ASSUME TypeInv, OutcomeInv, [Next]_helperVars PROVE OutcomeInv' /\ OutcomesOfUsers
  OBVIOUS
<1> USE DEF Outcomes
<1>0. ASSUME UNCHANGED <<helper, starts, outcomes, inUse>> PROVE OutcomeInv' /\ OutcomesOfUsers
  BY <1>0 DEF OutcomeInv, Owned, Unreported, OneOutcome, OutcomesOfUsers
<1>1. ASSUME NEW use \in Uses, start(use[1], use[2], use[3]) PROVE OutcomeInv' /\ OutcomesOfUsers
  <2>1. use[1] \in Helpers /\ use[2] \in Topics /\ use[3] \in BootstrapMethods
    BY HelperAssumption DEF BootstrapMethods
  <2> QED
    BY <1>1, <2>1, StartKeepsOutcomes
<1>2. ASSUME NEW h \in Helpers, stop(h) PROVE OutcomeInv' /\ OutcomesOfUsers
  BY <1>2, StopKeepsOutcomes
<1>3. ASSUME NEW h \in Helpers, timeout(h) PROVE OutcomeInv' /\ OutcomesOfUsers
  <2>1. Becomes(h, helper[h]) /\ Reports(h, "timedOut") /\ UNCHANGED <<starts, inUse>>
    BY <1>3, TimeoutReports
  <2>2. "timedOut" \in Outcomes
    OBVIOUS
  <2> QED
    BY <2>1, <2>2, ReportKeepsOutcomes
<1>4. ASSUME NEW w \in Starts, connectedChanged(w) PROVE OutcomeInv' /\ OutcomesOfUsers
  <2>1. UNCHANGED <<starts, inUse>>
    BY <1>4 DEF connectedChanged
  <2>2. CASE UNCHANGED <<helper, watchers, up, outcomes>>
    BY <1>0, <2>1, <2>2
  <2>3. CASE ~UNCHANGED <<helper, watchers, up, outcomes>>
    <3> DEFINE h == starts[w].helper
    <3>1. h \in Helpers /\ Becomes(h, helper[h]) /\ Reports(h, "completed")
      BY <1>4, <2>3, ConnectedChangedReports
    <3>2. "completed" \in Outcomes
      OBVIOUS
    <3> QED
      BY <2>1, <3>1, <3>2, ReportKeepsOutcomes
  <2> QED
    BY <2>2, <2>3
<1>5. CASE dispatchMessage
  <2> DEFINE message == Head(down)
  <2>1. /\ down # <<>> /\ down' = Tail(down) /\ UNCHANGED <<starts, inUse>>
        /\ bootstrapAnswered(message) \/ publishReceived(message)
    BY <1>5 DEF dispatchMessage
  <2>2. message \in Messages /\ 1 \in 1..Len(down) /\ message = down[1]
    BY <2>1, TakeEffect
  <2>3. CASE publishReceived(message)
    BY <1>0, <2>1, <2>3 DEF publishReceived
  <2>4. CASE bootstrapAnswered(message)
    <3> DEFINE h == starts[message.by].helper
    <3>1. message.kind # "publish" /\ h \in Helpers
      BY <2>2, <2>4, AnswerIsOfAStart DEF bootstrapAnswered
    <3> HIDE DEF message
    <3>2. Completes(h, helper[h]) \/ UNCHANGED <<helper, outcomes>>
      BY <2>2, <2>4, <3>1, AnsweredEffect
    <3>3. "completed" \in Outcomes
      OBVIOUS
    <3>4. CASE Completes(h, helper[h])
      BY <2>1, <3>1, <3>3, <3>4, AnswerReports, ReportKeepsOutcomes
    <3> QED
      BY <1>0, <2>1, <3>2, <3>4
  <2> QED
    BY <2>1, <2>3, <2>4
<1>6. CASE resubscribeAll \/ onConnected \/ onDisconnected \/ processRequest
  BY <1>0, <1>6 DEF resubscribeAll, onConnected, onDisconnected, processRequest
<1>7. ASSUME NEW t \in Topics, publish(t) PROVE OutcomeInv' /\ OutcomesOfUsers
  BY <1>0, <1>7 DEF publish
<1>8. CASE UNCHANGED helperVars
  BY <1>0, <1>8 DEF helperVars
<1> QED
  BY <1>1, <1>2, <1>3, <1>4, <1>5, <1>6, <1>7, <1>8 DEF Next, LoopStep

\* The outcome invariant holds of every behaviour.
LEMMA OutcomeInvHolds == Spec => [](TypeInv /\ OutcomeInv)
<1>1. Init => OutcomeInv
  <2> SUFFICES ASSUME Init PROVE OutcomeInv
    OBVIOUS
  <2>1. \A s \in Starts : outcomes[s] = <<>>
    BY DEF Init
  <2>2. \A h \in Helpers : inUse[h] = 0 /\ ~helper[h].m_startupInProgress
    BY DEF Init
  <2>3. Len(<<>>) <= 1
    OBVIOUS
  <2> QED
    BY <2>1, <2>2, <2>3 DEF OutcomeInv, Owned, Unreported, OneOutcome
<1> QED
  BY <1>1, InitTyped, NextTyped, NextKeepsOutcomes, PTL DEF Spec

\* A startup reports once: whatever the order of answers, timers, connections and
\* later startups.
THEOREM OneOutcomeHolds == Spec => []OneOutcome
  BY OutcomeInvHolds, PTL DEF OutcomeInv

----------------------------------------------------------------------------
(* The data a handler is given.                                             *)

\* Of a helper whose start in use is clean, only its own bootstrap waits.
NoneOverlaps ==
  \A h \in Helpers, w \in Asked \cup Answered :
    inUse[h] # 0 /\ starts[inUse[h]].clean /\ starts[w].helper = h => w = inUse[h]

\* The server answers with the data of the topic of the start that asked.
AnswersOwn ==
  \A i \in 1..Len(down) :
    down[i].kind = "data" =>
      down[i].data \in Data /\ down[i].data.topic = starts[down[i].by].topic

\* A start to come was given nothing.
Unshown == \A s \in Starts : s > Len(starts) => shown[s] = NoData

DataInv == NoneOverlaps /\ AnswersOwn /\ Unshown /\ OwnTopicOnly /\ CompletedHasData

HelperInv == TypeInv /\ OutcomeInv /\ DataInv

\* Data goes to the handlers in use only.
DataOfUsers == \A s \in 1..Len(starts) : ~IsInUse(s) => shown'[s] = shown[s]

\* The data of a topic is told from no data.
LEMMA DataIsSome == \A data \in Data : data # NoData /\ data.topic \in Topics
BY HelperAssumption DEF Data, NoData

\* Bootstraps under way belong to starts that were made.
LEMMA AskedAreStarts ==
  ASSUME TypeInv
  PROVE  Asked \cup Answered \subseteq 1..Len(starts) /\ Len(starts) \in Nat
BY LenProperties DEF TypeInv, TypeOK

\* start() keeps the data invariant: it is where a start is found clean or not.
LEMMA StartKeepsData ==
  ASSUME HelperInv, NEW h \in Helpers, NEW t \in Topics, NEW method \in BootstrapMethods,
         start(h, t, method)
  PROVE  DataInv' /\ DataOfUsers
<1> DEFINE s == Len(starts) + 1
           call == Call(h, t, method)
<1>0. TypeInv /\ OutcomeInv
  BY DEF HelperInv
<1>1. /\ s \in Starts /\ Len(starts) \in Nat
      /\ starts' = Append(starts, call) /\ Len(starts') = s
      /\ \/ method = "UnknownMethod" /\ outcomes' = [outcomes EXCEPT ![s] = Append(@, "completed")]
         \/ UNCHANGED outcomes
      /\ Asked' \subseteq Asked \cup {s}
  BY <1>0, StartEffect
<1>2. /\ call.helper = h /\ call.topic = t /\ call.method = method
      /\ call.clean => ~AwaitsBootstrap(h)
  BY DEF Call
<1>3. /\ inUse' = [inUse EXCEPT ![h] = s] /\ UNCHANGED <<down, shown>>
      /\ inUse \in [Helpers -> 0..Len(starts)]
      /\ starts \in Seq(StartCalls)
      /\ outcomes \in [Starts -> Seq({"completed", "timedOut"})]
  BY <1>0 DEF start, TypeInv, TypeOK
<1> HIDE DEF call
<1>4. starts'[s] = call /\ \A w \in 1..Len(starts) : starts'[w] = starts[w] /\ w # s /\ w \in Starts
  <2>1. \A w \in 1..Len(starts) : w # s /\ w \in Starts
    BY <1>1, HelperAssumption DEF Starts
  <2>2. starts \in Seq(StartCalls) /\ call \in StartCalls /\ s = Len(starts) + 1 /\ starts' = Append(starts, call)
    BY <1>0, <1>1, <1>3, StartEffect
  <2> QED
    BY <2>1, <2>2, AppendProperties
<1>5. Asked \cup Answered \subseteq 1..Len(starts) /\ Answered' = Answered
  BY <1>0, <1>3, AskedAreStarts DEF Answered
<1>6. NoneOverlaps'
  <2> SUFFICES ASSUME NEW g \in Helpers, NEW w \in Asked \cup {s} \cup Answered,
                      inUse'[g] # 0, starts'[inUse'[g]].clean, starts'[w].helper = g
               PROVE  w = inUse'[g]
    BY <1>1, <1>5 DEF NoneOverlaps
  <2>1. CASE g = h
    <3>1. inUse'[g] = s /\ call.clean
      BY <1>3, <1>4, <2>1
    <3>2. \A v \in Asked \cup Answered : starts[v].helper # h
      BY <1>2, <3>1 DEF AwaitsBootstrap, Asked, Answered
    <3> QED
      BY <1>4, <1>5, <2>1, <3>1, <3>2
  <2>2. CASE g # h
    <3>1. inUse'[g] = inUse[g] /\ inUse[g] \in 1..Len(starts)
      BY <1>3, <2>2
    <3>2. w # s
      BY <1>2, <1>4, <2>2
    <3> QED
      BY <1>4, <1>5, <3>1, <3>2 DEF HelperInv, DataInv, NoneOverlaps
  <2> QED
    BY <2>1, <2>2
<1>7. AnswersOwn'
  <2> SUFFICES ASSUME NEW i \in 1..Len(down), down[i].kind = "data"
               PROVE  down[i].data \in Data /\ down[i].data.topic = starts'[down[i].by].topic
    BY <1>3 DEF AnswersOwn
  <2>1. down[i].by \in 1..Len(starts)
    BY <1>0, AnswerIsOfAStart
  <2> QED
    BY <1>4, <2>1 DEF HelperInv, DataInv, AnswersOwn
<1>8. Unshown'
  BY <1>1, <1>3 DEF HelperInv, DataInv, Unshown, Starts
<1>9. shown'[s] = NoData
  BY <1>1, <1>3 DEF HelperInv, DataInv, Unshown
<1>10. OwnTopicOnly'
  <2> SUFFICES ASSUME NEW w \in 1..Len(starts'), starts'[w].clean, shown'[w] # NoData
               PROVE  shown'[w].topic = starts'[w].topic
    BY DEF OwnTopicOnly
  <2>1. w \in 1..Len(starts)
    BY <1>1, <1>9
  <2> QED
    BY <1>3, <1>4, <2>1 DEF HelperInv, DataInv, OwnTopicOnly
<1>11. CompletedHasData'
  <2> SUFFICES ASSUME NEW w \in 1..Len(starts'), starts'[w].clean, starts'[w].method = "Get",
                      Completed(w)'
               PROVE  shown'[w] # NoData
    BY DEF CompletedHasData
  <2>1. CASE w = s
    <3>1. outcomes' = outcomes
      BY <1>1, <1>2, <1>4, <2>1
    <3>2. outcomes[s] = <<>>
      BY <1>0, <1>1 DEF OutcomeInv, Unreported
    <3> QED
      BY <2>1, <3>1, <3>2 DEF Completed
  <2>2. CASE w # s
    <3>1. w \in 1..Len(starts)
      BY <1>1, <2>2
    <3>2. outcomes'[w] = outcomes[w]
      BY <1>1, <1>3, <1>4, <3>1
    <3> QED
      BY <1>3, <1>4, <3>1, <3>2 DEF HelperInv, DataInv, CompletedHasData, Completed
  <2> QED
    BY <2>1, <2>2
<1> QED
  BY <1>3, <1>6, <1>7, <1>8, <1>10, <1>11 DEF DataInv, DataOfUsers

\* An operation that gives no data keeps all of it, if what it leaves under way
\* belongs to the starts in use and it completes no start that has a bootstrap.
LEMMA QuietKeepsData ==
  ASSUME HelperInv, UNCHANGED <<starts, shown>>,
         \A g \in Helpers : inUse'[g] = inUse[g] \/ inUse'[g] = 0,
         \A w \in Asked' \cup Answered' :
           w \in Asked \cup Answered \/ inUse[starts[w].helper] = w,
         AnswersOwn',
         \A v \in 1..Len(starts) : starts[v].method = "Get" /\ Completed(v)' => Completed(v)
  PROVE  DataInv' /\ DataOfUsers
<1>1. NoneOverlaps'
  <2> SUFFICES ASSUME NEW g \in Helpers, NEW w \in Asked' \cup Answered',
                      inUse'[g] # 0, starts[inUse'[g]].clean, starts[w].helper = g
               PROVE  w = inUse'[g]
    BY DEF NoneOverlaps
  <2>1. inUse'[g] = inUse[g]
    OBVIOUS
  <2>2. CASE w \in Asked \cup Answered
    BY <2>1, <2>2 DEF HelperInv, DataInv, NoneOverlaps
  <2>3. CASE inUse[starts[w].helper] = w
    BY <2>1, <2>3
  <2> QED
    BY <2>2, <2>3
<1>2. Unshown' /\ OwnTopicOnly' /\ DataOfUsers
  BY DEF HelperInv, DataInv, Unshown, OwnTopicOnly, DataOfUsers
<1>3. CompletedHasData'
  <2> SUFFICES ASSUME NEW v \in 1..Len(starts), starts[v].clean, starts[v].method = "Get",
                      Completed(v)'
               PROVE  shown[v] # NoData
    BY DEF CompletedHasData
  <2>1. Completed(v)
    OBVIOUS
  <2> QED
    BY <2>1 DEF HelperInv, DataInv, CompletedHasData
<1> QED
  BY <1>1, <1>2, <1>3 DEF DataInv

\* What an outcome completes.
LEMMA ReportCompletes ==
  ASSUME TypeInv, OutcomeInv, NEW h \in Helpers, NEW o \in Outcomes, Reports(h, o),
         NEW v \in 1..Len(starts), Completed(v)', ~Completed(v)
  PROVE  o = "completed" /\ helper[h].m_handler # 0 /\ v = inUse[h]
<1>1. outcomes # outcomes'
  BY DEF Completed
<1>2. /\ helper[h].m_startupInProgress
      /\ outcomes' = [outcomes EXCEPT ![helper[h].m_handler] = Append(@, o)]
  BY <1>1 DEF Reports
<1>3. /\ helper[h].m_handler = inUse[h] /\ helper[h].m_handler # 0 /\ inUse[h] \in Starts
      /\ outcomes[inUse[h]] = <<>>
  BY <1>2, InUseIsAStart DEF TypeInv, HandlersInUse, OutcomeInv, Unreported
<1>4. /\ outcomes \in [Starts -> Seq({"completed", "timedOut"})]
      /\ v \in Starts
  BY LenProperties, HelperAssumption DEF TypeInv, TypeOK, Starts
<1>5. v = inUse[h]
  <2> SUFFICES ASSUME v # inUse[h] PROVE FALSE
    OBVIOUS
  <2>1. outcomes'[v] = outcomes[v]
    BY <1>2, <1>3, <1>4
  <2> QED
    BY <2>1 DEF Completed
<1>6. outcomes'[v] = <<o>>
  BY <1>2, <1>3, <1>4, <1>5
<1>7. o = "completed"
  BY <1>6 DEF Completed
<1> QED
  BY <1>3, <1>5, <1>7

\* stop() keeps the data invariant.
LEMMA StopKeepsData ==
  ASSUME HelperInv, NEW h \in Helpers, stop(h)
  PROVE  DataInv' /\ DataOfUsers
<1>1. UNCHANGED <<starts, shown, down, outcomes>> /\ Asked' \subseteq Asked
  BY StopEffect DEF stop, HelperInv
<1>2. \A g \in Helpers : inUse'[g] = inUse[g] \/ inUse'[g] = 0
  BY DEF stop, HelperInv, TypeInv, TypeOK
<1>3. Answered' = Answered /\ AnswersOwn'
  BY <1>1 DEF Answered, AnswersOwn, HelperInv, DataInv
<1>4. \A v \in 1..Len(starts) : Completed(v)' => Completed(v)
  BY <1>1 DEF Completed
<1> QED
  BY <1>1, <1>2, <1>3, <1>4, QuietKeepsData

\* The timer keeps the data invariant.
LEMMA TimeoutKeepsData ==
  ASSUME HelperInv, NEW h \in Helpers, timeout(h)
  PROVE  DataInv' /\ DataOfUsers
<1>1. UNCHANGED <<starts, shown, up, down, inUse>>
  BY DEF timeout
<1>2. Asked' = Asked /\ Answered' = Answered /\ AnswersOwn'
  BY <1>1 DEF Asked, Answered, AnswersOwn, HelperInv, DataInv
<1>3. \A v \in 1..Len(starts) : Completed(v)' => Completed(v)
  <2>1. Reports(h, "timedOut") /\ "timedOut" \in Outcomes /\ TypeInv /\ OutcomeInv
    BY TimeoutReports DEF HelperInv, Outcomes
  <2> QED
    BY <2>1, ReportCompletes
<1> QED
  BY <1>1, <1>2, <1>3, QuietKeepsData

\* A slot of connectedChanged keeps the data invariant: it bootstraps for the start
\* in use.
LEMMA ConnectedChangedKeepsData ==
  ASSUME HelperInv, NEW w \in Starts, connectedChanged(w)
  PROVE  DataInv' /\ DataOfUsers
<1>0. TypeInv /\ OutcomeInv
  BY DEF HelperInv
<1>1. UNCHANGED <<starts, shown, down, inUse>>
  BY DEF connectedChanged
<1>2. Answered' = Answered /\ AnswersOwn'
  BY <1>1 DEF Answered, AnswersOwn, HelperInv, DataInv
<1>3. CASE UNCHANGED <<helper, watchers, up, outcomes>>
  <2>1. Asked' = Asked /\ \A v \in 1..Len(starts) : Completed(v)' => Completed(v)
    BY <1>3 DEF Asked, Completed
  <2> QED
    BY <1>1, <1>2, <2>1, QuietKeepsData
<1>4. CASE ~UNCHANGED <<helper, watchers, up, outcomes>>
  <2> DEFINE h == starts[w].helper
  <2>1. /\ h \in Helpers /\ helper[h].m_handler # 0
        /\ Reports(h, "completed")
        /\ outcomes' = outcomes \/ helper[h].m_bootstrapMethod = "UnknownMethod"
        /\ Asked' \subseteq Asked \cup {helper[h].m_handler}
    BY <1>0, <1>4, ConnectedChangedReports
  <2> HIDE DEF h
  <2>2. /\ helper[h].m_handler = inUse[h] /\ inUse[h] # 0
        /\ starts[inUse[h]].helper = h /\ starts[inUse[h]].method = helper[h].m_bootstrapMethod
    BY <1>0, <2>1 DEF TypeInv, HandlersInUse, OutcomeInv, Owned
  <2>3. \A v \in 1..Len(starts) : starts[v].method = "Get" /\ Completed(v)' => Completed(v)
    <3> SUFFICES ASSUME NEW v \in 1..Len(starts), starts[v].method = "Get", Completed(v)',
                        ~Completed(v)
                 PROVE  FALSE
      OBVIOUS
    <3>1. "completed" \in Outcomes
      BY DEF Outcomes
    <3>2. v = inUse[h]
      BY <1>0, <2>1, <3>1, ReportCompletes
    <3>3. outcomes' # outcomes
      BY DEF Completed
    <3> QED
      BY <2>1, <2>2, <3>2, <3>3
  <2> QED
    BY <1>1, <1>2, <2>1, <2>2, <2>3, QuietKeepsData
<1> QED
  BY <1>3, <1>4

\* Reading a frame keeps the data invariant: an answer to a clean start is its own.
LEMMA DispatchKeepsData ==
  ASSUME HelperInv, dispatchMessage
  PROVE  DataInv' /\ DataOfUsers
<1> DEFINE message == Head(down)
<1>0. TypeInv /\ OutcomeInv
  BY DEF HelperInv
<1>1. /\ down # <<>> /\ down' = Tail(down) /\ UNCHANGED <<starts, inUse, up>>
      /\ bootstrapAnswered(message) \/ publishReceived(message)
  BY DEF dispatchMessage
<1>2. /\ message \in Messages /\ 1 \in 1..Len(down) /\ message = down[1]
      /\ \A i \in 1..Len(down') : \E j \in 1..Len(down) : down'[i] = down[j]
      /\ Answered' \subseteq Answered /\ Asked' = Asked
  BY <1>0, <1>1, TakeEffect DEF Asked
<1> HIDE DEF message
<1>3. AnswersOwn' /\ NoneOverlaps'
  BY <1>1, <1>2 DEF HelperInv, DataInv, AnswersOwn, NoneOverlaps
<1>4. /\ shown \in [Starts -> Data \cup {NoData}] /\ Len(starts) \in Nat
      /\ \A s \in 1..Len(starts) : s \in Starts
      /\ \A h \in Helpers : helper[h].m_handler = inUse[h]
      /\ \A h \in Helpers : inUse[h] # 0 => inUse[h] \in 1..Len(starts)
  BY <1>0, LenProperties, HelperAssumption DEF TypeInv, TypeOK, Starts, HandlersInUse
<1>5. CASE publishReceived(message)
  <2> DEFINE reached(s) == \E h \in Helpers : helper[h].m_handler = s /\ Listens(h, message.data.topic)
  <2>1. /\ message.data \in Data /\ UNCHANGED outcomes
        /\ \A s \in Starts : shown'[s] = IF reached(s) THEN message.data ELSE shown[s]
    BY <1>2, <1>5, MessagesTyped DEF publishReceived
  <2>2. ASSUME NEW s \in Starts, reached(s)
        PROVE  s \in 1..Len(starts) /\ IsInUse(s) /\ starts[s].topic = message.data.topic
    <3>1. PICK h \in Helpers : helper[h].m_handler = s /\ Listens(h, message.data.topic)
      BY <2>2
    <3>2. s = inUse[h] /\ inUse[h] # 0
      BY <1>4, <3>1 DEF Listens
    <3> QED
      BY <1>0, <1>4, <3>1, <3>2 DEF OutcomeInv, Owned, IsInUse, Listens
  <2> HIDE DEF reached
  <2>3. message.data # NoData
    BY <2>1, DataIsSome
  <2>4. DataOfUsers
    BY <1>4, <2>1, <2>2 DEF DataOfUsers
  <2>5. Unshown'
    BY <1>1, <1>4, <2>1, <2>2 DEF HelperInv, DataInv, Unshown
  <2>6. OwnTopicOnly'
    BY <1>1, <1>4, <2>1, <2>2 DEF HelperInv, DataInv, OwnTopicOnly
  <2>7. CompletedHasData'
    BY <1>1, <1>4, <2>1, <2>3 DEF HelperInv, DataInv, CompletedHasData, Completed
  <2> QED
    BY <1>3, <2>4, <2>5, <2>6, <2>7 DEF DataInv
<1>6. CASE bootstrapAnswered(message)
  <2> DEFINE h == starts[message.by].helper
             s == inUse[h]
  <2>1. /\ message.kind # "publish" /\ h \in Helpers
        /\ message.by \in Answered
    BY <1>0, <1>2, <1>6, AnswerIsOfAStart DEF bootstrapAnswered
  <2>2. \/ /\ message.kind = "data" /\ Completes(h, helper[h])
           /\ shown' = Given(helper[h].m_handler, message.data)
        \/ UNCHANGED <<helper, watchers, outcomes, shown>>
    BY <1>0, <1>2, <1>6, <2>1, AnsweredEffect
  <2>3. message.kind = "data" =>
          message.data \in Data /\ message.data.topic = starts[message.by].topic
    BY <1>2 DEF HelperInv, DataInv, AnswersOwn
  <2>4. s # 0 /\ starts[s].clean => message.by = s
    BY <2>1 DEF HelperInv, DataInv, NoneOverlaps
  <2>5. s # 0 => s \in 1..Len(starts) /\ s \in Starts /\ starts[s].helper = h
    BY <1>0, <1>4, <2>1 DEF OutcomeInv, Owned
  <2> HIDE DEF h
  <2>6. CASE UNCHANGED <<helper, watchers, outcomes, shown>>
    <3>1. \A v \in 1..Len(starts) : Completed(v)' => Completed(v)
      BY <2>6 DEF Completed
    <3> QED
      BY <1>1, <1>2, <1>3, <2>6, <3>1, QuietKeepsData
  <2>7. CASE /\ message.kind = "data" /\ Completes(h, helper[h])
             /\ shown' = Given(helper[h].m_handler, message.data)
    <3>1. /\ message.data # NoData
          /\ \A v \in Starts :
               shown'[v] = IF s # 0 /\ v = s THEN message.data ELSE shown[v]
      BY <1>4, <2>1, <2>3, <2>5, <2>7, DataIsSome DEF Given
    <3>2. \A v \in 1..Len(starts) : Completed(v)' => Completed(v) \/ (s # 0 /\ v = s)
      <4>1. Reports(h, "completed") /\ "completed" \in Outcomes
        BY <1>0, <2>1, <2>7, AnswerReports DEF Outcomes
      <4> QED
        BY <1>0, <1>4, <2>1, <4>1, ReportCompletes
    <3>3. DataOfUsers
      BY <1>4, <2>5, <3>1 DEF DataOfUsers, IsInUse
    <3>4. Unshown'
      BY <1>1, <1>4, <2>5, <3>1 DEF HelperInv, DataInv, Unshown
    <3>5. OwnTopicOnly'
      BY <1>1, <1>4, <2>3, <2>4, <2>7, <3>1 DEF HelperInv, DataInv, OwnTopicOnly
    <3>6. CompletedHasData'
      BY <1>1, <1>4, <3>1, <3>2 DEF HelperInv, DataInv, CompletedHasData
    <3> QED
      BY <1>3, <3>3, <3>4, <3>5, <3>6 DEF DataInv
  <2> QED
    BY <2>2, <2>6, <2>7
<1> QED
  BY <1>1, <1>5, <1>6

\* The steps of the client service and of the backend give nothing to a handler.
LEMMA ServiceKeepsData ==
  ASSUME HelperInv,
         \/ onConnected \/ resubscribeAll \/ onDisconnected \/ processRequest
         \/ (\E t \in Topics : publish(t)) \/ UNCHANGED helperVars
  PROVE  DataInv' /\ DataOfUsers
<1>0. TypeInv
  BY DEF HelperInv
<1>1. UNCHANGED <<starts, shown, inUse, outcomes>>
  BY DEF onConnected, resubscribeAll, onDisconnected, processRequest, publish, helperVars
<1>2. \A v \in 1..Len(starts) : Completed(v)' => Completed(v)
  BY <1>1 DEF Completed
<1>3. Asked' \cup Answered' \subseteq Asked \cup Answered /\ AnswersOwn'
  <2>1. CASE onConnected \/ resubscribeAll \/ UNCHANGED helperVars
    <3>1. down' = down /\ Asked' \subseteq Asked
      <4>1. CASE onConnected
        BY <4>1 DEF onConnected, Asked
      <4>2. CASE resubscribeAll
        BY <1>0, <4>2, ResubscribeTyped DEF resubscribeAll
      <4>3. CASE UNCHANGED helperVars
        BY <4>3 DEF helperVars, Asked
      <4> QED
        BY <2>1, <4>1, <4>2, <4>3
    <3>2. Answered' = Answered
      BY <3>1 DEF Answered
    <3> QED
      BY <1>1, <3>1, <3>2 DEF HelperInv, DataInv, AnswersOwn
  <2>2. CASE onDisconnected
    <3>1. down' = <<>> /\ Asked' = {} /\ Answered' = {}
      BY <1>0, <2>2, DisconnectedTyped DEF onDisconnected
    <3>2. AnswersOwn'
      BY <3>1 DEF AnswersOwn
    <3> QED
      BY <3>1, <3>2
  <2>3. CASE processRequest
    <3>1. /\ Asked' \subseteq Asked /\ Answered' \subseteq Answered \cup Asked
          /\ \A i \in 1..Len(down') :
               \/ i \in 1..Len(down) /\ down'[i] = down[i]
               \/ down'[i].kind = "data" =>
                    down'[i].data \in Data /\ down'[i].data.topic = starts[down'[i].by].topic
      BY <1>0, <2>3, ProcessEffect
    <3>2. AnswersOwn'
      BY <1>1, <3>1 DEF HelperInv, DataInv, AnswersOwn
    <3> QED
      BY <3>1, <3>2
  <2>4. ASSUME NEW t \in Topics, publish(t)
        PROVE  Asked' \cup Answered' \subseteq Asked \cup Answered /\ AnswersOwn'
    <3>1. /\ Answered' \subseteq Answered
          /\ \A i \in 1..Len(down') :
               (i \in 1..Len(down) /\ down'[i] = down[i]) \/ down'[i].kind = "publish"
      BY <1>0, <2>4, PublishEffect
    <3>2. Asked' = Asked
      BY <2>4 DEF publish, Asked
    <3>3. AnswersOwn'
      BY <1>1, <3>1 DEF HelperInv, DataInv, AnswersOwn
    <3> QED
      BY <3>1, <3>2, <3>3
  <2> QED
    BY <2>1, <2>2, <2>3, <2>4
<1> QED
  BY <1>1, <1>2, <1>3, QuietKeepsData

\* Every step keeps the data invariant, and shows nothing to handlers not in use.
LEMMA NextKeepsData == HelperInv /\ [Next]_helperVars => DataInv' /\ DataOfUsers
<1> SUFFICES ASSUME HelperInv, [Next]_helperVars PROVE DataInv' /\ DataOfUsers
  OBVIOUS
<1>1. ASSUME NEW use \in Uses, start(use[1], use[2], use[3]) PROVE DataInv' /\ DataOfUsers
  <2>1. use[1] \in Helpers /\ use[2] \in Topics /\ use[3] \in BootstrapMethods
    BY HelperAssumption DEF BootstrapMethods
  <2> QED
    BY <1>1, <2>1, StartKeepsData
<1>2. ASSUME NEW h \in Helpers, stop(h) \/ timeout(h) PROVE DataInv' /\ DataOfUsers
  BY <1>2, StopKeepsData, TimeoutKeepsData
<1>3. ASSUME NEW w \in Starts, connectedChanged(w) PROVE DataInv' /\ DataOfUsers
  BY <1>3, ConnectedChangedKeepsData
<1>4. CASE dispatchMessage
  BY <1>4, DispatchKeepsData
<1> QED
  BY <1>1, <1>2, <1>3, <1>4, ServiceKeepsData DEF Next, LoopStep

\* HelperInv is inductive.
LEMMA NextKeepsHelper ==
  HelperInv /\ [Next]_helperVars => HelperInv' /\ OutcomesOfUsers /\ DataOfUsers
BY NextTyped, NextKeepsOutcomes, NextKeepsData DEF HelperInv

\* HelperInv holds of every behaviour.
LEMMA HelperInvHolds == Spec => []HelperInv
<1>1. Init => DataInv
  <2> SUFFICES ASSUME Init PROVE DataInv
    OBVIOUS
  <2>1. \A h \in Helpers : inUse[h] = 0
    BY DEF Init
  <2>2. starts = <<>> /\ down = <<>> /\ \A s \in Starts : shown[s] = NoData
    BY DEF Init
  <2> QED
    BY <2>1, <2>2 DEF DataInv, NoneOverlaps, AnswersOwn, Unshown, OwnTopicOnly, CompletedHasData
<1>2. Spec => [](TypeInv /\ OutcomeInv)
  BY OutcomeInvHolds
<1>3. TypeInv /\ OutcomeInv /\ DataInv <=> HelperInv
  BY DEF HelperInv
<1> QED
  BY <1>1, <1>2, <1>3, NextKeepsHelper, PTL DEF Spec

\* A helper that was stopped, or started again, gives nothing more to the handler it
\* had and signals nothing for that start.
THEOREM OnlyUsersAreServedHolds == Spec => OnlyUsersAreServed
<1>1. HelperInv /\ [Next]_helperVars =>
        [\A s \in 1..Len(starts) : ~IsInUse(s) =>
           shown'[s] = shown[s] /\ outcomes'[s] = outcomes[s]]_helperVars
  BY NextKeepsHelper DEF OutcomesOfUsers, DataOfUsers
<1> QED
  BY <1>1, HelperInvHolds, PTL DEF Spec, OnlyUsersAreServed

\* A handler is given data of its own topic only, if no earlier bootstrap of its
\* helper was waiting when it was handed over.
THEOREM OwnTopicOnlyHolds == Spec => []OwnTopicOnly
  BY HelperInvHolds, PTL DEF HelperInv, DataInv

\* A startup with a bootstrap that reports completion has given its handler data.
THEOREM CompletedHasDataHolds == Spec => []CompletedHasData
  BY HelperInvHolds, PTL DEF HelperInv, DataInv

=============================================================================
