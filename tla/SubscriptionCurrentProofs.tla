-------------------- MODULE SubscriptionCurrentProofs --------------------
(***************************************************************************)
(* The theorem that handlers see the current data (UpToDate), for every    *)
(* value of the constants of SubscriptionHelper.                           *)
(*                                                                         *)
(* A start that was made on the connection that is up has sent a           *)
(* subscribe, and its bootstrap after it (Ahead): by the time the server   *)
(* answers the bootstrap it serves the topic, and from then on the last    *)
(* frame for the start, or what it was shown if there is none, holds the   *)
(* current data (CaughtUp).                                                *)
(***************************************************************************)
EXTENDS SubscriptionHelperProofs

Subscribes(request, t) == request.kind = "subscribe" /\ t \in request.topics
Unsubscribes(request, t) == request.kind = "unsubscribe" /\ t \in request.topics

\* The server, which serves the given topics, will serve t when it comes to frame i.
Covered(frames, topics, t, i) ==
  /\ t \in topics \/ \E k \in 1..Len(frames) : k < i /\ Subscribes(frames[k], t)
  /\ \A j \in 1..Len(frames) : Unsubscribes(frames[j], t) =>
       \E k \in 1..Len(frames) : j < k /\ k < i /\ Subscribes(frames[k], t)

\* More frames, none of which unsubscribes from t.
LEMMA CoveredAppend ==
  ASSUME NEW frames \in Seq(Requests), NEW new \in Seq(Requests), NEW topics, NEW t,
         \A k \in 1..Len(new) : ~Unsubscribes(new[k], t),
         NEW i \in Nat, Covered(frames, topics, t, i), NEW n \in Nat, i <= n
  PROVE  Covered(frames \o new, topics, t, n)
<1> DEFINE both == frames \o new
<1>1. /\ Len(frames) \in Nat /\ Len(new) \in Nat
      /\ Len(both) = Len(frames) + Len(new)
      /\ \A k \in 1..(Len(frames) + Len(new)) :
           both[k] = IF k <= Len(frames) THEN frames[k] ELSE new[k - Len(frames)]
  BY ConcatProperties, LenProperties
<1> HIDE DEF both
<1>2. \A k \in 1..Len(frames) : k \in 1..Len(both) /\ both[k] = frames[k]
  BY <1>1
<1>3. ASSUME NEW j \in 1..Len(both), Unsubscribes(both[j], t)
      PROVE  j \in 1..Len(frames) /\ Unsubscribes(frames[j], t)
  <2>1. CASE j <= Len(frames)
    BY <1>1, <1>3, <2>1
  <2>2. CASE j > Len(frames)
    <3>1. j - Len(frames) \in 1..Len(new) /\ both[j] = new[j - Len(frames)]
      BY <1>1, <2>2
    <3> QED
      BY <1>3, <3>1
  <2> QED
    BY <1>1, <2>1, <2>2
<1>4. \A k \in 1..Len(frames) : k < i => k < n
  BY <1>1
<1>5. t \in topics \/ \E k \in 1..Len(both) : k < n /\ Subscribes(both[k], t)
  BY <1>2, <1>4 DEF Covered
<1>6. \A j \in 1..Len(both) : Unsubscribes(both[j], t) =>
        \E k \in 1..Len(both) : j < k /\ k < n /\ Subscribes(both[k], t)
  BY <1>2, <1>3, <1>4 DEF Covered
<1> QED
  BY <1>5, <1>6 DEF Covered, both

\* The server comes to the first frame.
LEMMA CoveredTail ==
  ASSUME NEW frames \in Seq(Requests), frames # <<>>, NEW topics, NEW after, NEW t,
         NEW i \in Nat, i > 1, Covered(frames, topics, t, i),
         Subscribes(frames[1], t) => t \in after,
         t \in topics => t \in after \/ Unsubscribes(frames[1], t)
  PROVE  Covered(Tail(frames), after, t, i - 1)
<1> DEFINE rest == Tail(frames)
<1>1. /\ Len(frames) \in Nat /\ Len(frames) > 0
      /\ Len(rest) = Len(frames) - 1
      /\ \A k \in 1..(Len(frames) - 1) : rest[k] = frames[k + 1]
  BY HeadTailProperties, EmptySeq, LenProperties
<1> HIDE DEF rest
<1>2. \A k \in 1..Len(frames) : k = 1 \/ (k - 1 \in 1..Len(rest) /\ rest[k - 1] = frames[k])
  BY <1>1
<1>3. \A j \in 1..Len(rest) : j + 1 \in 1..Len(frames) /\ rest[j] = frames[j + 1]
  BY <1>1
<1>4. ASSUME NEW k \in 1..Len(frames), k # 1, k < i, Subscribes(frames[k], t)
      PROVE  k - 1 \in 1..Len(rest) /\ k - 1 < i - 1 /\ Subscribes(rest[k - 1], t)
  BY <1>1, <1>2, <1>4
<1>5. t \in after \/ \E k \in 1..Len(rest) : k < i - 1 /\ Subscribes(rest[k], t)
  <2>1. CASE Unsubscribes(frames[1], t)
    <3>1. 1 \in 1..Len(frames)
      BY <1>1
    <3>2. PICK k \in 1..Len(frames) : 1 < k /\ k < i /\ Subscribes(frames[k], t)
      BY <2>1, <3>1 DEF Covered
    <3> QED
      BY <1>4, <3>2
  <2>2. CASE ~Unsubscribes(frames[1], t) /\ t \notin after
    <3>1. PICK k \in 1..Len(frames) : k < i /\ Subscribes(frames[k], t)
      BY <2>2 DEF Covered
    <3> QED
      BY <1>4, <2>2, <3>1
  <2> QED
    BY <2>1, <2>2
<1>6. ASSUME NEW j \in 1..Len(rest), Unsubscribes(rest[j], t)
      PROVE  \E k \in 1..Len(rest) : j < k /\ k < i - 1 /\ Subscribes(rest[k], t)
  <2>1. PICK k \in 1..Len(frames) : j + 1 < k /\ k < i /\ Subscribes(frames[k], t)
    BY <1>3, <1>6 DEF Covered
  <2>2. k # 1 /\ j < k - 1
    BY <1>1, <2>1
  <2> QED
    BY <1>4, <2>1, <2>2
<1> QED
  BY <1>5, <1>6 DEF Covered, rest

\* When the server has come to the frame, it serves t, and nothing under way ends that.
LEMMA CoveredFirst ==
  ASSUME NEW frames \in Seq(Requests), NEW topics, NEW t, Covered(frames, topics, t, 1)
  PROVE  t \in topics /\ \A j \in 1..Len(frames) : ~Unsubscribes(frames[j], t)
<1>1. \A k \in 1..Len(frames) : ~(k < 1)
  BY LenProperties
<1> QED
  BY <1>1 DEF Covered

\* A start made on the connection that is up, and in use as the only one of its topic.
Active(s) ==
  /\ IsInUse(s) /\ starts[s].clean /\ starts[s].method = "Get"
  /\ m_connected /\ starts[s].since = conn
  /\ OnlyUser(starts[s].helper, starts[s].topic)

\* Its subscribe is ahead of its bootstrap.
Ahead(s) ==
  /\ Covered(up, served, starts[s].topic, Len(up) + 1)
  /\ \A i \in 1..Len(up) :
       up[i].kind = "get" /\ up[i].by = s => Covered(up, served, starts[s].topic, i)

\* Its bootstrap was answered with data, which is on its way or was shown.
Told(s) == Completed(s) \/ \E i \in 1..Len(down) : down[i].kind = "data" /\ down[i].by = s

\* Frames whose data will be shown to it.
IsFor(message, s) ==
  \/ message.kind = "publish" /\ message.data.topic = starts[s].topic
  \/ message.kind = "data" /\ message.by = s

LastFor(s, i) == IsFor(down[i], s) /\ \A j \in 1..Len(down) : IsFor(down[j], s) => j <= i

CaughtUp(s) ==
  /\ \A i \in 1..Len(down) : LastFor(s, i) => down[i].data = Current(starts[s].topic)
  /\ (\A i \in 1..Len(down) : ~IsFor(down[i], s)) => HasCurrentData(s)

Follows(s) ==
  /\ starts[s].topic \in served
  /\ \A j \in 1..Len(up) : ~Unsubscribes(up[j], starts[s].topic)
  /\ CaughtUp(s)

\* No start was made on a connection to come.
ConnectionsCounted ==
  /\ m_connected => conn > 0
  /\ \A s \in 1..Len(starts) : starts[s].since <= conn

FollowInv == \A s \in 1..Len(starts) : Active(s) => Ahead(s) /\ (Told(s) => Follows(s))

CurrentInv == HelperInv /\ ConnectionsCounted /\ FollowInv

----------------------------------------------------------------------------
(* What keeps a start active, ahead and caught up.                          *)

\* A step that makes no start active, but for one it makes.
LEMMA ActiveKept ==
  ASSUME NEW s \in 1..Len(starts), Len(starts) \in Nat, Len(starts') \in Nat,
         Len(starts) <= Len(starts'), \A w \in 1..Len(starts) : starts'[w] = starts[w],
         conn' = conn, m_connected' => m_connected, IsInUse(s)' => IsInUse(s), Active(s)'
  PROVE  Active(s)
<1>1. OnlyUser(starts[s].helper, starts[s].topic)
  BY DEF Active, OnlyUser
<1> QED
  BY <1>1 DEF Active

\* The start that an active one is.
LEMMA ActiveTyped ==
  ASSUME TypeInv, NEW s \in 1..Len(starts)
  PROVE  /\ Len(starts) \in Nat /\ s \in Starts /\ s # 0
         /\ starts[s] \in StartCalls /\ starts[s].helper \in Helpers /\ starts[s].topic \in Topics
         /\ up \in Seq(Requests) /\ Len(up) \in Nat /\ down \in Seq(Messages) /\ Len(down) \in Nat
<1>1. /\ starts \in Seq(StartCalls) /\ Len(starts) <= MaxStarts
      /\ up \in Seq(Requests) /\ down \in Seq(Messages)
  BY DEF TypeInv, TypeOK
<1>2. /\ Len(starts) \in Nat /\ Len(up) \in Nat /\ Len(down) \in Nat
      /\ starts[s] \in StartCalls
  BY <1>1, ElementOfSeq, LenProperties
<1>3. s \in Starts /\ s # 0
  BY <1>1, <1>2, HelperAssumption DEF Starts
<1> QED
  BY <1>1, <1>2, <1>3 DEF StartCalls

\* Frames sent after the others keep a start ahead, and caught up, if they leave
\* its topic alone.
LEMMA SendingKeepsFollowing ==
  ASSUME TypeInv, NEW s \in 1..Len(starts), starts'[s] = starts[s],
         UNCHANGED <<served, down, shown, version>>,
         NEW new \in Seq(Requests), up' = up \o new,
         \A k \in 1..Len(new) : ~Unsubscribes(new[k], starts[s].topic),
         Completed(s)' => Completed(s), Ahead(s), Told(s) => Follows(s)
  PROVE  Ahead(s)' /\ (Told(s)' => Follows(s)')
<1> DEFINE t == starts[s].topic
<1>1. /\ up \in Seq(Requests) /\ Len(up) \in Nat /\ Len(new) \in Nat
      /\ Len(up') = Len(up) + Len(new)
      /\ \A i \in 1..(Len(up) + Len(new)) :
           up'[i] = IF i <= Len(up) THEN up[i] ELSE new[i - Len(up)]
  BY ActiveTyped, ConcatProperties, LenProperties
<1>2. ASSUME NEW i \in Nat, Covered(up, served, t, i), NEW n \in Nat, i <= n
      PROVE  Covered(up', served, t, n)
  BY <1>1, <1>2, CoveredAppend
<1>3. Covered(up, served, t, Len(up) + 1)
  BY DEF Ahead
<1>4. Ahead(s)'
  <2>1. Covered(up', served, t, Len(up') + 1)
    BY <1>1, <1>2, <1>3
  <2>2. ASSUME NEW i \in 1..Len(up'), up'[i].kind = "get", up'[i].by = s
        PROVE  Covered(up', served, t, i)
    <3>1. CASE i <= Len(up)
      <4>1. i \in 1..Len(up) /\ up'[i] = up[i]
        BY <1>1, <3>1
      <4> QED
        BY <1>1, <1>2, <2>2, <4>1 DEF Ahead
    <3>2. CASE i > Len(up)
      BY <1>1, <1>2, <1>3, <3>2
    <3> QED
      BY <1>1, <3>1, <3>2
  <2> QED
    BY <2>1, <2>2 DEF Ahead
<1>5. ASSUME Told(s)' PROVE Follows(s)'
  <2>1. Told(s)
    BY <1>5 DEF Told
  <2>2. CaughtUp(s)'
    BY <2>1 DEF Follows, CaughtUp, LastFor, IsFor, HasCurrentData, Current
  <2>3. ASSUME NEW j \in 1..Len(up') PROVE ~Unsubscribes(up'[j], t)
    <3>1. CASE j <= Len(up)
      BY <1>1, <2>1, <3>1 DEF Follows
    <3>2. CASE j > Len(up)
      <4>1. j - Len(up) \in 1..Len(new) /\ up'[j] = new[j - Len(up)]
        BY <1>1, <3>2
      <4> QED
        BY <4>1
    <3> QED
      BY <1>1, <3>1, <3>2
  <2>4. t \in served
    BY <2>1 DEF Follows
  <2> QED
    BY <2>2, <2>3, <2>4 DEF Follows
<1> QED
  BY <1>4, <1>5

\* A step that sends nothing.
LEMMA SilentKeepsFollowing ==
  ASSUME TypeInv, NEW s \in 1..Len(starts), starts'[s] = starts[s],
         UNCHANGED <<served, down, shown, version, up>>,
         Completed(s)' => Completed(s), Ahead(s), Told(s) => Follows(s)
  PROVE  Ahead(s)' /\ (Told(s)' => Follows(s)')
<1> DEFINE none == <<>>
<1>1. none \in Seq(Requests) /\ \A k \in 1..Len(none) : ~Unsubscribes(none[k], starts[s].topic)
  OBVIOUS
<1>2. up' = up \o none
  BY ActiveTyped
<1> HIDE DEF none
<1> QED
  BY <1>1, <1>2, SendingKeepsFollowing

----------------------------------------------------------------------------
(* start(), stop() and the timer.                                           *)

\* The start that is made subscribes before it bootstraps, and was told nothing.
LEMMA NewStartFollows ==
  ASSUME HelperInv, NEW h \in Helpers, NEW t \in Topics, NEW method \in BootstrapMethods,
         start(h, t, method), NEW s, s = Len(starts) + 1, Active(s)'
  PROVE  Ahead(s)' /\ ~Told(s)'
<1> DEFINE subscribe == TopicRequest("subscribe", {t})
           get == [kind |-> "get", by |-> s]
<1>0. TypeInv /\ OutcomeInv
  BY DEF HelperInv
<1>1. /\ s \in Starts /\ Len(starts) \in Nat
      /\ starts' = Append(starts, Call(h, t, method)) /\ Len(starts') = s
      /\ \/ method = "UnknownMethod"
         \/ UNCHANGED outcomes
  BY <1>0, StartEffect
<1>2. starts'[s].topic = t /\ starts'[s].method = method
  <2>1. starts'[s] = Call(h, t, method)
    BY <1>0, <1>1, AppendProperties DEF TypeInv, TypeOK
  <2> QED
    BY <2>1 DEF Call
<1>3. method = "Get" /\ m_connected
  BY <1>2 DEF Active, start
<1>4. /\ up' = up \o (<<subscribe>> \o <<get>>)
      /\ UNCHANGED <<down, served, outcomes>>
  BY <1>1, <1>3 DEF start, performBootstrap, Send, InOrder, backendVars, Started
<1>5. /\ up \in Seq(Requests) /\ Len(up) \in Nat
      /\ Asked \subseteq 1..Len(starts) /\ Answered \subseteq 1..Len(starts)
  BY <1>0, LenProperties DEF TypeInv, TypeOK
<1>6. /\ subscribe \in Requests /\ get \in Requests
      /\ Subscribes(subscribe, t) /\ ~Unsubscribes(subscribe, t) /\ ~Unsubscribes(get, t)
      /\ subscribe.kind # "get"
  <2>1. subscribe \in Requests /\ get \in Requests
    BY <1>1, RequestsTyped
  <2> QED
    BY <2>1 DEF Subscribes, Unsubscribes, TopicRequest
<1> HIDE DEF subscribe, get
<1>7. /\ Len(up') = Len(up) + 2
      /\ up'[Len(up) + 1] = subscribe /\ up'[Len(up) + 2] = get
      /\ \A k \in 1..Len(up) : up'[k] = up[k]
  BY <1>4, <1>5, <1>6
<1>8. ASSUME NEW i \in Nat, i > Len(up) + 1
      PROVE  Covered(up', served', t, i)
  <2>1. Len(up) + 1 \in 1..Len(up') /\ Subscribes(up'[Len(up) + 1], t)
    BY <1>5, <1>6, <1>7
  <2>2. ASSUME NEW j \in 1..Len(up'), Unsubscribes(up'[j], t)
        PROVE  j < Len(up) + 1
    BY <1>5, <1>6, <1>7, <2>2
  <2> QED
    BY <1>5, <1>8, <2>1, <2>2 DEF Covered
<1>9. ASSUME NEW i \in 1..Len(up'), up'[i].kind = "get", up'[i].by = s
      PROVE  i > Len(up) + 1
  <2> SUFFICES ASSUME i <= Len(up) + 1 PROVE FALSE
    BY <1>5, <1>7
  <2>1. i # Len(up) + 1
    BY <1>6, <1>7, <1>9
  <2>2. i \in 1..Len(up) /\ up[i].kind = "get" /\ up[i].by = s
    BY <1>5, <1>7, <1>9, <2>1
  <2>3. s \in Asked
    BY <2>2 DEF Asked
  <2> QED
    BY <1>1, <1>5, <2>3
<1>10. Ahead(s)'
  <2>1. Covered(up', served', t, Len(up') + 1)
    BY <1>5, <1>7, <1>8
  <2>2. \A i \in 1..Len(up') : up'[i].kind = "get" /\ up'[i].by = s => Covered(up', served', t, i)
    BY <1>5, <1>7, <1>8, <1>9
  <2> QED
    BY <1>2, <2>1, <2>2 DEF Ahead
<1>11. ~Completed(s)'
  <2>1. outcomes'[s] = <<>>
    BY <1>0, <1>1, <1>4 DEF OutcomeInv, Unreported
  <2> QED
    BY <2>1 DEF Completed
<1>12. ~\E i \in 1..Len(down') : down'[i].kind = "data" /\ down'[i].by = s
  <2> SUFFICES ASSUME NEW i \in 1..Len(down), down[i].kind = "data", down[i].by = s PROVE FALSE
    BY <1>4
  <2>1. s \in Answered
    BY DEF Answered
  <2> QED
    BY <1>1, <1>5, <2>1
<1> QED
  BY <1>10, <1>11, <1>12 DEF Told

\* start() keeps the others ahead and caught up.
LEMMA StartKeepsFollowing ==
  ASSUME HelperInv, FollowInv, NEW h \in Helpers, NEW t \in Topics,
         NEW method \in BootstrapMethods, start(h, t, method)
  PROVE  FollowInv'
<1> SUFFICES ASSUME NEW w \in 1..Len(starts'), Active(w)'
             PROVE  Ahead(w)' /\ (Told(w)' => Follows(w)')
  BY DEF FollowInv
<1> DEFINE s == Len(starts) + 1
           subscribe == TopicRequest("subscribe", {t})
           get == [kind |-> "get", by |-> s]
<1>0. TypeInv /\ OutcomeInv
  BY DEF HelperInv
<1>1. /\ s \in Starts /\ Len(starts) \in Nat
      /\ starts' = Append(starts, Call(h, t, method)) /\ Len(starts') = s
      /\ \/ outcomes' = [outcomes EXCEPT ![s] = Append(@, "completed")]
         \/ UNCHANGED outcomes
  BY <1>0, StartEffect
<1>2. CASE w = s
  BY <1>2, NewStartFollows
<1>3. CASE w # s
  <2>1. w \in 1..Len(starts) /\ w \in Starts
    BY <1>0, <1>1, <1>3, HelperAssumption DEF Starts
  <2>2. /\ \A v \in 1..Len(starts) : starts'[v] = starts[v]
        /\ inUse' = [inUse EXCEPT ![h] = s] /\ inUse \in [Helpers -> 0..Len(starts)]
        /\ UNCHANGED <<m_connected, conn, down, served, version, shown>>
        /\ starts[w].helper \in Helpers
        /\ outcomes \in [Starts -> Seq({"completed", "timedOut"})]
    <3>1. \A v \in 1..Len(starts) : starts'[v] = starts[v]
      BY <1>0, <1>1, AppendProperties DEF TypeInv, TypeOK
    <3> QED
      BY <1>0, <2>1, <3>1, ActiveTyped DEF start, TypeInv, TypeOK, backendVars
  <2>3. Active(w) /\ m_connected
    <3>1. IsInUse(w)' => IsInUse(w)
      BY <1>3, <2>1, <2>2 DEF IsInUse
    <3>2. Active(w)
      BY <1>1, <2>1, <2>2, <3>1, ActiveKept
    <3> QED
      BY <3>2 DEF Active
  <2>4. outcomes'[w] = outcomes[w]
    BY <1>1, <1>3, <2>1, <2>2
  <2>5. Completed(w)' => Completed(w)
    BY <2>4 DEF Completed
  <2>6. up' = up \o <<subscribe>> \/ up' = up \o (<<subscribe>> \o <<get>>)
    BY <2>3 DEF start, performBootstrap, completeStartup, Send, InOrder
  <2>7. /\ subscribe \in Requests /\ get \in Requests
        /\ subscribe.kind = "subscribe" /\ get.kind = "get"
    BY <1>1, RequestsTyped DEF TopicRequest
  <2> HIDE DEF subscribe, get
  <2>8. PICK new \in {<<subscribe>>, <<subscribe>> \o <<get>>} : up' = up \o new
    BY <2>6
  <2>9. /\ new \in Seq(Requests)
        /\ \A k \in 1..Len(new) : new[k] \in {subscribe, get}
    <3>1. CASE new = <<subscribe>>
      BY <2>7, <3>1
    <3>2. CASE new = <<subscribe>> \o <<get>>
      BY <2>7, <3>2
    <3> QED
      BY <3>1, <3>2
  <2>10. \A k \in 1..Len(new) : ~Unsubscribes(new[k], starts[w].topic)
    BY <2>7, <2>9 DEF Unsubscribes
  <2>11. Ahead(w) /\ (Told(w) => Follows(w))
    BY <2>1, <2>3 DEF FollowInv
  <2> QED
    BY <1>0, <2>1, <2>2, <2>5, <2>8, <2>9, <2>10, <2>11, SendingKeepsFollowing
<1> QED
  BY <1>2, <1>3

\* stop() unsubscribes from the topic of its helper only, which no active start of
\* another helper has.
LEMMA StopKeepsFollowing ==
  ASSUME HelperInv, FollowInv, NEW h \in Helpers, stop(h)
  PROVE  FollowInv'
<1>0. TypeInv /\ OutcomeInv /\ Len(starts) \in Nat
  BY LenProperties DEF HelperInv, TypeInv, TypeOK
<1>1. /\ UNCHANGED <<starts, m_connected, conn, down, served, version, shown, outcomes>>
      /\ inUse' = [inUse EXCEPT ![h] = 0] /\ inUse \in [Helpers -> 0..Len(starts)]
  BY <1>0 DEF stop, TypeInv, TypeOK, backendVars
<1> SUFFICES ASSUME NEW s \in 1..Len(starts), Active(s)'
             PROVE  Ahead(s)' /\ (Told(s)' => Follows(s)')
  BY <1>1 DEF FollowInv
<1>2. s # 0 /\ starts[s].helper \in Helpers /\ starts[s].topic \in Topics
  BY <1>0, ActiveTyped
<1>3. IsInUse(s) /\ starts[s].helper # h
  BY <1>1, <1>2 DEF Active, IsInUse
<1>4. Active(s)
  BY <1>0, <1>1, <1>3, ActiveKept
<1> DEFINE topics == {helper[h].m_topic} \cap Topics
           request == TopicRequest("unsubscribe", topics)
           new == IF topics = {} THEN <<>> ELSE <<request>>
<1>5. up' = up \o new
  BY <1>4 DEF stop, Send, Active
<1>6. helper[h].m_topic # starts[s].topic
  <2> SUFFICES ASSUME helper[h].m_topic = starts[s].topic PROVE FALSE
    OBVIOUS
  <2>1. helper[h].m_handler # 0
    BY <1>0, <1>2, HelperAssumption DEF TypeInv, TypeOK
  <2>2. inUse[h] \in 1..Len(starts) /\ starts[inUse[h]].helper = h
        /\ starts[inUse[h]].topic = starts[s].topic
    BY <1>0, <2>1, InUseIsAStart DEF OutcomeInv, Owned
  <2> QED
    BY <1>3, <1>4, <2>2 DEF Active, OnlyUser
<1>7. request \in Requests /\ ~Unsubscribes(request, starts[s].topic)
  <2>1. request \in Requests
    BY RequestsTyped
  <2> QED
    BY <1>6, <2>1 DEF Unsubscribes, TopicRequest
<1> HIDE DEF request, topics
<1>8. new \in Seq(Requests) /\ \A k \in 1..Len(new) : ~Unsubscribes(new[k], starts[s].topic)
  BY <1>7
<1>9. Completed(s)' => Completed(s)
  BY <1>1 DEF Completed
<1>10. Ahead(s) /\ (Told(s) => Follows(s))
  BY <1>4 DEF FollowInv
<1> HIDE DEF new
<1> QED
  BY <1>0, <1>1, <1>5, <1>8, <1>9, <1>10, SendingKeepsFollowing

\* The timer completes nothing.
LEMMA TimeoutKeepsFollowing ==
  ASSUME HelperInv, FollowInv, NEW h \in Helpers, timeout(h)
  PROVE  FollowInv'
<1>0. TypeInv /\ OutcomeInv /\ Len(starts) \in Nat
  BY LenProperties DEF HelperInv, TypeInv, TypeOK
<1>1. UNCHANGED <<starts, m_connected, conn, up, down, served, version, shown, inUse>>
  BY DEF timeout, backendVars, serviceVars
<1> SUFFICES ASSUME NEW s \in 1..Len(starts), Active(s)'
             PROVE  Ahead(s)' /\ (Told(s)' => Follows(s)')
  BY <1>1 DEF FollowInv
<1>2. Completed(s)' => Completed(s)
  <2>1. Reports(h, "timedOut") /\ "timedOut" \in Outcomes
    BY <1>0, TimeoutReports DEF Outcomes
  <2> QED
    BY <1>0, <2>1, ReportCompletes
<1>3. IsInUse(s)' => IsInUse(s)
  BY <1>1 DEF IsInUse
<1>4. Active(s)
  BY <1>0, <1>1, <1>3, ActiveKept
<1> QED
  BY <1>0, <1>1, <1>2, <1>4, SilentKeepsFollowing DEF FollowInv

----------------------------------------------------------------------------
(* The steps of the client service.                                         *)

\* A slot of connectedChanged sends a bootstrap, or completes a startup without one.
LEMMA ConnectedChangedKeepsFollowing ==
  ASSUME HelperInv, FollowInv, NEW w \in Starts, connectedChanged(w)
  PROVE  FollowInv'
<1>0. TypeInv /\ OutcomeInv /\ Len(starts) \in Nat
  BY LenProperties DEF HelperInv, TypeInv, TypeOK
<1>1. UNCHANGED <<starts, m_connected, conn, down, served, version, shown, inUse>>
  BY DEF connectedChanged, backendVars, serviceVars
<1> SUFFICES ASSUME NEW s \in 1..Len(starts), Active(s)'
             PROVE  Ahead(s)' /\ (Told(s)' => Follows(s)')
  BY <1>1 DEF FollowInv
<1>2. IsInUse(s)' => IsInUse(s)
  BY <1>1 DEF IsInUse
<1>3. Active(s) /\ m_connected
  <2>1. Active(s)
    BY <1>0, <1>1, <1>2, ActiveKept
  <2> QED
    BY <2>1 DEF Active
<1>4. Ahead(s) /\ (Told(s) => Follows(s))
  BY <1>3 DEF FollowInv
<1>5. CASE UNCHANGED <<helper, watchers, up, outcomes>>
  <2>1. Completed(s)' => Completed(s)
    BY <1>5 DEF Completed
  <2> QED
    BY <1>0, <1>1, <1>4, <1>5, <2>1, SilentKeepsFollowing
<1>6. CASE ~UNCHANGED <<helper, watchers, up, outcomes>>
  <2> DEFINE h == starts[w].helper
             get == [kind |-> "get", by |-> helper[h].m_handler]
             none == <<>>
  <2>1. /\ h \in Helpers /\ helper[h].m_handler # 0 /\ Reports(h, "completed")
        /\ outcomes' = outcomes \/ helper[h].m_bootstrapMethod = "UnknownMethod"
    BY <1>0, <1>6, ConnectedChangedReports
  <2>2. Completed(s)' => Completed(s)
    <3> SUFFICES ASSUME Completed(s)', ~Completed(s) PROVE FALSE
      OBVIOUS
    <3>1. "completed" \in Outcomes
      BY DEF Outcomes
    <3>2. s = inUse[h] /\ inUse[h] # 0
      BY <1>0, <2>1, <3>1, ReportCompletes, InUseIsAStart
    <3>3. helper[h].m_bootstrapMethod = "Get"
      BY <1>0, <1>3, <2>1, <3>2 DEF Active, OutcomeInv, Owned
    <3>4. outcomes' # outcomes
      BY DEF Completed
    <3> QED
      BY <2>1, <3>3, <3>4
  <2>3. get \in Requests /\ get.kind = "get"
    BY <1>0, <2>1, InUseIsAStart, RequestsTyped
  <2>4. up' = up \o none \/ up' = up \o (none \o <<get>>)
    BY <1>3, <1>6 DEF connectedChanged, performBootstrap, completeStartup, Send, InOrder
  <2> HIDE DEF get, h, none
  <2>5. PICK new \in {none, none \o <<get>>} : up' = up \o new
    BY <2>4
  <2>6. new \in Seq(Requests) /\ \A k \in 1..Len(new) : new[k] = get
    <3>1. CASE new = none
      BY <2>3, <3>1 DEF none
    <3>2. CASE new = none \o <<get>>
      BY <2>3, <3>2 DEF none
    <3> QED
      BY <3>1, <3>2
  <2>7. \A k \in 1..Len(new) : ~Unsubscribes(new[k], starts[s].topic)
    BY <2>3, <2>6 DEF Unsubscribes
  <2> QED
    BY <1>0, <1>1, <1>4, <2>2, <2>5, <2>6, <2>7, SendingKeepsFollowing
<1> QED
  BY <1>5, <1>6

\* resubscribeAll sends a subscribe, after what was sent.
LEMMA ResubscribeKeepsFollowing ==
  ASSUME HelperInv, FollowInv, resubscribeAll
  PROVE  FollowInv'
<1> DEFINE request == TopicRequest("subscribe", m_subscribedTopics)
           new == <<request>>
<1>0. TypeInv /\ Len(starts) \in Nat
  BY LenProperties DEF HelperInv, TypeInv, TypeOK
<1>1. UNCHANGED <<starts, m_connected, conn, down, served, version, shown, inUse, outcomes>>
  BY DEF resubscribeAll, backendVars, serviceVars
<1> SUFFICES ASSUME NEW s \in 1..Len(starts), Active(s)'
             PROVE  Ahead(s)' /\ (Told(s)' => Follows(s)')
  BY <1>1 DEF FollowInv
<1>2. IsInUse(s)' => IsInUse(s)
  BY <1>1 DEF IsInUse
<1>3. Active(s)
  BY <1>0, <1>1, <1>2, ActiveKept
<1>4. up' = up \o new
  BY <1>3 DEF resubscribeAll, Send, Active
<1>5. request \in Requests /\ request.kind = "subscribe"
  BY <1>0, RequestsTyped DEF TypeInv, TypeOK, TopicRequest
<1> HIDE DEF request
<1>6. new \in Seq(Requests) /\ \A k \in 1..Len(new) : ~Unsubscribes(new[k], starts[s].topic)
  BY <1>5 DEF Unsubscribes
<1>7. Completed(s)' => Completed(s)
  BY <1>1 DEF Completed
<1>8. Ahead(s) /\ (Told(s) => Follows(s))
  BY <1>3 DEF FollowInv
<1> HIDE DEF new
<1> QED
  BY <1>0, <1>1, <1>4, <1>6, <1>7, <1>8, SendingKeepsFollowing

\* No start is active on a connection that comes up, nor without one.
LEMMA ConnectionKeepsFollowing ==
  ASSUME HelperInv, ConnectionsCounted, FollowInv, onConnected \/ onDisconnected
  PROVE  FollowInv'
<1>0. TypeInv /\ starts \in Seq(StartCalls) /\ conn \in Nat
  BY HelperAssumption DEF HelperInv, TypeInv, TypeOK
<1>1. CASE onConnected
  <2>1. conn' = conn + 1 /\ UNCHANGED starts
    BY <1>1 DEF onConnected
  <2>2. \A s \in 1..Len(starts) : starts[s].since # conn'
    <3> SUFFICES ASSUME NEW s \in 1..Len(starts) PROVE starts[s].since # conn'
      OBVIOUS
    <3>1. starts[s] \in StartCalls
      BY <1>0, ElementOfSeq
    <3>2. starts[s].since \in Nat /\ starts[s].since <= conn
      BY <3>1, HelperAssumption DEF StartCalls, ConnectionsCounted
    <3> QED
      BY <1>0, <2>1, <3>2
  <2> QED
    BY <2>1, <2>2 DEF FollowInv, Active
<1>2. CASE onDisconnected
  BY <1>2 DEF onDisconnected, FollowInv, Active
<1> QED
  BY <1>1, <1>2

\* Connections are counted up, and a start records the one it is made on.
LEMMA NextCountsConnections ==
  HelperInv /\ ConnectionsCounted /\ [Next]_helperVars => ConnectionsCounted'
<1> SUFFICES ASSUME HelperInv, ConnectionsCounted, [Next]_helperVars PROVE ConnectionsCounted'
  OBVIOUS
<1>0. /\ TypeInv /\ starts \in Seq(StartCalls) /\ Len(starts) \in Nat /\ conn \in Nat
      /\ \A s \in 1..Len(starts) : starts[s].since \in Nat
  <2>1. TypeInv /\ starts \in Seq(StartCalls) /\ Len(starts) \in Nat /\ conn \in Nat
    BY LenProperties, HelperAssumption DEF HelperInv, TypeInv, TypeOK
  <2>2. ASSUME NEW s \in 1..Len(starts) PROVE starts[s].since \in Nat
    <3>1. starts[s] \in StartCalls
      BY <2>1, ElementOfSeq
    <3> QED
      BY <3>1, HelperAssumption DEF StartCalls
  <2> QED
    BY <2>1, <2>2
<1>1. ASSUME NEW use \in Uses, start(use[1], use[2], use[3]) PROVE ConnectionsCounted'
  <2> DEFINE call == Call(use[1], use[2], use[3])
  <2>1. use[1] \in Helpers /\ use[2] \in Topics /\ use[3] \in BootstrapMethods
    BY HelperAssumption DEF BootstrapMethods
  <2>2. /\ UNCHANGED <<conn, m_connected>>
        /\ starts' = Append(starts, call) /\ Len(starts') = Len(starts) + 1
    BY <1>0, <1>1, <2>1, StartEffect DEF start
  <2>3. call.since = conn \/ call.since = 0
    BY DEF Call
  <2> HIDE DEF call
  <2>4. \A s \in 1..Len(starts') : starts'[s] = IF s = Len(starts) + 1 THEN call ELSE starts[s]
    BY <1>0, <2>2, AppendProperties
  <2> QED
    BY <1>0, <2>2, <2>3, <2>4 DEF ConnectionsCounted
<1>2. CASE onConnected
  <2>1. conn' = conn + 1 /\ UNCHANGED starts
    BY <1>2 DEF onConnected
  <2> QED
    BY <1>0, <2>1 DEF ConnectionsCounted
<1>3. CASE onDisconnected
  BY <1>3 DEF onDisconnected, ConnectionsCounted
<1>4. ASSUME NEW h \in Helpers, stop(h) \/ timeout(h) PROVE ConnectionsCounted'
  BY <1>4 DEF stop, timeout, ConnectionsCounted, serviceVars
<1>5. CASE LoopStep \/ dispatchMessage \/ processRequest
  <2>1. UNCHANGED <<m_connected, conn, starts>>
    <3>1. CASE resubscribeAll
      BY <3>1 DEF resubscribeAll, serviceVars
    <3>2. ASSUME NEW w \in Starts, connectedChanged(w) PROVE UNCHANGED <<m_connected, conn, starts>>
      BY <3>2 DEF connectedChanged, serviceVars
    <3>3. CASE dispatchMessage
      BY <3>3 DEF dispatchMessage, serviceVars
    <3>4. CASE processRequest
      BY <3>4 DEF processRequest, serviceVars
    <3> QED
      BY <1>5, <3>1, <3>2, <3>3, <3>4 DEF LoopStep
  <2> QED
    BY <2>1 DEF ConnectionsCounted
<1>6. ASSUME NEW t \in Topics, publish(t) PROVE ConnectionsCounted'
  BY <1>6 DEF publish, ConnectionsCounted, serviceVars
<1>7. CASE UNCHANGED helperVars
  BY <1>7 DEF helperVars, ConnectionsCounted, serviceVars
<1> QED
  BY <1>1, <1>2, <1>3, <1>4, <1>5, <1>6, <1>7 DEF Next

----------------------------------------------------------------------------
(* Frames that are read, answered and published.                            *)

\* An active start is shown the data of the frames that are for it, and no other.
LEMMA DispatchShows ==
  ASSUME HelperInv, dispatchMessage, NEW s \in 1..Len(starts), Active(s)
  PROVE  shown'[s] = IF IsFor(Head(down), s) THEN Head(down).data ELSE shown[s]
<1> DEFINE message == Head(down)
           h == starts[s].helper
<1>0. TypeInv /\ OutcomeInv
  BY DEF HelperInv
<1>1. /\ down # <<>> /\ down' = Tail(down)
      /\ bootstrapAnswered(message) \/ publishReceived(message)
  BY DEF dispatchMessage
<1>2. message \in Messages /\ 1 \in 1..Len(down) /\ message = down[1]
  BY <1>0, <1>1, TakeEffect
<1>3. /\ s \in Starts /\ s # 0 /\ h \in Helpers /\ starts[s].topic \in Topics
      /\ shown \in [Starts -> Data \cup {NoData}]
  BY <1>0, ActiveTyped DEF TypeInv, TypeOK
<1>4. /\ inUse[h] = s /\ helper[h].m_handler = s /\ helper[h].m_topic = starts[s].topic
      /\ \A g \in Helpers : helper[g].m_handler = s => g = h
  BY <1>0, <1>3 DEF Active, IsInUse, TypeInv, HandlersInUse, OutcomeInv, Owned
<1> HIDE DEF message
<1>5. CASE publishReceived(message)
  <2>1. /\ message.kind = "publish"
        /\ shown'[s] = IF \E g \in Helpers : helper[g].m_handler = s /\ Listens(g, message.data.topic)
                       THEN message.data ELSE shown[s]
    BY <1>3, <1>5 DEF publishReceived
  <2>2. (\E g \in Helpers : helper[g].m_handler = s /\ Listens(g, message.data.topic))
          <=> message.data.topic = starts[s].topic
    BY <1>3, <1>4 DEF Listens
  <2>3. IsFor(message, s) <=> message.data.topic = starts[s].topic
    BY <2>1 DEF IsFor
  <2> QED
    BY <2>1, <2>2, <2>3 DEF message
<1>6. CASE bootstrapAnswered(message)
  <2> DEFINE g == starts[message.by].helper
  <2>1. message.kind # "publish" /\ g \in Helpers /\ message.by \in Answered
    BY <1>0, <1>2, <1>6, AnswerIsOfAStart DEF bootstrapAnswered
  <2>2. \/ message.kind = "data" /\ shown' = Given(helper[g].m_handler, message.data)
        \/ message.kind # "data" /\ shown' = shown
    BY <1>6 DEF bootstrapAnswered, Succeeded
  <2>3. IsFor(message, s) <=> message.kind = "data" /\ message.by = s
    BY <2>1 DEF IsFor
  <2>4. helper[g].m_handler = s <=> message.by = s
    <3>1. helper[g].m_handler = s => message.by = s
      BY <1>3, <1>4, <2>1 DEF HelperInv, DataInv, NoneOverlaps, Active
    <3>2. message.by = s => helper[g].m_handler = s
      BY <1>4
    <3> QED
      BY <3>1, <3>2
  <2>5. helper[g].m_handler # s => Given(helper[g].m_handler, message.data)[s] = shown[s]
    BY <1>3 DEF Given
  <2>6. Given(s, message.data)[s] = message.data
    BY <1>3 DEF Given
  <2> QED
    BY <2>2, <2>3, <2>4, <2>5, <2>6 DEF message
<1> QED
  BY <1>1, <1>5, <1>6

\* Reading a frame keeps the starts caught up.
LEMMA DispatchKeepsFollowing ==
  ASSUME HelperInv, FollowInv, dispatchMessage
  PROVE  FollowInv'
<1> DEFINE message == Head(down)
<1>0. TypeInv /\ OutcomeInv /\ Len(starts) \in Nat
  BY LenProperties DEF HelperInv, TypeInv, TypeOK
<1>1. /\ down # <<>> /\ down' = Tail(down)
      /\ bootstrapAnswered(message) \/ publishReceived(message)
      /\ UNCHANGED <<starts, m_connected, conn, up, served, version, inUse>>
  BY DEF dispatchMessage, backendVars, serviceVars
<1> SUFFICES ASSUME NEW s \in 1..Len(starts), Active(s)'
             PROVE  Ahead(s)' /\ (Told(s)' => Follows(s)')
  BY <1>1 DEF FollowInv
<1>2. IsInUse(s)' => IsInUse(s)
  BY <1>1 DEF IsInUse
<1>3. Active(s)
  BY <1>0, <1>1, <1>2, ActiveKept
<1>4. Ahead(s) /\ (Told(s) => Follows(s))
  BY <1>3 DEF FollowInv
<1>5. Ahead(s)'
  BY <1>1, <1>4 DEF Ahead
<1>6. /\ message \in Messages /\ message = down[1]
      /\ Len(down) \in Nat /\ Len(down') = Len(down) - 1 /\ Len(down) > 0
      /\ \A i \in 1..Len(down') : down'[i] = down[i + 1]
  <2>1. down \in Seq(Messages)
    BY <1>0 DEF TypeInv, TypeOK
  <2> QED
    BY <1>1, <2>1, HeadTailProperties, EmptySeq, LenProperties
<1>7. shown'[s] = IF IsFor(message, s) THEN message.data ELSE shown[s]
  BY <1>3, DispatchShows
<1> HIDE DEF message
<1>8. Completed(s)' => Completed(s) \/ (message.kind = "data" /\ message.by = s)
  <2> SUFFICES ASSUME Completed(s)', ~Completed(s)
               PROVE  message.kind = "data" /\ message.by = s
    OBVIOUS
  <2>1. bootstrapAnswered(message)
    <3>1. outcomes' # outcomes
      BY DEF Completed
    <3> QED
      BY <1>1, <3>1 DEF publishReceived
  <2> DEFINE h == starts[message.by].helper
  <2>2. message.kind # "publish" /\ h \in Helpers /\ message.by \in Answered
    <3>1. 1 \in 1..Len(down)
      BY <1>6
    <3> QED
      BY <1>0, <1>6, <2>1, <3>1, AnswerIsOfAStart DEF bootstrapAnswered
  <2>3. message.kind = "data" /\ Completes(h, helper[h])
    <3>1. outcomes' # outcomes
      BY DEF Completed
    <3> QED
      BY <1>0, <1>6, <2>1, <2>2, <3>1, AnsweredEffect
  <2>4. s = inUse[h] /\ inUse[h] # 0
    <3>1. Reports(h, "completed") /\ "completed" \in Outcomes
      BY <1>0, <2>2, <2>3, AnswerReports DEF Outcomes
    <3> QED
      BY <1>0, <2>2, <3>1, ReportCompletes, InUseIsAStart
  <2> QED
    BY <1>3, <2>2, <2>3, <2>4 DEF Active, HelperInv, DataInv, NoneOverlaps
<1>9. ASSUME Told(s)' PROVE Told(s)
  <2>1. CASE message.kind = "data" /\ message.by = s
    <3>1. 1 \in 1..Len(down)
      BY <1>6
    <3> QED
      BY <1>6, <2>1, <3>1 DEF Told
  <2>2. ASSUME NEW i \in 1..Len(down'), down'[i].kind = "data", down'[i].by = s PROVE Told(s)
    <3>1. i + 1 \in 1..Len(down) /\ down'[i] = down[i + 1]
      BY <1>6
    <3> QED
      BY <2>2, <3>1 DEF Told
  <2> QED
    BY <1>8, <1>9, <2>1, <2>2 DEF Told
<1>10. ASSUME Told(s)' PROVE Follows(s)'
  <2>1. Follows(s)
    BY <1>4, <1>9, <1>10
  <2>2. \A i \in 1..Len(down) : i = 1 \/ (i - 1 \in 1..Len(down') /\ down[i] = down'[i - 1])
    BY <1>6
  <2>3. ASSUME NEW i \in 1..Len(down'), LastFor(s, i)'
        PROVE  down'[i].data = Current(starts[s].topic)
    <3>1. i + 1 \in 1..Len(down) /\ down'[i] = down[i + 1]
      BY <1>6
    <3>2. LastFor(s, i + 1)
      <4>1. IsFor(down[i + 1], s)
        BY <1>1, <2>3, <3>1 DEF LastFor, IsFor
      <4>2. ASSUME NEW j \in 1..Len(down), IsFor(down[j], s) PROVE j <= i + 1
        <5>1. CASE j = 1
          BY <1>6, <5>1
        <5>2. CASE j # 1
          <6>1. j - 1 \in 1..Len(down') /\ down[j] = down'[j - 1]
            BY <2>2, <5>2
          <6>2. j - 1 <= i
            BY <1>1, <2>3, <4>2, <6>1 DEF LastFor, IsFor
          <6> QED
            BY <6>2
        <5> QED
          BY <5>1, <5>2
      <4> QED
        BY <4>1, <4>2 DEF LastFor
    <3> QED
      BY <2>1, <3>1, <3>2 DEF Follows, CaughtUp
  <2>4. ASSUME \A i \in 1..Len(down') : ~IsFor(down'[i], s)
        PROVE  shown'[s] = Current(starts[s].topic)
    <3>1. \A i \in 1..Len(down) : IsFor(down[i], s) => i = 1
      BY <2>2, <2>4
    <3>2. CASE IsFor(message, s)
      <4>1. 1 \in 1..Len(down) /\ LastFor(s, 1)
        BY <1>6, <3>1, <3>2 DEF LastFor
      <4> QED
        BY <1>6, <1>7, <2>1, <3>2, <4>1 DEF Follows, CaughtUp
    <3>3. CASE ~IsFor(message, s)
      <4>1. \A i \in 1..Len(down) : ~IsFor(down[i], s)
        BY <1>6, <3>1, <3>3
      <4> QED
        BY <1>7, <2>1, <3>3, <4>1 DEF Follows, CaughtUp, HasCurrentData
    <3> QED
      BY <3>2, <3>3
  <2>5. CaughtUp(s)'
    <3>1. Current(starts[s].topic)' = Current(starts[s].topic)
      BY <1>1 DEF Current
    <3>2. \A i \in 1..Len(down') : IsFor(down'[i], s) <=> IsFor(down[i], s)'
      BY <1>1 DEF IsFor
    <3> QED
      BY <2>3, <2>4, <3>1, <3>2 DEF CaughtUp, HasCurrentData
  <2> QED
    BY <1>1, <2>1, <2>5 DEF Follows
<1> QED
  BY <1>5, <1>10

\* A frame is added, with the current data if it is for the start.
LEMMA AppendedCatchesUp ==
  ASSUME TypeInv, NEW s \in 1..Len(starts), UNCHANGED <<starts, shown>>,
         NEW message, down' = Append(down, message),
         \/ IsFor(message, s) /\ message.data = Current(starts[s].topic)'
         \/ /\ ~IsFor(message, s) /\ CaughtUp(s)
            /\ Current(starts[s].topic)' = Current(starts[s].topic)
  PROVE  CaughtUp(s)'
<1>1. down \in Seq(Messages) /\ Len(down) \in Nat
  BY ActiveTyped
<1>2. /\ Len(down') = Len(down) + 1
      /\ down'[Len(down) + 1] = message
      /\ \A i \in 1..Len(down) : down'[i] = down[i]
  BY <1>1
<1>3. \A m : IsFor(m, s)' <=> IsFor(m, s)
  BY DEF IsFor
<1>4. \A i \in 1..Len(down') : i \in 1..Len(down) \/ i = Len(down) + 1
  BY <1>1, <1>2
<1>5. Len(down) + 1 \in 1..Len(down') /\ \A i \in 1..Len(down) : i \in 1..Len(down') /\ i < Len(down) + 1
  BY <1>1, <1>2
<1>6. SUFFICES
        /\ \A i \in 1..Len(down') :
             IsFor(down'[i], s) /\ (\A j \in 1..Len(down') : IsFor(down'[j], s) => j <= i) =>
               down'[i].data = Current(starts[s].topic)'
        /\ (\A i \in 1..Len(down') : ~IsFor(down'[i], s)) => shown[s] = Current(starts[s].topic)'
  BY <1>3 DEF CaughtUp, LastFor, HasCurrentData, IsFor, Current
<1>7. CASE IsFor(message, s) /\ message.data = Current(starts[s].topic)'
  <2> SUFFICES ASSUME NEW i \in 1..Len(down'),
                      \A j \in 1..Len(down') : IsFor(down'[j], s) => j <= i
               PROVE  i = Len(down) + 1
    BY <1>2, <1>5, <1>7
  <2>1. Len(down) + 1 <= i
    BY <1>2, <1>5, <1>7
  <2> QED
    BY <1>1, <1>4, <2>1
<1>8. CASE /\ ~IsFor(message, s) /\ CaughtUp(s)
           /\ Current(starts[s].topic)' = Current(starts[s].topic)
  <2>1. ASSUME NEW i \in 1..Len(down'), IsFor(down'[i], s),
               \A j \in 1..Len(down') : IsFor(down'[j], s) => j <= i
        PROVE  down'[i].data = Current(starts[s].topic)
    <3>1. i \in 1..Len(down) /\ down'[i] = down[i]
      BY <1>2, <1>4, <1>8, <2>1
    <3>2. LastFor(s, i)
      BY <1>2, <1>5, <2>1, <3>1 DEF LastFor
    <3> QED
      BY <1>8, <3>1, <3>2 DEF CaughtUp
  <2>2. ASSUME \A i \in 1..Len(down') : ~IsFor(down'[i], s)
        PROVE  shown[s] = Current(starts[s].topic)
    BY <1>2, <1>5, <1>8, <2>2 DEF CaughtUp, HasCurrentData
  <2> QED
    BY <1>8, <2>1, <2>2
<1> QED
  BY <1>7, <1>8

\* The server comes to the next request: one that is not for the start's topic, its
\* subscribe, or its bootstrap, which it answers with the current data.
LEMMA ProcessKeepsFollowing ==
  ASSUME HelperInv, FollowInv, processRequest
  PROVE  FollowInv'
<1> DEFINE request == Head(up)
<1>0. TypeInv /\ Len(starts) \in Nat
  BY LenProperties DEF HelperInv, TypeInv, TypeOK
<1>1. /\ up # <<>> /\ up' = Tail(up)
      /\ UNCHANGED <<starts, m_connected, conn, version, inUse, outcomes, shown>>
  BY DEF processRequest, serviceVars
<1> SUFFICES ASSUME NEW s \in 1..Len(starts), Active(s)'
             PROVE  Ahead(s)' /\ (Told(s)' => Follows(s)')
  BY <1>1 DEF FollowInv
<1> DEFINE t == starts[s].topic
<1>2. Active(s)
  <2>1. IsInUse(s)' => IsInUse(s)
    BY <1>1 DEF IsInUse
  <2> QED
    BY <1>0, <1>1, <2>1, ActiveKept
<1>3. Ahead(s) /\ (Told(s) => Follows(s))
  BY <1>2 DEF FollowInv
<1>4. /\ up \in Seq(Requests) /\ Len(up) \in Nat /\ Len(up) > 0 /\ Len(up') = Len(up) - 1
      /\ \A i \in 1..Len(up') : i + 1 \in 1..Len(up) /\ up'[i] = up[i + 1]
      /\ request = up[1] /\ request \in Requests /\ 1 \in 1..Len(up)
  <2>1. up \in Seq(Requests)
    BY <1>0 DEF TypeInv, TypeOK
  <2> QED
    BY <1>1, <2>1, HeadTailProperties, EmptySeq, LenProperties
<1>5. /\ \/ request.kind = "subscribe" /\ served' = served \cup request.topics /\ UNCHANGED down
         \/ request.kind = "unsubscribe" /\ served' = served \ request.topics /\ UNCHANGED down
         \/ request.kind = "get" /\ UNCHANGED served
      /\ request.kind = "get" =>
           \/ down' = Append(down, [kind |-> "data", by |-> request.by,
                                    data |-> Current(starts[request.by].topic)])
           \/ down' = Append(down, [kind |-> "refusal", by |-> request.by, data |-> NoData])
  BY DEF processRequest
<1> HIDE DEF request
<1>6. /\ Subscribes(up[1], t) => t \in served'
      /\ t \in served => t \in served' \/ Unsubscribes(up[1], t)
  BY <1>4, <1>5 DEF Subscribes, Unsubscribes
<1>7. ASSUME NEW i \in Nat, i > 1, Covered(up, served, t, i)
      PROVE  Covered(up', served', t, i - 1)
  BY <1>1, <1>4, <1>6, <1>7, CoveredTail
<1>8. Ahead(s)'
  <2>1. Covered(up', served', t, Len(up') + 1)
    BY <1>3, <1>4, <1>7 DEF Ahead
  <2>2. ASSUME NEW i \in 1..Len(up'), up'[i].kind = "get", up'[i].by = s
        PROVE  Covered(up', served', t, i)
    <3>1. Covered(up, served, t, i + 1) /\ i + 1 \in Nat /\ i + 1 > 1 /\ (i + 1) - 1 = i
      BY <1>3, <1>4, <2>2 DEF Ahead
    <3> QED
      BY <1>7, <3>1
  <2> QED
    BY <1>1, <2>1, <2>2 DEF Ahead
<1>9. ASSUME Told(s)' PROVE Follows(s)'
  <2>1. ASSUME t \in served, \A j \in 1..Len(up) : ~Unsubscribes(up[j], t), CaughtUp(s)'
        PROVE  Follows(s)'
    <3>1. t \in served'
      BY <1>4, <1>6, <2>1
    <3>2. \A j \in 1..Len(up') : ~Unsubscribes(up'[j], t)
      BY <1>4, <2>1
    <3> QED
      BY <1>1, <2>1, <3>1, <3>2 DEF Follows
  <2>2. CASE request.kind # "get"
    <3>1. UNCHANGED down
      BY <1>5, <2>2
    <3>2. Told(s)
      BY <1>1, <1>9, <3>1 DEF Told, Completed
    <3>3. CaughtUp(s)'
      BY <1>1, <1>3, <3>1, <3>2
         DEF Follows, CaughtUp, LastFor, IsFor, HasCurrentData, Current
    <3> QED
      BY <1>3, <2>1, <3>2, <3>3 DEF Follows
  <2>3. CASE request.kind = "get"
    <3> DEFINE answer == [kind |-> "data", by |-> request.by, data |-> Current(starts[request.by].topic)]
               refusal == [kind |-> "refusal", by |-> request.by, data |-> NoData]
    <3>1. PICK m \in {answer, refusal} : down' = Append(down, m)
      BY <1>5, <2>3
    <3>2. /\ m.kind # "publish" /\ m.by = request.by
          /\ m.kind = "data" => m.data = Current(starts[request.by].topic)
      OBVIOUS
    <3>3. Current(t)' = Current(t)
      BY <1>1 DEF Current
    <3> HIDE DEF answer, refusal
    <3>4. CASE m.kind = "data" /\ m.by = s
      <4>1. Covered(up, served, t, 1)
        BY <1>3, <1>4, <2>3, <3>2, <3>4 DEF Ahead
      <4>2. t \in served /\ \A j \in 1..Len(up) : ~Unsubscribes(up[j], t)
        BY <1>4, <4>1, CoveredFirst
      <4>3. IsFor(m, s) /\ m.data = Current(t)'
        BY <3>2, <3>3, <3>4 DEF IsFor
      <4>4. CaughtUp(s)'
        BY <1>0, <1>1, <3>1, <4>3, AppendedCatchesUp
      <4> QED
        BY <2>1, <4>2, <4>4
    <3>5. CASE ~(m.kind = "data" /\ m.by = s)
      <4>1. Told(s)
        <5>1. /\ Len(down) \in Nat
              /\ \A i \in 1..Len(down') : (i \in 1..Len(down) /\ down'[i] = down[i]) \/ down'[i] = m
          BY <1>0, <3>1, ActiveTyped, AppendProperties
        <5> QED
          BY <1>1, <1>9, <3>5, <5>1 DEF Told, Completed
      <4>2. ~IsFor(m, s) /\ CaughtUp(s)
        BY <1>3, <3>2, <3>5, <4>1 DEF IsFor, Follows
      <4>3. CaughtUp(s)'
        BY <1>0, <1>1, <3>1, <3>3, <4>2, AppendedCatchesUp
      <4> QED
        BY <1>3, <2>1, <4>1, <4>3 DEF Follows
    <3> QED
      BY <3>4, <3>5
  <2> QED
    BY <2>2, <2>3
<1> QED
  BY <1>8, <1>9

\* A change of the data is published to a start that was told.
LEMMA PublishKeepsFollowing ==
  ASSUME HelperInv, FollowInv, NEW u \in Topics, publish(u)
  PROVE  FollowInv'
<1> DEFINE message == [kind |-> "publish", data |-> [topic |-> u, version |-> version[u] + 1]]
<1>0. TypeInv /\ Len(starts) \in Nat
  BY LenProperties DEF HelperInv, TypeInv, TypeOK
<1>1. /\ UNCHANGED <<starts, m_connected, conn, up, served, inUse, outcomes, shown>>
      /\ version' = [version EXCEPT ![u] = @ + 1] /\ version \in [Topics -> 0..MaxChanges]
      /\ down' = IF u \in served THEN Append(down, message) ELSE down
  BY <1>0 DEF publish, serviceVars, TypeInv, TypeOK
<1> SUFFICES ASSUME NEW s \in 1..Len(starts), Active(s)'
             PROVE  Ahead(s)' /\ (Told(s)' => Follows(s)')
  BY <1>1 DEF FollowInv
<1> DEFINE t == starts[s].topic
<1>2. Active(s)
  <2>1. IsInUse(s)' => IsInUse(s)
    BY <1>1 DEF IsInUse
  <2> QED
    BY <1>0, <1>1, <2>1, ActiveKept
<1>3. Ahead(s) /\ (Told(s) => Follows(s))
  BY <1>2 DEF FollowInv
<1>4. Ahead(s)'
  BY <1>1, <1>3 DEF Ahead
<1>5. t \in Topics /\ down \in Seq(Messages) /\ Len(down) \in Nat
  BY <1>0, ActiveTyped
<1>6. message.kind = "publish" /\ message.data = [topic |-> u, version |-> version[u] + 1]
  OBVIOUS
<1> HIDE DEF message
<1>7. ASSUME Told(s)' PROVE Told(s)
  <2>1. \A i \in 1..Len(down') : (i \in 1..Len(down) /\ down'[i] = down[i]) \/ down'[i] = message
    BY <1>1, <1>5, AppendProperties
  <2> QED
    BY <1>1, <1>6, <1>7, <2>1 DEF Told, Completed
<1>8. ASSUME Told(s)' PROVE CaughtUp(s)' /\ t \in served
  <2>1. CaughtUp(s) /\ t \in served
    BY <1>3, <1>7, <1>8 DEF Follows
  <2>2. CASE u = t
    <3>1. message.data = Current(t)' /\ IsFor(message, s)
      BY <1>1, <1>5, <1>6, <2>2 DEF Current, IsFor
    <3> QED
      BY <1>0, <1>1, <2>1, <2>2, <3>1, AppendedCatchesUp
  <2>3. CASE u # t
    <3>1. Current(t)' = Current(t)
      BY <1>1, <1>5, <2>3 DEF Current
    <3>2. ~IsFor(message, s)
      BY <1>6, <2>3 DEF IsFor
    <3>3. CASE u \in served
      BY <1>0, <1>1, <2>1, <3>1, <3>2, <3>3, AppendedCatchesUp
    <3>4. CASE u \notin served
      BY <1>1, <2>1, <3>1, <3>4 DEF CaughtUp, LastFor, IsFor, HasCurrentData
    <3> QED
      BY <2>1, <3>3, <3>4
  <2> QED
    BY <2>2, <2>3
<1> QED
  BY <1>1, <1>3, <1>4, <1>7, <1>8 DEF Follows

----------------------------------------------------------------------------
(* The theorem.                                                             *)

\* CurrentInv is inductive.
LEMMA NextKeepsCurrent == CurrentInv /\ [Next]_helperVars => CurrentInv'
<1> SUFFICES ASSUME HelperInv, ConnectionsCounted, FollowInv, [Next]_helperVars PROVE CurrentInv'
  BY DEF CurrentInv
<1>1. ASSUME NEW use \in Uses, start(use[1], use[2], use[3]) PROVE FollowInv'
  <2>1. use[1] \in Helpers /\ use[2] \in Topics /\ use[3] \in BootstrapMethods
    BY HelperAssumption DEF BootstrapMethods
  <2> QED
    BY <1>1, <2>1, StartKeepsFollowing
<1>2. ASSUME NEW h \in Helpers, stop(h) \/ timeout(h) PROVE FollowInv'
  BY <1>2, StopKeepsFollowing, TimeoutKeepsFollowing
<1>3. ASSUME LoopStep PROVE FollowInv'
  BY <1>3, ResubscribeKeepsFollowing, ConnectedChangedKeepsFollowing DEF LoopStep
<1>4. ASSUME onConnected \/ onDisconnected \/ dispatchMessage \/ processRequest
      PROVE  FollowInv'
  BY <1>4, ConnectionKeepsFollowing, DispatchKeepsFollowing, ProcessKeepsFollowing
<1>5. ASSUME NEW t \in Topics, publish(t) PROVE FollowInv'
  BY <1>5, PublishKeepsFollowing
<1>6. ASSUME UNCHANGED helperVars PROVE FollowInv'
  BY <1>6 DEF helperVars, serviceVars, backendVars, FollowInv, Active, IsInUse, OnlyUser, Ahead,
              Told, Completed, Follows, CaughtUp, LastFor, IsFor, HasCurrentData, Current
<1>7. FollowInv'
  BY <1>1, <1>2, <1>3, <1>4, <1>5, <1>6 DEF Next
<1> QED
  BY <1>7, NextKeepsHelper, NextCountsConnections DEF CurrentInv

\* CurrentInv holds of every behaviour.
LEMMA CurrentInvHolds == Spec => []CurrentInv
<1>1. Init => ConnectionsCounted /\ FollowInv
  <2> SUFFICES ASSUME Init PROVE ConnectionsCounted /\ FollowInv
    OBVIOUS
  <2>1. starts = <<>> /\ m_connected = FALSE
    BY DEF Init
  <2> QED
    BY <2>1 DEF ConnectionsCounted, FollowInv
<1>2. Spec => []HelperInv
  BY HelperInvHolds
<1>3. HelperInv /\ ConnectionsCounted /\ FollowInv <=> CurrentInv
  BY DEF CurrentInv
<1> QED
  BY <1>1, <1>2, <1>3, NextKeepsCurrent, PTL DEF Spec

\* Once a startup has completed and nothing is under way, its handler has seen the
\* backend's current data, whatever was published, answered or sent in between: if
\* it was started on the connection that is up, alone with its topic.
THEOREM UpToDateHolds == Spec => []UpToDate
<1>1. CurrentInv => UpToDate
  <2> SUFFICES ASSUME CurrentInv, Quiet, NEW s \in 1..Len(starts), Settled(s),
                      starts[s].since = conn
               PROVE  HasCurrentData(s)
    BY DEF UpToDate
  <2>1. Active(s) /\ Completed(s)
    BY DEF Active, Settled, Quiet
  <2>2. CaughtUp(s)
    BY <2>1 DEF CurrentInv, FollowInv, Told, Follows
  <2>3. down = <<>>
    BY DEF Quiet
  <2> QED
    BY <2>2, <2>3 DEF CaughtUp
<1> QED
  BY <1>1, CurrentInvHolds, PTL
=============================================================================
