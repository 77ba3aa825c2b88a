------------------------- MODULE SubscriptionHelper -------------------------
(***************************************************************************)
(* SubscriptionHelper (websocket/SubscriptionHelper.cpp): starts the       *)
(* subscription to a topic, fetches its current data once (the bootstrap), *)
(* and reports that the startup completed or timed out.                    *)
(*                                                                         *)
(* Several helpers share one client service.  Of the client this module    *)
(* keeps what a helper sees of it: the connected flag, the list of topics, *)
(* the requests it sends and the order of what onConnected does.  Of the   *)
(* backend it keeps the data of each topic, as a version that grows, and   *)
(* what a client is told of it.  A connection delivers frames in order in  *)
(* each direction and loses what is under way when it ends.                *)
(*                                                                         *)
(* All code runs on one event loop.  An action is a slot, a timer, or an   *)
(* operation the application calls, possibly from a connectedChanged       *)
(* handler, which onConnected runs before resubscribeAll.                  *)
(*                                                                         *)
(* A definition X_Y is X with the mistake Y, used by no specification.     *)
(***************************************************************************)
EXTENDS Naturals, Sequences, SequencesExt

CONSTANTS
  Helpers,         \* the SubscriptionHelper objects of one client service
  Topics,          \* topics the backend publishes
  Uses,            \* the arguments start() is called with: helper, topic, method
  MaxStarts,       \* bound: start() calls
  MaxConnections,  \* bound: connections established
  MaxChanges       \* bound: changes of a topic's data

ASSUME HelperAssumption ==
  /\ "UnknownTopic" \notin Topics
  /\ Uses \subseteq Helpers \X Topics \X {"Get", "UnknownMethod"}
  /\ MaxStarts \in Nat
  /\ MaxConnections \in Nat
  /\ MaxChanges \in Nat

VARIABLES
  helper,              \* the members of each helper, see Members
  watchers,            \* live connectedChanged connections, by the start() that made them
  m_connected,         \* of the client service
  m_subscribedTopics,  \* of the client service, as a set
  conn,                \* number of the latest connection
  inOnConnected,       \* onConnected is on the stack, its handlers running
  toNotify,            \* connections its connectedChanged has yet to reach
  up, down,            \* frames under way to the server and to the client
  served,              \* topics the server holds for the connection
  version,             \* the backend's data of each topic
  starts,              \* the start() calls, in order
  outcomes,            \* for each start, the signals it led to
  shown,               \* for each start, the last data given to its handler
  inUse                \* for each helper, the start the application has not stopped, or 0

serviceVars == <<m_connected, m_subscribedTopics, conn>>
stackVars == <<inOnConnected, toNotify>>
backendVars == <<served, version>>
helperVars == <<helper, watchers, serviceVars, stackVars, up, down, backendVars,
                starts, outcomes, shown, inUse>>

Starts == 1..MaxStarts
BootstrapMethods == {"Get", "UnknownMethod"}   \* "Get" answers with the topic's data

Data == [topic : Topics, version : 0..MaxChanges]   \* of a topic
NoData == [topic |-> "UnknownTopic", version |-> 0]

\* m_handler and m_connectionWatcher are named by the start() that set them; 0 is null.
Members == [m_topic : Topics \cup {"UnknownTopic"},
            m_bootstrapMethod : BootstrapMethods,
            m_handler : 0..MaxStarts,
            m_startupInProgress : BOOLEAN,
            m_connectionWatcher : 0..MaxStarts,
            timer : BOOLEAN]

\* since: the connection start() found up, or 0.  clean: no earlier bootstrap of
\* the helper was waiting for its answer.
StartCalls == [helper : Helpers, topic : Topics, method : BootstrapMethods,
               since : 0..MaxConnections, clean : BOOLEAN]

Requests == [kind : {"subscribe", "unsubscribe"}, topics : SUBSET Topics]
              \cup [kind : {"get"}, by : Starts]
Messages == [kind : {"data", "refusal"}, by : Starts, data : Data \cup {NoData}]
              \cup [kind : {"publish"}, data : Data]

TypeOK ==
  /\ helper \in [Helpers -> Members]
  /\ watchers \subseteq 1..Len(starts)
  /\ m_connected \in BOOLEAN
  /\ m_subscribedTopics \subseteq Topics
  /\ conn \in 0..MaxConnections
  /\ inOnConnected \in BOOLEAN
  /\ toNotify \subseteq 1..Len(starts)
  /\ up \in Seq(Requests) /\ down \in Seq(Messages)
  /\ served \subseteq Topics
  /\ version \in [Topics -> 0..MaxChanges]
  /\ starts \in Seq(StartCalls) /\ Len(starts) <= MaxStarts
  /\ outcomes \in [Starts -> Seq({"completed", "timedOut"})]
  /\ shown \in [Starts -> Data \cup {NoData}]
  /\ inUse \in [Helpers -> 0..Len(starts)]
  /\ \A h \in Helpers : helper[h].m_handler = 0 <=> helper[h].m_topic = "UnknownTopic"

Init ==
  /\ helper = [h \in Helpers |->
       [m_topic |-> "UnknownTopic", m_bootstrapMethod |-> "UnknownMethod", m_handler |-> 0,
        m_startupInProgress |-> FALSE, m_connectionWatcher |-> 0, timer |-> FALSE]]
  /\ watchers = {}
  /\ m_connected = FALSE
  /\ m_subscribedTopics = {}
  /\ conn = 0
  /\ inOnConnected = FALSE
  /\ toNotify = {}
  /\ up = <<>> /\ down = <<>>
  /\ served = {}
  /\ version = [t \in Topics |-> 0]
  /\ starts = <<>>
  /\ outcomes = [s \in Starts |-> <<>>]
  /\ shown = [s \in Starts |-> NoData]
  /\ inUse = [h \in Helpers |-> 0]

----------------------------------------------------------------------------
(* The helper.  An operator with a parameter r works on the members that the *)
(* calling operation has set so far, and one with frames sends them first.   *)

TopicRequest(kind, topics) == [kind |-> kind, topics |-> topics]

Send(frames) == up' = IF m_connected THEN up \o frames ELSE up

Signal(s, outcome) == outcomes' = [outcomes EXCEPT ![s] = Append(@, outcome)]

\* A startup that is over ignores the answer that comes late.
MayComplete_Always(r) == r.m_handler # 0
MayComplete(r) == r.m_startupInProgress

completeStartup(h, r, live) ==
  \/ /\ ~MayComplete(r)
     /\ helper' = [helper EXCEPT ![h] = r]
     /\ watchers' = live
     /\ UNCHANGED outcomes
  \/ /\ MayComplete(r)
     /\ helper' = [helper EXCEPT ![h] =
          [r EXCEPT !.m_startupInProgress = FALSE, !.timer = FALSE, !.m_connectionWatcher = 0]]
     /\ watchers' = live \ {r.m_connectionWatcher}
     /\ Signal(r.m_handler, "completed")

InOrder_BootstrapFirst(frames, request) == <<request>> \o frames
InOrder(frames, request) == frames \o <<request>>

performBootstrap(h, r, live, frames) ==
  \/ /\ r.m_bootstrapMethod = "UnknownMethod"
     /\ completeStartup(h, r, live)
     /\ Send(frames)
  \/ /\ r.m_bootstrapMethod # "UnknownMethod"
     /\ helper' = [helper EXCEPT ![h] = r]
     /\ watchers' = live
     /\ Send(InOrder(frames, [kind |-> "get", by |-> r.m_handler]))
     /\ UNCHANGED outcomes

AwaitsBootstrap(h) ==
  \/ \E i \in 1..Len(up) : up[i].kind = "get" /\ starts[up[i].by].helper = h
  \/ \E i \in 1..Len(down) : down[i].kind # "publish" /\ starts[down[i].by].helper = h

TimerRuns_OnceConnected == m_connected
TimerRuns == TRUE

\* start() while an earlier startup is under way changes everything but the
\* connections that are live: m_connectionWatcher forgets one, and it stays.
start(h, t, method) ==
  LET s == Len(starts) + 1
      r == [m_topic |-> t, m_bootstrapMethod |-> method, m_handler |-> s,
            m_startupInProgress |-> TRUE, timer |-> TimerRuns,
            m_connectionWatcher |-> helper[h].m_connectionWatcher] IN
  /\ s \in Starts
  /\ starts' = Append(starts, [helper |-> h, topic |-> t, method |-> method,
                               since |-> IF m_connected THEN conn ELSE 0,
                               clean |-> ~AwaitsBootstrap(h)])
  /\ inUse' = [inUse EXCEPT ![h] = s]
  /\ m_subscribedTopics' = m_subscribedTopics \cup {t}
  /\ \/ /\ m_connected
        /\ performBootstrap(h, r, watchers, <<TopicRequest("subscribe", {t})>>)
     \/ /\ ~m_connected
        /\ helper' = [helper EXCEPT ![h] = [r EXCEPT !.m_connectionWatcher = s]]
        /\ watchers' = watchers \cup {s}
        /\ UNCHANGED <<up, outcomes>>
  /\ UNCHANGED <<m_connected, conn, stackVars, down, backendVars, shown>>

HandlerAfterStop_Kept(r) == r.m_handler
HandlerAfterStop(r) == 0

stop(h) ==
  LET r == helper[h]
      topics == {r.m_topic} \cap Topics IN
  /\ helper' = [helper EXCEPT ![h] =
       [m_topic |-> "UnknownTopic", m_bootstrapMethod |-> "UnknownMethod",
        m_handler |-> HandlerAfterStop(r), m_startupInProgress |-> FALSE,
        timer |-> FALSE, m_connectionWatcher |-> 0]]
  /\ watchers' = watchers \ {r.m_connectionWatcher}
  /\ inUse' = [inUse EXCEPT ![h] = 0]
  /\ m_subscribedTopics' = m_subscribedTopics \ topics
  /\ Send(IF topics = {} THEN <<>> ELSE <<TopicRequest("unsubscribe", topics)>>)
  /\ UNCHANGED <<m_connected, conn, stackVars, down, backendVars, starts, outcomes, shown>>

timeout(h) ==
  LET r == helper[h] IN
  /\ ~inOnConnected
  /\ r.timer
  /\ helper' = [helper EXCEPT ![h] = [r EXCEPT !.timer = FALSE, !.m_startupInProgress = FALSE]]
  /\ IF r.m_startupInProgress THEN Signal(r.m_handler, "timedOut") ELSE UNCHANGED outcomes
  /\ UNCHANGED <<watchers, serviceVars, stackVars, up, down, backendVars, starts, shown, inUse>>

\* The slot of the connection that start number w made.  Qt calls those of an
\* emission in the order they were made, and none that was cut on the way.
connectedChanged(w) ==
  LET h == starts[w].helper
      r == helper[h] IN
  /\ inOnConnected
  /\ w \in toNotify \cap watchers
  /\ \A other \in toNotify \cap watchers : w <= other
  /\ toNotify' = toNotify \ {w}
  /\ \/ /\ m_connected /\ r.m_startupInProgress
        /\ performBootstrap(h, [r EXCEPT !.m_connectionWatcher = 0],
                            watchers \ {r.m_connectionWatcher}, <<>>)
     \/ /\ ~(m_connected /\ r.m_startupInProgress)
        /\ UNCHANGED <<helper, watchers, up, outcomes>>
  /\ UNCHANGED <<serviceVars, inOnConnected, down, backendVars, starts, shown, inUse>>

Given(s, data) == IF s = 0 THEN shown ELSE [shown EXCEPT ![s] = data]

\* A refused bootstrap is logged, and the startup left to time out.  An answer
\* goes to whatever handler the helper has by now.
Succeeded_Always(message) == TRUE
Succeeded(message) == message.kind = "data"

bootstrapAnswered(message) ==
  LET h == starts[message.by].helper
      r == helper[h] IN
  /\ message.kind # "publish"
  /\ \/ /\ Succeeded(message)
        /\ shown' = Given(r.m_handler, message.data)
        /\ completeStartup(h, r, watchers)
     \/ /\ ~Succeeded(message)
        /\ UNCHANGED <<helper, watchers, outcomes, shown>>

Listens_ToAnyTopic(h, t) == helper[h].m_handler # 0
Listens(h, t) == helper[h].m_handler # 0 /\ helper[h].m_topic = t

\* Every helper of the client sees every publish.
publishReceived(message) ==
  /\ message.kind = "publish"
  /\ shown' = [s \in Starts |->
       IF \E h \in Helpers : helper[h].m_handler = s /\ Listens(h, message.data.topic)
       THEN message.data ELSE shown[s]]
  /\ UNCHANGED <<helper, watchers, outcomes>>

----------------------------------------------------------------------------
(* The client service and the backend, as far as a helper depends on them. *)

onConnected ==
  /\ ~m_connected /\ ~inOnConnected
  /\ conn < MaxConnections
  /\ conn' = conn + 1
  /\ m_connected' = TRUE
  /\ inOnConnected' = TRUE
  /\ toNotify' = watchers
  /\ UNCHANGED <<helper, watchers, m_subscribedTopics, up, down, backendVars,
                 starts, outcomes, shown, inUse>>

\* The requests of resubscribeAll travel as one frame.
resubscribeAll ==
  /\ inOnConnected
  /\ toNotify \cap watchers = {}
  /\ inOnConnected' = FALSE
  /\ toNotify' = {}
  /\ Send(<<TopicRequest("subscribe", m_subscribedTopics)>>)
  /\ UNCHANGED <<helper, watchers, serviceVars, down, backendVars, starts, outcomes, shown,
                 inUse>>

\* The connection is lost, or a connectedChanged handler closes it.  A bootstrap
\* that waits is refused with "Disconnected"; the slots of connectedChanged find
\* the service down and do nothing.
onDisconnected ==
  /\ m_connected
  /\ m_connected' = FALSE
  /\ up' = <<>> /\ down' = <<>>
  /\ served' = {}
  /\ UNCHANGED <<helper, watchers, m_subscribedTopics, conn, stackVars, version,
                 starts, outcomes, shown, inUse>>

dispatchMessage ==
  /\ ~inOnConnected
  /\ down # <<>>
  /\ down' = Tail(down)
  /\ bootstrapAnswered(Head(down)) \/ publishReceived(Head(down))
  /\ UNCHANGED <<serviceVars, stackVars, up, backendVars, starts, inUse>>

Current(t) == [topic |-> t, version |-> version[t]]

\* The server reads a request; its handler for a bootstrap may refuse.
processRequest ==
  LET request == Head(up) IN
  /\ up # <<>>
  /\ up' = Tail(up)
  /\ \/ request.kind = "subscribe" /\ served' = served \cup request.topics /\ UNCHANGED down
     \/ request.kind = "unsubscribe" /\ served' = served \ request.topics /\ UNCHANGED down
     \/ /\ request.kind = "get"
        /\ \/ down' = Append(down, [kind |-> "data", by |-> request.by,
                                     data |-> Current(starts[request.by].topic)])
           \/ down' = Append(down, [kind |-> "refusal", by |-> request.by, data |-> NoData])
        /\ UNCHANGED served
  /\ UNCHANGED <<helper, watchers, serviceVars, stackVars, version, starts, outcomes, shown,
                 inUse>>

\* The backend's data changes, and is published.
publish(t) ==
  /\ version[t] < MaxChanges
  /\ version' = [version EXCEPT ![t] = @ + 1]
  /\ down' = IF t \in served
             THEN Append(down, [kind |-> "publish", data |-> [topic |-> t, version |-> version[t] + 1]])
             ELSE down
  /\ UNCHANGED <<helper, watchers, serviceVars, stackVars, up, served, starts, outcomes, shown,
                 inUse>>

----------------------------------------------------------------------------

LoopStep == resubscribeAll \/ \E w \in Starts : connectedChanged(w)

Next ==
  \/ \E use \in Uses : start(use[1], use[2], use[3])
  \/ \E h \in Helpers : stop(h) \/ timeout(h)
  \/ LoopStep
  \/ onConnected \/ onDisconnected \/ dispatchMessage \/ processRequest
  \/ \E t \in Topics : publish(t)

Spec == Init /\ [][Next]_helperVars

\* Handlers return, and a timer that is not stopped fires.
Fairness ==
  /\ WF_helperVars(LoopStep)
  /\ \A h \in Helpers : WF_helperVars(timeout(h))

FairSpec == Spec /\ Fairness

----------------------------------------------------------------------------
(* Properties. *)

Completed(s) == \E i \in 1..Len(outcomes[s]) : outcomes[s][i] = "completed"
IsInUse(s) == inUse[starts[s].helper] = s

\* A startup reports once, that it completed or that it timed out: when the
\* answer races the timer, when connections that start() forgot bootstrap again,
\* when an answer meets a later startup.
OneOutcome == \A s \in Starts : Len(outcomes[s]) <= 1

\* A helper that was stopped, or started again, gives nothing more to the handler
\* it had, and signals nothing for that start: late answers and publishes
\* included.
OnlyUsersAreServed ==
  [][\A s \in 1..Len(starts) : ~IsInUse(s) =>
       shown'[s] = shown[s] /\ outcomes'[s] = outcomes[s]]_helperVars

\* A handler is given data of its own topic only, if no bootstrap of an earlier
\* start of its helper was waiting for its answer.
OwnTopicOnly ==
  \A s \in 1..Len(starts) :
    starts[s].clean /\ shown[s] # NoData => shown[s].topic = starts[s].topic

\* A startup with a bootstrap that reports completion has given its handler the
\* data, under the same condition.
CompletedHasData ==
  \A s \in 1..Len(starts) :
    starts[s].clean /\ starts[s].method = "Get" /\ Completed(s) => shown[s] # NoData

\* Nothing that concerns the connection is under way.
Quiet == m_connected /\ ~inOnConnected /\ up = <<>> /\ down = <<>>

OnlyUser(h, t) == \A s \in 1..Len(starts) : starts[s].topic = t => starts[s].helper = h

HasCurrentData(s) == shown[s] = Current(starts[s].topic)

Settled(s) ==
  /\ IsInUse(s)
  /\ starts[s].clean /\ starts[s].method = "Get" /\ Completed(s)
  /\ OnlyUser(starts[s].helper, starts[s].topic)

\* Once a startup has completed and nothing is under way, its handler has seen the
\* backend's current data, whatever changed while it was starting: if it was
\* started on the connection that is up, and is the only user of its topic.
UpToDate ==
  Quiet => \A s \in 1..Len(starts) :
             Settled(s) /\ starts[s].since = conn => HasCurrentData(s)

\* The same of any startup that completed: one made before the connection came up,
\* or on an earlier connection, too.
AlwaysUpToDate == Quiet => \A s \in 1..Len(starts) : Settled(s) => HasCurrentData(s)

\* Every startup ends: it completes, times out, or is stopped, with or without a
\* connection, a server that answers, or a bootstrap that succeeds.
StartupEnds ==
  \A h \in Helpers : helper[h].m_startupInProgress ~> ~helper[h].m_startupInProgress
=============================================================================
