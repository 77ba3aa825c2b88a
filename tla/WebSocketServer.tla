-------------------------- MODULE WebSocketServer --------------------------
(***************************************************************************)
(* Server::Service (websocket/server/Service.cpp): accepts WebSocket       *)
(* clients, answers their requests through registered handlers, keeps the  *)
(* topics each client subscribes to, and publishes to the subscribers, on  *)
(* demand and on timers.                                                   *)
(*                                                                         *)
(* All code runs on one event loop: an action is a slot or a public        *)
(* operation, with the handlers it calls.  A handler is a name for what it *)
(* does to the service: see MethodHandlerKinds.                            *)
(*                                                                         *)
(* A definition X_Y is X with the mistake Y, used by no specification.     *)
(***************************************************************************)
EXTENDS Frame, SequencesExt

CONSTANTS
  Sockets,          \* connections that clients may establish, each once
  Ports,            \* ports the application asks to listen on
  Methods,          \* methods the application registers handlers for
  Topics,           \* topics the application publishes and handles
  MethodHandlers,   \* the handlers it registers
  PublishHandlers,
  Publishers,
  Inbound,          \* frames clients send
  MaxReceived,      \* bound: frames received on a connection
  MaxPublications,  \* bound: frames published
  MaxTimers         \* bound: registerPeriodicPublisher() calls

\* "empty" is an empty std::function.  "announces" publishes AnnouncedTopic
\* before it answers; "refusesSilently" fails with an empty error message.
MethodHandlerKinds == {"empty", "answers", "announces", "refuses", "refusesSilently"}
PublishHandlerKinds == {"empty", "keeps", "relays"}   \* "relays" publishes what it is given
PublisherKinds == {"empty", "reports"}
AnnouncedTopic == "Configuration"

ASSUME ServerAssumption ==
  /\ Methods \subseteq allMethods
  /\ AnnouncedTopic \in Topics
  /\ Topics \subseteq allTopics
  /\ MethodHandlers \subseteq MethodHandlerKinds
  /\ PublishHandlers \subseteq PublishHandlerKinds
  /\ Publishers \subseteq PublisherKinds
  /\ MaxReceived \in Nat
  /\ MaxPublications \in Nat
  /\ MaxTimers \in Nat

VARIABLES
  m_servers,             \* ports listened on
  m_clients,             \* connected sockets
  m_subscriptions,       \* socket -> topics
  m_methodHandlers,      \* method -> handler
  m_publishHandlers,     \* topic -> handler
  m_periodicPublishers,  \* topic -> its publisher and its timer
  timers,                \* running timers: number -> topic of its timeout handler
  timersMade,            \* QTimer objects created
  received,              \* for each socket, the frames it delivered
  sent,                  \* for each socket, the frames the service sent on it
  published              \* each publication: its topic, and where it falls in each client's log

registrations == <<m_methodHandlers, m_publishHandlers, m_periodicPublishers, timers, timersMade>>
clientVars == <<m_clients, m_subscriptions>>
logs == <<received, sent, published>>
serverVars == <<m_servers, clientVars, registrations, logs>>

Empty == [k \in {} |-> k]

Init ==
  /\ m_servers = <<>>
  /\ m_clients = {}
  /\ m_subscriptions = Empty
  /\ m_methodHandlers = Empty
  /\ m_publishHandlers = Empty
  /\ m_periodicPublishers = Empty
  /\ timers = Empty
  /\ timersMade = 0
  /\ received = [s \in Sockets |-> <<>>]
  /\ sent = [s \in Sockets |-> <<>>]
  /\ published = <<>>

Put(table, key, value) == [k \in DOMAIN table \cup {key} |-> IF k = key THEN value ELSE table[k]]
Without(table, key) == Restrict(table, DOMAIN table \ {key})

----------------------------------------------------------------------------
(* Sending. *)

Subscribed_ToAnyTopic(s, t) == m_subscriptions[s] # {}
Subscribed(s, t) == t \in m_subscriptions[s]

\* The logs after publication number Len(published) + 1, on topic t: its frame is
\* the last of each subscriber's, its params are its number.
Delivered(t) ==
  [s \in Sockets |->
     IF s \in m_clients /\ Subscribed(s, t)
     THEN Append(sent[s], buildPublish(t, AppObject(Len(published) + 1)))
     ELSE sent[s]]

Publication(t) == [topic |-> t, at |-> [s \in m_clients |-> Len(sent[s])]]

RecordPublication(t) ==
  /\ Len(published) < MaxPublications
  /\ published' = Append(published, Publication(t))

publishToSubscribed(t) == RecordPublication(t) /\ sent' = Delivered(t)

Reply(log, s, frame) == [log EXCEPT ![s] = Append(@, frame)]

\* sendJson of an answer, when nothing was published on the way to it.
sendJson(s, frame) == sent' = Reply(sent, s, frame) /\ UNCHANGED published

----------------------------------------------------------------------------
(* Connections. *)

\* All ports or none: a port that is taken, by another process or by the list
\* itself, closes those opened before it.  Clients stay connected.
start(ports, busy) ==
  /\ ports # <<>>
  /\ \/ IsInjective(ports) /\ ToSet(ports) \cap busy = {} /\ m_servers' = ports
     \/ ~(IsInjective(ports) /\ ToSet(ports) \cap busy = {}) /\ m_servers' = <<>>
  /\ UNCHANGED <<clientVars, registrations, logs>>

Gone(s) == s \notin m_clients /\ (received[s] # <<>> \/ sent[s] # <<>>)

\* A connection accepted by a listener, or handed over after its upgrade by
\* attachUpgradedSocket.
onNewConnection(s) ==
  /\ s \notin m_clients /\ ~Gone(s)
  /\ m_clients' = m_clients \cup {s}
  /\ m_subscriptions' = Put(m_subscriptions, s, {})
  /\ UNCHANGED <<m_servers, registrations, logs>>

acceptFromListener(s) == m_servers # <<>> /\ onNewConnection(s)
attachUpgradedSocket(s) == onNewConnection(s)

ForgetClient_KeepsTopics(s) == UNCHANGED m_subscriptions
ForgetClient(s) == m_subscriptions' = Without(m_subscriptions, s)

onSocketDisconnected(s) ==
  /\ s \in m_clients
  /\ m_clients' = m_clients \ {s}
  /\ ForgetClient(s)
  /\ UNCHANGED <<m_servers, registrations, logs>>

\* The service is destroyed, with its sockets, listeners and timers, and another
\* is made.
restart ==
  /\ m_servers' = <<>>
  /\ m_clients' = {}
  /\ m_subscriptions' = Empty
  /\ m_methodHandlers' = Empty
  /\ m_publishHandlers' = Empty
  /\ m_periodicPublishers' = Empty
  /\ timers' = Empty
  /\ UNCHANGED <<timersMade, logs>>

----------------------------------------------------------------------------
(* A frame arrives. *)

RequestLike(message) == ~isPublish(message) /\ (isRequest(message) \/ message.method # NoText)

RequestedTopic(message) == topicFromString(TopicMember(parseParams(message)))

SubscribeTopic(s, message) ==
  LET t == RequestedTopic(message) IN
  /\ parseMethod(message) = "Subscribe"
  /\ \/ /\ t = "UnknownTopic"
        /\ sendJson(s, buildErrorResponse(parseId(message), "Invalid topic"))
        /\ UNCHANGED m_subscriptions
     \/ /\ t # "UnknownTopic"
        /\ m_subscriptions' = [m_subscriptions EXCEPT ![s] = @ \cup {t}]
        /\ sendJson(s, buildResponse(parseId(message), TextObject("subscribed", topicToString(t))))

Remaining_All(s, t) == m_subscriptions[s]
Remaining(s, t) == m_subscriptions[s] \ {t}

\* An unknown topic is confirmed like any other.
UnsubscribeTopic(s, message) ==
  LET t == RequestedTopic(message) IN
  /\ parseMethod(message) = "Unsubscribe"
  /\ m_subscriptions' = [m_subscriptions EXCEPT ![s] = Remaining(s, t)]
  /\ sendJson(s, buildResponse(parseId(message), TextObject("unsubscribed", topicToString(t))))

ErrorText_AsReturned(handler) == IF handler = "refuses" THEN "Refused" ELSE NoText
ErrorText(handler) == IF handler = "refuses" THEN "Refused" ELSE "Request failed"

HandlerReply_NoResult(handler, message) ==
  IF handler \in {"answers", "announces"}
  THEN buildResponse(parseId(message), EmptyObject)
  ELSE buildErrorResponse(parseId(message), ErrorText(handler))

HandlerReply_ErrorWithoutId(handler, message) ==
  IF handler \in {"answers", "announces"}
  THEN buildResponse(parseId(message), ResultOf(parseParams(message)))
  ELSE buildErrorResponse(NoId, ErrorText(handler))

HandlerReply(handler, message) ==
  IF handler \in {"answers", "announces"}
  THEN buildResponse(parseId(message), ResultOf(parseParams(message)))
  ELSE buildErrorResponse(parseId(message), ErrorText(handler))

CallHandler(s, message) ==
  LET method == parseMethod(message)
      handler == IF method \in DOMAIN m_methodHandlers THEN m_methodHandlers[method] ELSE "empty" IN
  /\ method \notin {"Subscribe", "Unsubscribe"}
  /\ UNCHANGED m_subscriptions
  /\ \/ /\ handler = "empty"
        /\ sendJson(s, buildErrorResponse(parseId(message), "Method not found"))
     \/ /\ handler \in {"answers", "refuses", "refusesSilently"}
        /\ sendJson(s, HandlerReply(handler, message))
     \/ /\ handler = "announces"
        /\ RecordPublication(AnnouncedTopic)
        /\ sent' = Reply(Delivered(AnnouncedTopic), s, HandlerReply(handler, message))

processRequest(s, message) ==
  /\ isValidId(parseId(message))
  /\ SubscribeTopic(s, message) \/ UnsubscribeTopic(s, message) \/ CallHandler(s, message)

handlePublish(message) ==
  LET t == parseTopic(message) IN
  \/ t \in DOMAIN m_publishHandlers /\ m_publishHandlers[t] = "relays" /\ publishToSubscribed(t)
  \/ /\ t \in DOMAIN m_publishHandlers => m_publishHandlers[t] # "relays"
     /\ UNCHANGED <<sent, published>>

onTextMessageReceived(s, message) ==
  /\ s \in m_clients
  /\ Len(received[s]) < MaxReceived
  /\ received' = [received EXCEPT ![s] = Append(@, message)]
  /\ \/ isPublish(message) /\ handlePublish(message) /\ UNCHANGED m_subscriptions
     \/ RequestLike(message) /\ processRequest(s, message)
     \/ /\ RequestLike(message) /\ ~isValidId(parseId(message))
        /\ sendJson(s, buildErrorResponse(NoId, "Invalid request id"))
        /\ UNCHANGED m_subscriptions
     \/ /\ ~isPublish(message) /\ ~RequestLike(message)
        /\ UNCHANGED <<m_subscriptions, sent, published>>
  /\ UNCHANGED <<m_servers, m_clients, registrations>>

----------------------------------------------------------------------------
(* Registration and publication. *)

registerMethodHandler(method, handler) ==
  /\ m_methodHandlers' = Put(m_methodHandlers, method, handler)
  /\ UNCHANGED <<m_servers, clientVars, m_publishHandlers, m_periodicPublishers, timers,
                 timersMade, logs>>

registerPublishHandler(t, handler) ==
  /\ m_publishHandlers' = Put(m_publishHandlers, t, handler)
  /\ UNCHANGED <<m_servers, clientVars, m_methodHandlers, m_periodicPublishers, timers,
                 timersMade, logs>>

OtherTimers_All(t) == timers
OtherTimers(t) ==
  IF t \in DOMAIN m_periodicPublishers THEN Without(timers, m_periodicPublishers[t].timer) ELSE timers

\* The timer of an earlier registration stops; the new one starts.
registerPeriodicPublisher(t, publisher) ==
  LET timer == timersMade + 1 IN
  /\ timer <= MaxTimers
  /\ timersMade' = timer
  /\ timers' = Put(OtherTimers(t), timer, t)
  /\ m_periodicPublishers' = Put(m_periodicPublishers, t, [publisher |-> publisher, timer |-> timer])
  /\ UNCHANGED <<m_servers, clientVars, m_methodHandlers, m_publishHandlers, logs>>

\* A timer fires.  Its handler knows the topic, not the registration it was made for.
timeout(timer) ==
  LET t == timers[timer] IN
  /\ timer \in DOMAIN timers
  /\ t \in DOMAIN m_periodicPublishers /\ m_periodicPublishers[t].publisher = "reports"
  /\ publishToSubscribed(t)
  /\ UNCHANGED <<m_servers, clientVars, registrations, received>>

publish(t) ==
  /\ publishToSubscribed(t)
  /\ UNCHANGED <<m_servers, clientVars, registrations, received>>

\* A request that comes from no socket: its handler may publish.
processRequestForTest(method) ==
  /\ method \in DOMAIN m_methodHandlers /\ m_methodHandlers[method] = "announces"
  /\ publish(AnnouncedTopic)

----------------------------------------------------------------------------

\* A list of one port, and of two.
PortLists == {<<p>> : p \in Ports} \cup (Ports \X Ports)

ConnectionStep ==
  \/ \E ports \in PortLists, busy \in SUBSET Ports : start(ports, busy)
  \/ restart
  \/ \E s \in Sockets : acceptFromListener(s) \/ attachUpgradedSocket(s) \/ onSocketDisconnected(s)

ApplicationStep ==
  \/ \E method \in Methods, handler \in MethodHandlers : registerMethodHandler(method, handler)
  \/ \E t \in Topics :
       \/ \E handler \in PublishHandlers : registerPublishHandler(t, handler)
       \/ \E publisher \in Publishers : registerPeriodicPublisher(t, publisher)
       \/ publish(t)
  \/ \E method \in Methods : processRequestForTest(method)

Next ==
  \/ ConnectionStep
  \/ ApplicationStep
  \/ \E timer \in DOMAIN timers : timeout(timer)
  \/ \E s \in Sockets, message \in Inbound : onTextMessageReceived(s, message)

Spec == Init /\ [][Next]_serverVars

----------------------------------------------------------------------------
(* Properties. *)

TypeOK ==
  /\ m_servers \in Seq(Ports)
  /\ m_clients \subseteq Sockets
  /\ m_subscriptions \in [m_clients -> SUBSET allTopics]
  /\ DOMAIN m_methodHandlers \subseteq Methods
  /\ m_methodHandlers \in [DOMAIN m_methodHandlers -> MethodHandlers]
  /\ DOMAIN m_publishHandlers \subseteq Topics
  /\ m_publishHandlers \in [DOMAIN m_publishHandlers -> PublishHandlers]
  /\ DOMAIN m_periodicPublishers \subseteq Topics
  /\ m_periodicPublishers \in
       [DOMAIN m_periodicPublishers -> [publisher : Publishers, timer : 1..timersMade]]
  /\ timersMade \in 0..MaxTimers
  /\ DOMAIN timers \subseteq 1..timersMade
  /\ timers \in [DOMAIN timers -> Topics]
  /\ received \in [Sockets -> Seq(Inbound)]
  /\ \A s \in Sockets : \A i \in 1..Len(sent[s]) : isResponse(sent[s][i]) \/ isPublish(sent[s][i])
  /\ \A n \in 1..Len(published) : published[n].topic \in Topics

\* What the first n frames of a log tell a client of its subscription to t.
Confirmations(log, t, n) ==
  {i \in 1..n : log[i].result \in {TextObject(m, topicToString(t)) : m \in {"subscribed", "unsubscribed"}}}

Told(log, t, n) ==
  \E i \in Confirmations(log, t, n) :
    /\ log[i].result.member = "subscribed"
    /\ \A j \in Confirmations(log, t, n) : j <= i

\* A publication reaches exactly the clients that, by the answers they were sent,
\* are subscribed to its topic at that moment: no subscriber misses one, nobody
\* gets one before the confirmation or after the cancellation, and publications
\* arrive in the order they were made.
PublishesReachSubscribers ==
  \A n \in 1..Len(published), s \in Sockets :
    LET t == published[n].topic
        at == published[n].at IN
    {i \in 1..Len(sent[s]) : sent[s][i] = buildPublish(t, AppObject(n))} =
      IF s \in DOMAIN at /\ Told(sent[s], t, at[s]) THEN {at[s] + 1} ELSE {}

\* Where the requests are among the frames received, and the answers in a log.
RequestsIn(frames) == {i \in 1..Len(frames) : RequestLike(frames[i])}
AnswersIn(log) == {i \in 1..Len(log) : isResponse(log[i])}

Answered(frames, log) ==
  \E answer \in Surjection(RequestsIn(frames), AnswersIn(log)) :
    \A i \in RequestsIn(frames) :
      /\ log[answer[i]].id = IF isValidId(frames[i].id) THEN frames[i].id ELSE NoId
      /\ \A j \in RequestsIn(frames) : i < j => answer[i] < answer[j]

\* A client gets one answer to each request, in the order of the requests,
\* with its id, whatever handlers publish in between; and to nothing else.
RepliesMatchRequests == \A s \in Sockets : Answered(received[s], sent[s])

\* An answer without an error message, which the client takes for success, holds
\* a result: it comes from a handler that accepted the request, with params or
\* without, or confirms a topic.
RefusalsNameAnError ==
  \A s \in Sockets : \A i \in 1..Len(sent[s]) :
    isResponse(sent[s][i]) /\ sent[s][i].error = NoText => sent[s][i].result # EmptyObject

\* A topic has the timer of its registration and no other, however often it is
\* registered: nothing is published at a rate nobody asked for.
OneTimerPerTopic ==
  \A t \in Topics :
    {timer \in DOMAIN timers : timers[timer] = t} =
      IF t \in DOMAIN m_periodicPublishers THEN {m_periodicPublishers[t].timer} ELSE {}
=============================================================================
