----------------------- MODULE WebSocketServerProofs -----------------------
(***************************************************************************)
(* Theorems about WebSocketServer, for every value of its constants: any   *)
(* frame a client may send, any number of clients, handlers and timers.    *)
(*                                                                         *)
(* TypeInv adds to the types what the service can put in a frame.          *)
(***************************************************************************)
EXTENDS WebSocketServer, SequenceTheorems, TLAPS

\* What an answer is made of, and the frames that the service sends.
Ids == {parseId(message) : message \in Inbound} \cup {NoId}
Results ==
  {ResultOf(parseParams(message)) : message \in {m \in Inbound : RequestLike(m)}}
    \cup {TextObject(m, topicToString(t)) : m \in {"subscribed", "unsubscribed"},
                                            t \in allTopics \cup {"UnknownTopic"}}
Errors == {"Invalid topic", "Method not found", "Invalid request id", "Refused", "Request failed"}

Answers == {buildResponse(id, result) : id \in Ids, result \in Results}
             \cup {buildErrorResponse(id, error) : id \in Ids, error \in Errors}
Publications == {buildPublish(t, AppObject(n)) : t \in Topics, n \in Nat}
Sendable == Answers \cup Publications

\* A publication, with the clients of its moment.
Entries == [topic : Topics, at : UNION {[clients -> Nat] : clients \in SUBSET Sockets}]

LogsTyped ==
  /\ sent \in [Sockets -> Seq(Sendable)]
  /\ published \in Seq(Entries)

TypeInv == TypeOK /\ LogsTyped

----------------------------------------------------------------------------
(* Frames. *)

\* The wire names of the message types.
LEMMA WireTypes ==
  /\ DOMAIN MessageTypeNames = {"Request", "Response", "Publish"}
  /\ MessageTypeNames["Response"] = "response"
  /\ MessageTypeNames["Publish"] = "publish"
  /\ MessageTypeNames["Request"] = "request"
BY DEF MessageTypeNames

\* A type reads back as it was written.
LEMMA TypesReadBack ==
  /\ messageTypeFromString(messageTypeToString("Response")) = "Response"
  /\ messageTypeFromString(messageTypeToString("Publish")) = "Publish"
BY WireTypes DEF messageTypeFromString, messageTypeToString, ToWire, FromWire

\* A topic read from a text is one of the enumerators.
LEMMA TopicsRead == \A text : topicFromString(text) \in allTopics \cup {"UnknownTopic"}
BY DEF topicFromString, FromWire, allTopics

\* What the service sends is an answer or a publication.
LEMMA SendableTypes == \A frame \in Sendable : isResponse(frame) \/ isPublish(frame)
<1>1. ASSUME NEW frame \in Answers PROVE isResponse(frame)
  <2>1. frame.type = messageTypeToString("Response")
    BY DEF Answers, buildResponse, buildErrorResponse
  <2> QED
    BY <2>1, TypesReadBack DEF isResponse
<1>2. ASSUME NEW frame \in Publications PROVE isPublish(frame)
  <2>1. frame.type = messageTypeToString("Publish")
    BY DEF Publications, buildPublish
  <2> QED
    BY <2>1, TypesReadBack DEF isPublish
<1> QED
  BY <1>1, <1>2 DEF Sendable

\* The frames that the handlers of a request send are answers of the service.
LEMMA AnswersSendable ==
  /\ \A id \in Ids, result \in Results : buildResponse(id, result) \in Sendable
  /\ \A id \in Ids, error \in Errors : buildErrorResponse(id, error) \in Sendable
  /\ \A t \in Topics, n \in Nat : buildPublish(t, AppObject(n)) \in Sendable
BY DEF Sendable, Answers, Publications

\* What a handler leads to is an answer of the service.
LEMMA HandlerReplySendable ==
  ASSUME NEW message \in Inbound, RequestLike(message), NEW handler
  PROVE  HandlerReply(handler, message) \in Sendable
<1>1. parseId(message) \in Ids /\ ResultOf(parseParams(message)) \in Results
  BY DEF Ids, Results
<1>2. ErrorText(handler) \in Errors
  BY DEF ErrorText, Errors
<1> QED
  BY <1>1, <1>2, AnswersSendable DEF HandlerReply

----------------------------------------------------------------------------
(* Tables and logs. *)

\* A table with nothing in it.
LEMMA EmptyTyped == DOMAIN Empty = {} /\ \A values : Empty \in [{} -> values]
BY DEF Empty

\* An answer keeps the types.
LEMMA ReplyTyped ==
  ASSUME NEW log \in [Sockets -> Seq(Sendable)], NEW s \in Sockets, NEW frame \in Sendable
  PROVE  Reply(log, s, frame) \in [Sockets -> Seq(Sendable)]
<1>1. Append(log[s], frame) \in Seq(Sendable)
  BY AppendProperties
<1> QED
  BY <1>1 DEF Reply

\* A publication adds its frame to logs and its entry to the list.
LEMMA PublicationTyped ==
  ASSUME TypeInv, NEW t \in Topics, RecordPublication(t)
  PROVE  Delivered(t) \in [Sockets -> Seq(Sendable)] /\ published' \in Seq(Entries)
<1>1. sent \in [Sockets -> Seq(Sendable)] /\ published \in Seq(Entries) /\ m_clients \subseteq Sockets
  BY DEF TypeInv, LogsTyped, TypeOK
<1>2. Len(published) + 1 \in Nat
  BY <1>1, LenProperties
<1> DEFINE frame == buildPublish(t, AppObject(Len(published) + 1))
<1>3. frame \in Sendable
  BY <1>2, AnswersSendable
<1> HIDE DEF frame
<1>4. Delivered(t) = [s \in Sockets |-> IF s \in m_clients /\ Subscribed(s, t)
                                        THEN Append(sent[s], frame) ELSE sent[s]]
  BY DEF Delivered, frame
<1>5. \A s \in Sockets : Append(sent[s], frame) \in Seq(Sendable)
  BY <1>1, <1>3, AppendProperties
<1>6. Publication(t) \in Entries
  <2> DEFINE at == [s \in m_clients |-> Len(sent[s])]
  <2>1. at \in [m_clients -> Nat]
    BY <1>1, LenProperties
  <2>2. at \in UNION {[clients -> Nat] : clients \in SUBSET Sockets}
    BY <1>1, <2>1
  <2>3. Publication(t) = [topic |-> t, at |-> at]
    BY DEF Publication
  <2> HIDE DEF at
  <2> QED
    BY <2>2, <2>3 DEF Entries
<1>7. published' \in Seq(Entries)
  BY <1>1, <1>6, AppendProperties DEF RecordPublication
<1> QED
  BY <1>1, <1>4, <1>5, <1>7

\* A publication keeps the types.
LEMMA PublishToSubscribedTyped ==
  ASSUME TypeInv, NEW t \in Topics, publishToSubscribed(t)
  PROVE  LogsTyped'
BY PublicationTyped DEF publishToSubscribed, LogsTyped

\* Sending an answer keeps the types.
LEMMA SendJsonTyped ==
  ASSUME TypeInv, NEW s \in Sockets, NEW frame \in Sendable, sendJson(s, frame)
  PROVE  LogsTyped'
BY ReplyTyped DEF sendJson, TypeInv, LogsTyped

\* What LogsTyped says of the types that TypeOK lists.
LogsSound ==
  /\ \A s \in Sockets : \A i \in 1..Len(sent[s]) : isResponse(sent[s][i]) \/ isPublish(sent[s][i])
  /\ \A n \in 1..Len(published) : published[n].topic \in Topics

\* Logs of sendable frames have the types that TypeOK asks for.
LEMMA LogsGiveTypes == LogsTyped => LogsSound
<1> SUFFICES ASSUME LogsTyped PROVE LogsSound
  OBVIOUS
<1>1. \A s \in Sockets : \A i \in 1..Len(sent[s]) : sent[s][i] \in Sendable
  BY ElementOfSeq DEF LogsTyped
<1>2. \A n \in 1..Len(published) : published[n] \in Entries
  BY ElementOfSeq DEF LogsTyped
<1> QED
  BY <1>1, <1>2, SendableTypes DEF Entries, LogsSound

----------------------------------------------------------------------------
(* Every step keeps the types. *)

\* The part of TypeOK that a frame, and the answer to it, can disturb.
LEMMA FrameTyped ==
  ASSUME TypeInv, NEW s \in m_clients, NEW message \in Inbound,
         onTextMessageReceived(s, message)
  PROVE  LogsTyped' /\ m_subscriptions' \in [m_clients -> SUBSET allTopics]
<1>1. /\ s \in Sockets /\ m_subscriptions \in [m_clients -> SUBSET allTopics] /\ LogsTyped
      /\ parseId(message) \in Ids /\ NoId \in Ids
      /\ m_methodHandlers \in [DOMAIN m_methodHandlers -> MethodHandlers]
  BY DEF TypeInv, TypeOK, Ids
<1>2. CASE isPublish(message) /\ handlePublish(message) /\ UNCHANGED m_subscriptions
  <2> DEFINE t == parseTopic(message)
  <2>1. CASE t \in DOMAIN m_publishHandlers /\ publishToSubscribed(t)
    <3>1. t \in Topics
      BY <2>1 DEF TypeInv, TypeOK
    <3> HIDE DEF t
    <3> QED
      BY <1>1, <1>2, <2>1, <3>1, PublishToSubscribedTyped
  <2>2. CASE UNCHANGED <<sent, published>>
    BY <1>1, <1>2, <2>2 DEF LogsTyped
  <2> QED
    BY <1>2, <2>1, <2>2 DEF handlePublish
<1>3. CASE /\ sendJson(s, buildErrorResponse(NoId, "Invalid request id"))
           /\ UNCHANGED m_subscriptions
  <2>1. buildErrorResponse(NoId, "Invalid request id") \in Sendable
    BY <1>1, AnswersSendable DEF Errors
  <2> QED
    BY <1>1, <1>3, <2>1, SendJsonTyped
<1>4. CASE UNCHANGED <<m_subscriptions, sent, published>>
  BY <1>1, <1>4 DEF LogsTyped
<1>5. CASE SubscribeTopic(s, message)
  <2> DEFINE t == RequestedTopic(message)
  <2>1. t \in allTopics \cup {"UnknownTopic"}
    BY TopicsRead DEF RequestedTopic
  <2>2. CASE /\ t = "UnknownTopic"
             /\ sendJson(s, buildErrorResponse(parseId(message), "Invalid topic"))
             /\ UNCHANGED m_subscriptions
    <3>1. buildErrorResponse(parseId(message), "Invalid topic") \in Sendable
      BY <1>1, AnswersSendable DEF Errors
    <3> QED
      BY <1>1, <2>2, <3>1, SendJsonTyped
  <2>3. CASE /\ t # "UnknownTopic"
             /\ m_subscriptions' = [m_subscriptions EXCEPT ![s] = @ \cup {t}]
             /\ sendJson(s, buildResponse(parseId(message), TextObject("subscribed", topicToString(t))))
    <3> HIDE DEF t
    <3>1. TextObject("subscribed", topicToString(t)) \in Results
      BY <2>1 DEF Results
    <3>2. buildResponse(parseId(message), TextObject("subscribed", topicToString(t))) \in Sendable
      BY <1>1, <3>1, AnswersSendable
    <3>3. LogsTyped'
      BY <1>1, <2>3, <3>2, SendJsonTyped
    <3> QED
      BY <1>1, <2>1, <2>3, <3>3
  <2> QED
    BY <1>5, <2>2, <2>3 DEF SubscribeTopic
<1>6. CASE UnsubscribeTopic(s, message)
  <2> DEFINE t == RequestedTopic(message)
  <2>1. t \in allTopics \cup {"UnknownTopic"}
    BY TopicsRead DEF RequestedTopic
  <2>2. /\ m_subscriptions' = [m_subscriptions EXCEPT ![s] = m_subscriptions[s] \ {t}]
        /\ sendJson(s, buildResponse(parseId(message), TextObject("unsubscribed", topicToString(t))))
    BY <1>6 DEF UnsubscribeTopic, Remaining
  <2> HIDE DEF t
  <2>3. TextObject("unsubscribed", topicToString(t)) \in Results
    BY <2>1 DEF Results
  <2>4. buildResponse(parseId(message), TextObject("unsubscribed", topicToString(t))) \in Sendable
    BY <1>1, <2>3, AnswersSendable
  <2>5. LogsTyped'
    BY <1>1, <2>2, <2>4, SendJsonTyped
  <2> QED
    BY <1>1, <2>2, <2>5
<1>7. CASE RequestLike(message) /\ CallHandler(s, message)
  <2> DEFINE method == parseMethod(message)
             handler == IF method \in DOMAIN m_methodHandlers THEN m_methodHandlers[method] ELSE "empty"
  <2>0. UNCHANGED m_subscriptions
    BY <1>7 DEF CallHandler
  <2>1. HandlerReply(handler, message) \in Sendable
    BY <1>7, HandlerReplySendable
  <2>2. CASE sendJson(s, buildErrorResponse(parseId(message), "Method not found"))
    <3>1. buildErrorResponse(parseId(message), "Method not found") \in Sendable
      BY <1>1, AnswersSendable DEF Errors
    <3> QED
      BY <1>1, <2>0, <2>2, <3>1, SendJsonTyped
  <2>3. CASE sendJson(s, HandlerReply(handler, message))
    <3> HIDE DEF handler
    <3> QED
      BY <1>1, <2>0, <2>1, <2>3, SendJsonTyped
  <2>4. CASE /\ RecordPublication(AnnouncedTopic)
             /\ sent' = Reply(Delivered(AnnouncedTopic), s, HandlerReply(handler, message))
    <3> HIDE DEF handler
    <3>1. AnnouncedTopic \in Topics
      BY ServerAssumption
    <3>2. Delivered(AnnouncedTopic) \in [Sockets -> Seq(Sendable)] /\ published' \in Seq(Entries)
      BY <2>4, <3>1, PublicationTyped
    <3>3. sent' \in [Sockets -> Seq(Sendable)]
      BY <1>1, <2>1, <2>4, <3>2, ReplyTyped
    <3> QED
      BY <1>1, <2>0, <3>2, <3>3 DEF LogsTyped
  <2> QED
    BY <1>7, <2>2, <2>3, <2>4 DEF CallHandler
<1> QED
  BY <1>2, <1>3, <1>4, <1>5, <1>6, <1>7 DEF onTextMessageReceived, processRequest

\* Reading a frame keeps the types, whatever its handler does.
LEMMA ReceiveTyped ==
  ASSUME TypeInv, NEW s \in Sockets, NEW message \in Inbound, onTextMessageReceived(s, message)
  PROVE  TypeInv'
<1>1. /\ s \in m_clients /\ UNCHANGED <<m_servers, m_clients, registrations>>
      /\ received' = [received EXCEPT ![s] = Append(@, message)]
  BY DEF onTextMessageReceived
<1>2. LogsTyped' /\ m_subscriptions' \in [m_clients -> SUBSET allTopics]
  BY <1>1, FrameTyped
<1>3. received' \in [Sockets -> Seq(Inbound)]
  <2>1. received \in [Sockets -> Seq(Inbound)]
    BY DEF TypeInv, TypeOK
  <2>2. Append(received[s], message) \in Seq(Inbound)
    BY <2>1, AppendProperties
  <2> QED
    BY <1>1, <2>1, <2>2
<1>4. LogsSound'
  BY <1>2, LogsGiveTypes, PTL
<1>5. TypeOK'
  BY <1>1, <1>2, <1>3, <1>4 DEF TypeInv, TypeOK, LogsSound, registrations
<1> QED
  BY <1>2, <1>5 DEF TypeInv

\* Connections that come and go keep the types.
LEMMA ConnectionTyped ==
  ASSUME TypeInv, ConnectionStep
  PROVE  TypeInv'
<1>0. TypeOK /\ LogsTyped
  BY DEF TypeInv
<1>1. ASSUME NEW ports \in PortLists, NEW busy \in SUBSET Ports, start(ports, busy)
      PROVE  TypeInv'
  <2>1. ports \in Seq(Ports)
    <3>1. CASE ports \in Ports \X Ports
      <4>1. PICK p \in Ports, q \in Ports : ports = <<p, q>>
        BY <3>1
      <4>2. <<p, q>> \in Seq(Ports)
        OBVIOUS
      <4> QED
        BY <4>1, <4>2
    <3>2. CASE ports \in {<<p>> : p \in Ports}
      <4>1. PICK p \in Ports : ports = <<p>>
        BY <3>2
      <4>2. <<p>> \in Seq(Ports)
        OBVIOUS
      <4> QED
        BY <4>1, <4>2
    <3> QED
      BY <3>1, <3>2 DEF PortLists
  <2>2. m_servers' \in Seq(Ports)
    <3>1. m_servers' = ports \/ m_servers' = <<>>
      BY <1>1 DEF start
    <3>2. <<>> \in Seq(Ports)
      OBVIOUS
    <3>3. CASE m_servers' = ports
      BY <2>1, <3>3
    <3>4. CASE m_servers' = <<>>
      BY <3>2, <3>4
    <3> QED
      BY <3>1, <3>3, <3>4
  <2>3. UNCHANGED <<clientVars, registrations, logs>>
    BY <1>1 DEF start
  <2> QED
    BY <1>0, <2>2, <2>3 DEF TypeInv, TypeOK, LogsTyped, clientVars, registrations, logs
<1>2. CASE restart
  <2>1. /\ m_servers' = <<>> /\ m_clients' = {} /\ m_subscriptions' = Empty
        /\ m_methodHandlers' = Empty /\ m_publishHandlers' = Empty
        /\ m_periodicPublishers' = Empty /\ timers' = Empty
        /\ UNCHANGED <<timersMade, logs>>
    BY <1>2 DEF restart
  <2>2. m_servers' \in Seq(Ports)
    BY <2>1
  <2>3. TypeOK'
    BY <1>0, <2>1, <2>2, EmptyTyped DEF TypeOK, logs
  <2> QED
    BY <1>0, <2>1, <2>3 DEF TypeInv, LogsTyped, logs
<1>3. ASSUME NEW s \in Sockets, onNewConnection(s)
      PROVE  TypeInv'
  <2>1. /\ m_clients' = m_clients \cup {s}
        /\ m_subscriptions' = Put(m_subscriptions, s, {})
        /\ UNCHANGED <<m_servers, registrations, logs>>
    BY <1>3 DEF onNewConnection
  <2>2. m_subscriptions' \in [m_clients' -> SUBSET allTopics]
    BY <1>0, <2>1 DEF TypeOK, Put
  <2> QED
    BY <1>0, <2>1, <2>2 DEF TypeInv, TypeOK, LogsTyped, registrations, logs
<1>4. ASSUME NEW s \in Sockets, onSocketDisconnected(s)
      PROVE  TypeInv'
  <2>1. /\ m_clients' = m_clients \ {s}
        /\ m_subscriptions' = Without(m_subscriptions, s)
        /\ UNCHANGED <<m_servers, registrations, logs>>
    BY <1>4 DEF onSocketDisconnected, ForgetClient
  <2>2. m_subscriptions' \in [m_clients' -> SUBSET allTopics]
    BY <1>0, <2>1 DEF TypeOK, Without, Restrict
  <2> QED
    BY <1>0, <2>1, <2>2 DEF TypeInv, TypeOK, LogsTyped, registrations, logs
<1> QED
  BY <1>1, <1>2, <1>3, <1>4 DEF ConnectionStep, acceptFromListener, attachUpgradedSocket

\* A publication from outside a frame.
LEMMA OutsidePublishTyped ==
  ASSUME TypeInv, NEW t \in Topics, publishToSubscribed(t),
         UNCHANGED <<m_servers, clientVars, registrations, received>>
  PROVE  TypeInv'
<1>1. LogsTyped'
  BY PublishToSubscribedTyped
<1>2. LogsSound'
  BY <1>1, LogsGiveTypes, PTL
<1> QED
  BY <1>1, <1>2 DEF TypeInv, TypeOK, LogsSound, clientVars, registrations

\* Registrations keep the types.
LEMMA RegistrationTyped ==
  ASSUME TypeInv, ApplicationStep
  PROVE  TypeInv'
<1>0. TypeOK /\ LogsTyped
  BY DEF TypeInv
<1>1. ASSUME NEW method \in Methods, NEW handler \in MethodHandlers,
             registerMethodHandler(method, handler)
      PROVE  TypeInv'
  <2>1. /\ m_methodHandlers' = Put(m_methodHandlers, method, handler)
        /\ UNCHANGED <<m_servers, clientVars, m_publishHandlers, m_periodicPublishers, timers,
                       timersMade, logs>>
    BY <1>1 DEF registerMethodHandler
  <2>2. /\ DOMAIN m_methodHandlers' \subseteq Methods
        /\ m_methodHandlers' \in [DOMAIN m_methodHandlers' -> MethodHandlers]
    BY <1>0, <2>1 DEF TypeOK, Put
  <2> QED
    BY <1>0, <2>1, <2>2 DEF TypeInv, TypeOK, LogsTyped, clientVars, logs
<1>2. ASSUME NEW t \in Topics, NEW handler \in PublishHandlers, registerPublishHandler(t, handler)
      PROVE  TypeInv'
  <2>1. /\ m_publishHandlers' = Put(m_publishHandlers, t, handler)
        /\ UNCHANGED <<m_servers, clientVars, m_methodHandlers, m_periodicPublishers, timers,
                       timersMade, logs>>
    BY <1>2 DEF registerPublishHandler
  <2>2. /\ DOMAIN m_publishHandlers' \subseteq Topics
        /\ m_publishHandlers' \in [DOMAIN m_publishHandlers' -> PublishHandlers]
    BY <1>0, <2>1 DEF TypeOK, Put
  <2> QED
    BY <1>0, <2>1, <2>2 DEF TypeInv, TypeOK, LogsTyped, clientVars, logs
<1>3. ASSUME NEW t \in Topics, NEW publisher \in Publishers, registerPeriodicPublisher(t, publisher)
      PROVE  TypeInv'
  <2> DEFINE timer == timersMade + 1
             entry == [publisher |-> publisher, timer |-> timer]
             Made == [publisher : Publishers, timer : 1..timer]
  <2>1. /\ timer <= MaxTimers /\ timersMade' = timer
        /\ timers' = Put(OtherTimers(t), timer, t)
        /\ m_periodicPublishers' = Put(m_periodicPublishers, t, entry)
        /\ UNCHANGED <<m_servers, clientVars, m_methodHandlers, m_publishHandlers, logs>>
    BY <1>3 DEF registerPeriodicPublisher
  <2>2. /\ timersMade \in Nat /\ timer \in 1..timer /\ timer \in 0..MaxTimers
        /\ \A n \in 1..timersMade : n \in 1..timer
    BY <1>0, <2>1, ServerAssumption DEF TypeOK
  <2>3. entry \in Made
    BY <2>2
  <2>4. /\ DOMAIN m_periodicPublishers \subseteq Topics
        /\ m_periodicPublishers \in [DOMAIN m_periodicPublishers -> Made]
    BY <1>0, <2>2 DEF TypeOK
  <2>5. /\ DOMAIN timers \subseteq 1..timer /\ timers \in [DOMAIN timers -> Topics]
    BY <1>0, <2>2 DEF TypeOK
  <2> HIDE DEF timer, entry, Made
  <2>6. /\ DOMAIN m_periodicPublishers' \subseteq Topics
        /\ m_periodicPublishers' \in [DOMAIN m_periodicPublishers' -> Made]
    BY <2>1, <2>3, <2>4 DEF Put
  <2>7. /\ DOMAIN OtherTimers(t) \subseteq 1..timer
        /\ OtherTimers(t) \in [DOMAIN OtherTimers(t) -> Topics]
    <3>1. CASE t \in DOMAIN m_periodicPublishers
      <4>1. OtherTimers(t) = Without(timers, m_periodicPublishers[t].timer)
        BY <3>1 DEF OtherTimers
      <4> QED
        BY <2>5, <4>1 DEF Without, Restrict
    <3>2. CASE t \notin DOMAIN m_periodicPublishers
      BY <2>5, <3>2 DEF OtherTimers
    <3> QED
      BY <3>1, <3>2
  <2>8. /\ DOMAIN timers' \subseteq 1..timer
        /\ timers' \in [DOMAIN timers' -> Topics]
    BY <2>1, <2>2, <2>7 DEF Put
  <2>9. Made = [publisher : Publishers, timer : 1..timersMade']
    BY <2>1 DEF Made
  <2>10. TypeOK'
    BY <1>0, <2>1, <2>2, <2>6, <2>8, <2>9 DEF TypeOK, clientVars, logs
  <2> QED
    BY <1>0, <2>1, <2>10 DEF TypeInv, LogsTyped, logs
<1>4. ASSUME NEW t \in Topics, publish(t) PROVE TypeInv'
  BY <1>4, OutsidePublishTyped DEF publish
<1>5. ASSUME NEW method \in Methods, processRequestForTest(method) PROVE TypeInv'
  <2>1. AnnouncedTopic \in Topics /\ publish(AnnouncedTopic)
    BY <1>5, ServerAssumption DEF processRequestForTest
  <2> QED
    BY <1>4, <2>1
<1> QED
  BY <1>1, <1>2, <1>3, <1>4, <1>5 DEF ApplicationStep

\* Timers and publications of the application keep the types.
LEMMA TimerTyped ==
  ASSUME TypeInv, NEW timer \in DOMAIN timers, timeout(timer)
  PROVE  TypeInv'
<1>1. timers[timer] \in Topics
  BY DEF TypeInv, TypeOK
<1> QED
  BY <1>1, OutsidePublishTyped DEF timeout

\* The service starts well typed.
LEMMA InitTyped == Init => TypeInv
<1> SUFFICES ASSUME Init PROVE TypeInv
  OBVIOUS
<1>1. LogsTyped
  BY DEF Init, LogsTyped
<1>2. m_servers \in Seq(Ports) /\ received \in [Sockets -> Seq(Inbound)]
  BY DEF Init
<1>3. timersMade \in 0..MaxTimers
  BY ServerAssumption DEF Init
<1>4. /\ m_clients = {} /\ m_subscriptions = Empty /\ m_methodHandlers = Empty
      /\ m_publishHandlers = Empty /\ m_periodicPublishers = Empty /\ timers = Empty
  BY DEF Init
<1> QED
  BY <1>1, <1>2, <1>3, <1>4, LogsGiveTypes, EmptyTyped DEF TypeInv, TypeOK, LogsSound

\* Every step keeps the types.
LEMMA NextTyped == TypeInv /\ [Next]_serverVars => TypeInv'
<1> SUFFICES ASSUME TypeInv, [Next]_serverVars PROVE TypeInv'
  OBVIOUS
<1>1. CASE UNCHANGED serverVars
  BY <1>1 DEF serverVars, clientVars, registrations, logs, TypeInv, TypeOK, LogsTyped
<1> QED
  BY <1>1, ConnectionTyped, RegistrationTyped, TimerTyped, ReceiveTyped DEF Next

\* The types hold of every behaviour.
LEMMA TypeInvHolds == Spec => []TypeInv
  BY InitTyped, NextTyped, PTL DEF Spec

\* Every table of the service keeps its type, whatever its clients send and its
\* handlers do: subscriptions of connected clients only, to known topics only;
\* publishers with timers that were made; answers and publications on the wire.
THEOREM TypeCorrect == Spec => []TypeOK
  BY TypeInvHolds, PTL DEF TypeInv

----------------------------------------------------------------------------
(* A topic has the timer of its registration and no other.                  *)

\* registerPeriodicPublisher replaces the timer of its topic and leaves those of the
\* others running.
LEMMA RegisterKeepsOneTimer ==
  ASSUME TypeInv, OneTimerPerTopic, NEW t \in Topics, NEW publisher \in Publishers,
         registerPeriodicPublisher(t, publisher)
  PROVE  OneTimerPerTopic'
<1> DEFINE timer == timersMade + 1
           entry == [publisher |-> publisher, timer |-> timer]
           others == OtherTimers(t)
           Of(table, u) == {n \in DOMAIN table : table[n] = u}
<1>1. /\ timers' = Put(others, timer, t)
      /\ m_periodicPublishers' = Put(m_periodicPublishers, t, entry)
  BY DEF registerPeriodicPublisher
<1>2. /\ timer \notin DOMAIN timers
      /\ \A u \in Topics :
           Of(timers, u) = IF u \in DOMAIN m_periodicPublishers
                           THEN {m_periodicPublishers[u].timer} ELSE {}
  BY ServerAssumption DEF TypeInv, TypeOK, OneTimerPerTopic
<1>3. /\ entry.timer = timer
      /\ DOMAIN m_periodicPublishers' = DOMAIN m_periodicPublishers \cup {t}
      /\ m_periodicPublishers'[t] = entry
      /\ \A u \in DOMAIN m_periodicPublishers : u # t => m_periodicPublishers'[u] = m_periodicPublishers[u]
  BY <1>1 DEF Put
<1> HIDE DEF timer, entry
<1>4. /\ DOMAIN others \subseteq DOMAIN timers
      /\ \A n \in DOMAIN others : others[n] = timers[n]
      /\ \A n \in DOMAIN others : timers[n] # t
      /\ \A n \in DOMAIN timers : timers[n] # t => n \in DOMAIN others
  <2>1. CASE t \in DOMAIN m_periodicPublishers
    <3> DEFINE old == m_periodicPublishers[t].timer
    <3>1. others = [n \in DOMAIN timers \ {old} |-> timers[n]]
      BY <2>1 DEF OtherTimers, Without, Restrict
    <3>2. \A n \in DOMAIN timers : timers[n] = t <=> n = old
      <4>1. Of(timers, t) = {old}
        BY <1>2, <2>1
      <4> QED
        BY <4>1
    <3> QED
      BY <3>1, <3>2
  <2>2. CASE t \notin DOMAIN m_periodicPublishers
    <3>1. others = timers
      BY <2>2 DEF OtherTimers
    <3>2. Of(timers, t) = {}
      BY <1>2, <2>2
    <3> QED
      BY <3>1, <3>2
  <2> QED
    BY <2>1, <2>2
<1> HIDE DEF others
<1>5. /\ DOMAIN timers' = DOMAIN others \cup {timer}
      /\ timers'[timer] = t
      /\ \A n \in DOMAIN others : n # timer => timers'[n] = others[n]
  BY <1>1 DEF Put
<1> SUFFICES ASSUME NEW u \in Topics
             PROVE  Of(timers', u) = IF u \in DOMAIN m_periodicPublishers'
                                     THEN {m_periodicPublishers'[u].timer} ELSE {}
  BY DEF OneTimerPerTopic
<1>6. CASE u = t
  <2>1. Of(timers', t) = {timer}
    BY <1>2, <1>4, <1>5
  <2> QED
    BY <1>3, <1>6, <2>1
<1>7. CASE u # t
  <2>1. Of(timers', u) = Of(timers, u)
    BY <1>2, <1>4, <1>5, <1>7
  <2> HIDE DEF Of
  <2> QED
    BY <1>2, <1>3, <1>7, <2>1
<1> QED
  BY <1>6, <1>7

\* However often a topic is registered, one timer publishes it, and no timer
\* outlives its registration.
THEOREM OneTimerPerTopicHolds == Spec => []OneTimerPerTopic
<1>1. Init => OneTimerPerTopic
  BY EmptyTyped DEF Init, OneTimerPerTopic
<1>2. TypeInv /\ OneTimerPerTopic /\ [Next]_serverVars => OneTimerPerTopic'
  <2> SUFFICES ASSUME TypeInv, OneTimerPerTopic, [Next]_serverVars PROVE OneTimerPerTopic'
    OBVIOUS
  <2>0. ASSUME UNCHANGED <<timers, m_periodicPublishers>> PROVE OneTimerPerTopic'
    BY <2>0 DEF OneTimerPerTopic
  <2>1. ASSUME NEW t \in Topics, NEW publisher \in Publishers, registerPeriodicPublisher(t, publisher)
        PROVE  OneTimerPerTopic'
    BY <2>1, RegisterKeepsOneTimer
  <2>2. CASE restart
    BY <2>2, EmptyTyped DEF restart, OneTimerPerTopic
  <2>3. CASE \/ \E ports \in PortLists, busy \in SUBSET Ports : start(ports, busy)
             \/ \E s \in Sockets : acceptFromListener(s) \/ attachUpgradedSocket(s) \/ onSocketDisconnected(s)
             \/ \E s \in Sockets, message \in Inbound : onTextMessageReceived(s, message)
    BY <2>0, <2>3 DEF start, acceptFromListener, attachUpgradedSocket, onNewConnection,
         onSocketDisconnected, onTextMessageReceived, registrations
  <2>4. CASE \/ \E method \in Methods, handler \in MethodHandlers : registerMethodHandler(method, handler)
             \/ \E t \in Topics, handler \in PublishHandlers : registerPublishHandler(t, handler)
             \/ \E t \in Topics : publish(t)
             \/ \E method \in Methods : processRequestForTest(method)
             \/ \E timer \in DOMAIN timers : timeout(timer)
    BY <2>0, <2>4 DEF registerMethodHandler, registerPublishHandler, publish, processRequestForTest,
         timeout, registrations
  <2>5. CASE UNCHANGED serverVars
    BY <2>0, <2>5 DEF serverVars, registrations
  <2> QED
    BY <2>1, <2>2, <2>3, <2>4, <2>5 DEF Next, ConnectionStep, ApplicationStep
<1> QED
  BY <1>1, <1>2, TypeInvHolds, PTL DEF Spec

----------------------------------------------------------------------------
(* Publications reach the subscribers.  A handler answers with the params   *)
(* of its request, so the theorem is for clients whose params cannot be     *)
(* taken for a confirmation.                                                *)

PlainParams ==
  \A message \in Inbound :
    RequestLike(message) => parseParams(message).member \notin {"subscribed", "unsubscribed"}

Confirms(frame, t) ==
  frame.result \in {TextObject(m, topicToString(t)) : m \in {"subscribed", "unsubscribed"}}

\* The names of the topics are their own.
LEMMA TopicNamesDiffer ==
  /\ \A t, u \in allTopics : topicToString(t) = topicToString(u) => t = u
  /\ \A t \in allTopics : topicToString(t) # topicToString("UnknownTopic")
<1>1. allTopics = {"Configuration", "Media", "ApplicationStatus", "ProcessorTemperature",
                   "BackendStatus", "Environment"}
  BY DEF allTopics, TopicNames
<1>2. /\ topicToString("Configuration") = "configuration"
      /\ topicToString("Media") = "media"
      /\ topicToString("ApplicationStatus") = "application-status"
      /\ topicToString("ProcessorTemperature") = "processor-temperature"
      /\ topicToString("BackendStatus") = "backend-status"
      /\ topicToString("Environment") = "environment"
      /\ topicToString("UnknownTopic") = "unknown"
  BY DEF topicToString, ToWire, TopicNames
<1> QED
  BY <1>1, <1>2

\* What each frame of the service confirms.
LEMMA FramesConfirm ==
  /\ \A t, u, n : ~Confirms(buildPublish(u, AppObject(n)), t)
  /\ \A t, id, error : ~Confirms(buildErrorResponse(id, error), t)
  /\ \A t, id, object : object.member \notin {"subscribed", "unsubscribed"} =>
       ~Confirms(buildResponse(id, object), t)
  /\ \A id, m : m \in {"subscribed", "unsubscribed"} =>
       \A t \in allTopics, u \in allTopics \cup {"UnknownTopic"} :
         /\ buildResponse(id, TextObject(m, topicToString(u))).result.member = m
         /\ Confirms(buildResponse(id, TextObject(m, topicToString(u))), t) <=> u = t
<1>1. \A m, text : TextObject(m, text).member = m /\ TextObject(m, text).text = text
  BY DEF TextObject
<1>2. EmptyObject.member = "none"
  BY DEF EmptyObject
<1>3. \A object, t : object \in {TextObject(m, topicToString(t)) : m \in {"subscribed", "unsubscribed"}} =>
        object.member \in {"subscribed", "unsubscribed"} /\ object.text = topicToString(t)
  BY <1>1
<1>4. /\ \A u, n : buildPublish(u, AppObject(n)).result = EmptyObject
      /\ \A id, error : buildErrorResponse(id, error).result = EmptyObject
      /\ \A id, object : buildResponse(id, object).result = object
  BY DEF buildPublish, buildErrorResponse, buildResponse
<1>5. ASSUME NEW id, NEW m \in {"subscribed", "unsubscribed"},
             NEW t \in allTopics, NEW u \in allTopics \cup {"UnknownTopic"}
      PROVE  /\ buildResponse(id, TextObject(m, topicToString(u))).result.member = m
             /\ Confirms(buildResponse(id, TextObject(m, topicToString(u))), t) <=> u = t
  <2>1. Confirms(buildResponse(id, TextObject(m, topicToString(u))), t) =>
          topicToString(u) = topicToString(t)
    BY <1>1, <1>3, <1>4 DEF Confirms
  <2>2. u = t => Confirms(buildResponse(id, TextObject(m, topicToString(u))), t)
    BY <1>4 DEF Confirms
  <2>3. topicToString(u) = topicToString(t) => u = t
    BY TopicNamesDiffer
  <2> QED
    BY <1>1, <1>4, <2>1, <2>2, <2>3
<1> QED
  BY <1>2, <1>3, <1>4, <1>5 DEF Confirms

\* A frame added to a log decides what its client is told last, if it confirms.
LEMMA ToldAppend ==
  ASSUME NEW log \in Seq(Sendable), NEW frame \in Sendable, NEW t
  PROVE  LET longer == Append(log, frame)
             n == Len(log) IN
         /\ \A k \in 0..n : Told(longer, t, k) <=> Told(log, t, k)
         /\ ~Confirms(frame, t) => (Told(longer, t, n + 1) <=> Told(log, t, n))
         /\ Confirms(frame, t) => (Told(longer, t, n + 1) <=> frame.result.member = "subscribed")
<1> DEFINE longer == Append(log, frame)
           n == Len(log)
<1>1. /\ n \in Nat /\ longer[n + 1] = frame
      /\ \A i \in 1..n : longer[i] = log[i]
  BY AppendProperties, LenProperties
<1> HIDE DEF longer, n
<1>2. \A k \in 0..n : Confirmations(longer, t, k) = Confirmations(log, t, k)
  BY <1>1 DEF Confirmations
<1>3. \A k \in 0..n : Told(longer, t, k) <=> Told(log, t, k)
  <2> SUFFICES ASSUME NEW k \in 0..n PROVE Told(longer, t, k) <=> Told(log, t, k)
    OBVIOUS
  <2>1. \A i \in Confirmations(log, t, k) : longer[i] = log[i]
    BY <1>1 DEF Confirmations
  <2>2. Confirmations(longer, t, k) = Confirmations(log, t, k)
    BY <1>2
  <2> QED
    BY <2>1, <2>2 DEF Told
<1>4. Confirmations(longer, t, n + 1) =
        IF Confirms(frame, t) THEN Confirmations(longer, t, n) \cup {n + 1}
        ELSE Confirmations(longer, t, n)
  BY <1>1 DEF Confirmations, Confirms
<1>5. ~Confirms(frame, t) => (Told(longer, t, n + 1) <=> Told(log, t, n))
  <2>1. ~Confirms(frame, t) => (Told(longer, t, n + 1) <=> Told(longer, t, n))
    BY <1>4 DEF Told
  <2> QED
    BY <1>1, <1>3, <2>1
<1>6. Confirms(frame, t) => (Told(longer, t, n + 1) <=> frame.result.member = "subscribed")
  <2> SUFFICES ASSUME Confirms(frame, t)
               PROVE  Told(longer, t, n + 1) <=> frame.result.member = "subscribed"
    OBVIOUS
  <2>1. /\ n + 1 \in Confirmations(longer, t, n + 1)
        /\ \A j \in Confirmations(longer, t, n + 1) : j \in Nat /\ j <= n + 1
    BY <1>1, <1>4 DEF Confirmations
  <2>2. \A i \in Confirmations(longer, t, n + 1) :
          (\A j \in Confirmations(longer, t, n + 1) : j <= i) <=> i = n + 1
    BY <1>1, <2>1
  <2> QED
    BY <1>1, <2>1, <2>2 DEF Told
<1> QED
  BY <1>3, <1>5, <1>6 DEF longer, n

\* The frames of publication n on topic t in a log.
Copies(log, t, n) == {i \in 1..Len(log) : log[i] = buildPublish(t, AppObject(n))}

Expected(log, publication, s) ==
  IF s \in DOMAIN publication.at /\ Told(log, publication.topic, publication.at[s])
  THEN {publication.at[s] + 1} ELSE {}

\* What the logs of the clients, the publications and the subscriptions have to do
\* with each other: PublishesReachSubscribers, with the numbers of publications in
\* the logs, their places, and what each client was told last.
LogInv(logOf, publications, subscriptions, clients) ==
  /\ \A n \in 1..Len(publications), s \in Sockets :
       Copies(logOf[s], publications[n].topic, n) = Expected(logOf[s], publications[n], s)
  /\ \A s \in Sockets, t \in Topics, n \in Nat :
       Copies(logOf[s], t, n) # {} => n \in 1..Len(publications)
  /\ \A n \in 1..Len(publications) : \A s \in DOMAIN publications[n].at :
       publications[n].at[s] \in 0..Len(logOf[s])
  /\ \A s \in clients, t \in allTopics : t \in subscriptions[s] <=> Told(logOf[s], t, Len(logOf[s]))

\* Publications differ from answers and, by number, from each other.
LEMMA PublicationsDiffer ==
  /\ \A frame \in Answers : \A t, n : frame # buildPublish(t, AppObject(n))
  /\ \A t, u : \A n, m : buildPublish(t, AppObject(n)) = buildPublish(u, AppObject(m)) => n = m
<1>1. \A n : AppObject(n).value = n
  BY DEF AppObject
<1>2. \A t, n : buildPublish(t, AppObject(n)).params = AppObject(n)
  BY DEF buildPublish
<1>3. ASSUME NEW frame \in Answers, NEW t, NEW n PROVE frame # buildPublish(t, AppObject(n))
  <2>1. frame.type = messageTypeToString("Response")
    BY DEF Answers, buildResponse, buildErrorResponse
  <2>2. buildPublish(t, AppObject(n)).type = messageTypeToString("Publish")
    BY DEF buildPublish
  <2> QED
    BY <2>1, <2>2, TypesReadBack
<1>4. \A t, u : \A n, m : buildPublish(t, AppObject(n)) = buildPublish(u, AppObject(m)) => n = m
  BY <1>1, <1>2
<1> QED
  BY <1>3, <1>4

\* The copies of a publication in a longer log are those it had, and the new one.
LEMMA CopiesAppend ==
  ASSUME NEW log \in Seq(Sendable), NEW frame \in Sendable, NEW t, NEW n
  PROVE  Copies(Append(log, frame), t, n) =
           IF frame = buildPublish(t, AppObject(n)) THEN Copies(log, t, n) \cup {Len(log) + 1}
           ELSE Copies(log, t, n)
<1>1. /\ Len(log) \in Nat /\ Len(Append(log, frame)) = Len(log) + 1
      /\ Append(log, frame)[Len(log) + 1] = frame
      /\ \A i \in 1..Len(log) : Append(log, frame)[i] = log[i]
  BY AppendProperties, LenProperties
<1> QED
  BY <1>1 DEF Copies

\* An answer to s, with the subscriptions it confirms.
LEMMA AnswerKeepsLogs ==
  ASSUME NEW logOf \in [Sockets -> Seq(Sendable)], NEW publications \in Seq(Entries),
         NEW before, NEW after, NEW clients \in SUBSET Sockets,
         LogInv(logOf, publications, before, clients),
         NEW s \in Sockets, NEW frame \in Answers,
         \A u \in clients \ {s} : after[u] = before[u],
         \A t \in allTopics :
           t \in after[s] <=> IF Confirms(frame, t) THEN frame.result.member = "subscribed"
                              ELSE t \in before[s]
  PROVE  LogInv(Reply(logOf, s, frame), publications, after, clients)
<1> DEFINE new == Reply(logOf, s, frame)
<1>0. frame \in Sendable
  BY DEF Sendable
<1>1. /\ new[s] = Append(logOf[s], frame)
      /\ \A u \in Sockets \ {s} : new[u] = logOf[u]
      /\ Len(new[s]) = Len(logOf[s]) + 1 /\ Len(logOf[s]) \in Nat
      /\ logOf[s] \in Seq(Sendable)
  BY <1>0, AppendProperties, LenProperties DEF Reply
<1> DEFINE n0 == Len(logOf[s])
<1>8. \A t :
        /\ \A k \in 0..n0 : Told(new[s], t, k) <=> Told(logOf[s], t, k)
        /\ ~Confirms(frame, t) => (Told(new[s], t, n0 + 1) <=> Told(logOf[s], t, n0))
        /\ Confirms(frame, t) => (Told(new[s], t, n0 + 1) <=> frame.result.member = "subscribed")
  <2> SUFFICES ASSUME NEW t
               PROVE  /\ \A k \in 0..n0 : Told(new[s], t, k) <=> Told(logOf[s], t, k)
                      /\ ~Confirms(frame, t) => (Told(new[s], t, n0 + 1) <=> Told(logOf[s], t, n0))
                      /\ Confirms(frame, t) => (Told(new[s], t, n0 + 1) <=> frame.result.member = "subscribed")
    OBVIOUS
  <2> DEFINE log == logOf[s]
             longer == Append(log, frame)
  <2>1. new[s] = longer /\ log \in Seq(Sendable) /\ n0 = Len(log)
    BY <1>1
  <2> HIDE DEF new, n0, log
  <2>2. /\ \A k \in 0..Len(log) : Told(longer, t, k) <=> Told(log, t, k)
        /\ ~Confirms(frame, t) => (Told(longer, t, Len(log) + 1) <=> Told(log, t, Len(log)))
        /\ Confirms(frame, t) => (Told(longer, t, Len(log) + 1) <=> frame.result.member = "subscribed")
    BY <1>0, <2>1, ToldAppend
  <2> HIDE DEF longer
  <2> QED
    BY <2>1, <2>2 DEF log
<1> HIDE DEF new
<1>2. \A u \in Sockets : \A t, n : Copies(new[u], t, n) = Copies(logOf[u], t, n)
  <2>1. \A t, n : Copies(new[s], t, n) = Copies(logOf[s], t, n)
    BY <1>0, <1>1, CopiesAppend, PublicationsDiffer
  <2> QED
    BY <1>1, <2>1
<1>3. \A n \in 1..Len(publications) : \A u \in DOMAIN publications[n].at :
        /\ publications[n].at[u] \in 0..Len(logOf[u])
        /\ u \in Sockets
  <2>1. \A n \in 1..Len(publications) : DOMAIN publications[n].at \subseteq Sockets
    <3>1. \A n \in 1..Len(publications) : publications[n] \in Entries
      BY ElementOfSeq
    <3> QED
      BY <3>1 DEF Entries
  <2> QED
    BY <2>1 DEF LogInv
<1>4. ASSUME NEW n \in 1..Len(publications), NEW u \in Sockets
      PROVE  Expected(new[u], publications[n], u) = Expected(logOf[u], publications[n], u)
  <2>1. CASE u = s /\ u \in DOMAIN publications[n].at
    <3>1. publications[n].at[s] \in 0..Len(logOf[s])
      BY <1>3, <2>1
    <3>2. \A t : Told(new[s], t, publications[n].at[s]) <=> Told(logOf[s], t, publications[n].at[s])
      <4> DEFINE k == publications[n].at[s]
      <4>1. k \in 0..n0
        BY <3>1
      <4> HIDE DEF k, n0
      <4>2. \A t : Told(new[s], t, k) <=> Told(logOf[s], t, k)
        BY <1>8, <4>1
      <4> QED
        BY <4>2 DEF k
    <3> QED
      BY <2>1, <3>2 DEF Expected
  <2>2. CASE u # s
    BY <1>1, <2>2
  <2>3. CASE u \notin DOMAIN publications[n].at
    BY <2>3 DEF Expected
  <2> QED
    BY <2>1, <2>2, <2>3
<1>5. ASSUME NEW u \in clients, NEW t \in allTopics
      PROVE  t \in after[u] <=> Told(new[u], t, Len(new[u]))
  <2>0. t \in before[u] <=> Told(logOf[u], t, Len(logOf[u]))
    BY DEF LogInv
  <2>1. CASE u = s
    <3>1. Len(new[s]) = n0 + 1 /\ (t \in before[s] <=> Told(logOf[s], t, n0))
      BY <1>1, <2>0, <2>1
    <3> HIDE DEF n0
    <3>2. CASE Confirms(frame, t)
      <4>1. Told(new[s], t, n0 + 1) <=> frame.result.member = "subscribed"
        BY <1>8, <3>2
      <4> QED
        BY <2>1, <3>1, <3>2, <4>1
    <3>3. CASE ~Confirms(frame, t)
      <4>1. Told(new[s], t, n0 + 1) <=> Told(logOf[s], t, n0)
        BY <1>8, <3>3
      <4> QED
        BY <2>1, <3>1, <3>3, <4>1
    <3> QED
      BY <3>2, <3>3
  <2>2. CASE u # s
    <3>1. new[u] = logOf[u] /\ after[u] = before[u]
      BY <1>1, <2>2
    <3> QED
      BY <2>0, <3>1
  <2> QED
    BY <2>1, <2>2
<1>6. \A n \in 1..Len(publications) : \A u \in DOMAIN publications[n].at :
        publications[n].at[u] \in 0..Len(new[u])
  <2> SUFFICES ASSUME NEW n \in 1..Len(publications), NEW u \in DOMAIN publications[n].at
               PROVE  publications[n].at[u] \in 0..Len(new[u])
    OBVIOUS
  <2>1. publications[n].at[u] \in 0..Len(logOf[u]) /\ u \in Sockets
    BY <1>3
  <2>2. Len(logOf[u]) \in Nat /\ Len(new[u]) \in {Len(logOf[u]), Len(logOf[u]) + 1}
    <3>1. logOf[u] \in Seq(Sendable)
      BY <2>1
    <3>2. Len(logOf[u]) \in Nat
      BY <3>1, LenProperties
    <3>3. CASE u = s
      BY <1>1, <3>2, <3>3
    <3>4. CASE u # s
      <4>1. new[u] = logOf[u]
        BY <1>1, <2>1, <3>4
      <4> QED
        BY <3>2, <4>1
    <3> QED
      BY <3>2, <3>3, <3>4
  <2> QED
    BY ONLY <2>1, <2>2
<1>7. \A n \in 1..Len(publications), u \in Sockets :
        Copies(new[u], publications[n].topic, n) = Expected(new[u], publications[n], u)
  <2> SUFFICES ASSUME NEW n \in 1..Len(publications), NEW u \in Sockets
               PROVE  Copies(new[u], publications[n].topic, n) = Expected(new[u], publications[n], u)
    OBVIOUS
  <2>1. Copies(logOf[u], publications[n].topic, n) = Expected(logOf[u], publications[n], u)
    BY DEF LogInv
  <2> QED
    BY <1>2, <1>4, <2>1
<1>9. \A u \in Sockets, t \in Topics, n \in Nat :
        Copies(new[u], t, n) # {} => n \in 1..Len(publications)
  <2>1. \A u \in Sockets, t \in Topics, n \in Nat :
          Copies(logOf[u], t, n) # {} => n \in 1..Len(publications)
    BY DEF LogInv
  <2> QED
    BY <1>2, <2>1
<1> QED
  BY <1>5, <1>6, <1>7, <1>9 DEF LogInv, new

\* A publication to the subscribers of its topic.
LEMMA PublicationKeepsLogs ==
  ASSUME TypeInv, LogInv(sent, published, m_subscriptions, m_clients),
         NEW t \in Topics, RecordPublication(t)
  PROVE  LogInv(Delivered(t), published', m_subscriptions, m_clients)
<1> DEFINE number == Len(published) + 1
           frame == buildPublish(t, AppObject(number))
           new == Delivered(t)
           P == Publication(t)
<1>1. /\ sent \in [Sockets -> Seq(Sendable)] /\ published \in Seq(Entries)
      /\ m_clients \subseteq Sockets /\ t \in allTopics
      /\ Len(published) \in Nat /\ number \in Nat
      /\ \A s \in Sockets : sent[s] \in Seq(Sendable) /\ Len(sent[s]) \in Nat
  BY LenProperties, ServerAssumption DEF TypeInv, LogsTyped, TypeOK
<1>2. frame \in Sendable
  BY <1>1, AnswersSendable
<1>3. /\ \A n \in Nat, u \in Topics : frame = buildPublish(u, AppObject(n)) => n = number
      /\ \A u : ~Confirms(frame, u)
  BY PublicationsDiffer, FramesConfirm
<1> HIDE DEF frame
<1>4. \A s \in Sockets : new[s] = IF s \in m_clients /\ Subscribed(s, t)
                                  THEN Append(sent[s], frame) ELSE sent[s]
  BY DEF Delivered, frame
<1>5. /\ P.topic = t
      /\ DOMAIN P.at = m_clients
      /\ \A s \in m_clients : P.at[s] = Len(sent[s])
  BY DEF Publication
<1> HIDE DEF P, new
<1>6. /\ published' = Append(published, P)
      /\ Len(published') = number
      /\ published'[number] = P
      /\ \A n \in 1..Len(published) : published'[n] = published[n]
  <2>1. P \in Entries /\ published' = Append(published, P)
    <3>1. \A s \in m_clients : Len(sent[s]) \in Nat
      BY <1>1
    <3> DEFINE at == [s \in m_clients |-> Len(sent[s])]
    <3>2. at \in UNION {[clients -> Nat] : clients \in SUBSET Sockets}
      BY <1>1, <3>1
    <3>3. P = [topic |-> t, at |-> at]
      BY DEF Publication, P
    <3> HIDE DEF at
    <3>4. P \in Entries
      BY <3>2, <3>3 DEF Entries
    <3> QED
      BY <3>4 DEF RecordPublication, P
  <2> QED
    BY <1>1, <2>1, AppendProperties
<1> HIDE DEF number
\* A longer log has the copies of the new publication, and tells its client the same.
<1>7. ASSUME NEW s \in Sockets
      PROVE  /\ Len(new[s]) \in Nat /\ Len(sent[s]) <= Len(new[s])
             /\ \A u, n : Copies(new[s], u, n) =
                  IF s \in m_clients /\ Subscribed(s, t) /\ frame = buildPublish(u, AppObject(n))
                  THEN Copies(sent[s], u, n) \cup {Len(sent[s]) + 1} ELSE Copies(sent[s], u, n)
             /\ \A u : \A k \in 0..Len(sent[s]) : Told(new[s], u, k) <=> Told(sent[s], u, k)
             /\ \A u : Told(new[s], u, Len(new[s])) <=> Told(sent[s], u, Len(sent[s]))
  <2>1. sent[s] \in Seq(Sendable) /\ Len(sent[s]) \in Nat
    BY <1>1
  <2>2. CASE s \in m_clients /\ Subscribed(s, t)
    <3> DEFINE log == sent[s]
               longer == Append(log, frame)
    <3>1. new[s] = longer /\ Len(longer) = Len(log) + 1
      BY <1>2, <1>4, <2>1, <2>2, AppendProperties
    <3>2. \A u, n : Copies(longer, u, n) = IF frame = buildPublish(u, AppObject(n))
                                           THEN Copies(log, u, n) \cup {Len(log) + 1} ELSE Copies(log, u, n)
      BY <1>2, <2>1, CopiesAppend
    <3>3. \A u : \A k \in 0..Len(log) : Told(longer, u, k) <=> Told(log, u, k)
      BY <1>2, <2>1, ToldAppend
    <3>4. \A u : Told(longer, u, Len(log) + 1) <=> Told(log, u, Len(log))
      BY <1>2, <1>3, <2>1, ToldAppend
    <3> HIDE DEF log, longer
    <3>5. \A u : Told(new[s], u, Len(new[s])) <=> Told(log, u, Len(log))
      BY <3>1, <3>4
    <3>6. \A u, n : Copies(new[s], u, n) = IF frame = buildPublish(u, AppObject(n))
                                           THEN Copies(log, u, n) \cup {Len(log) + 1} ELSE Copies(log, u, n)
      BY <3>1, <3>2
    <3>7. \A u : \A k \in 0..Len(log) : Told(new[s], u, k) <=> Told(log, u, k)
      BY <3>1, <3>3
    <3>8. Len(new[s]) \in Nat /\ Len(log) <= Len(new[s])
      BY <2>1, <3>1 DEF log
    <3> QED
      BY <2>2, <3>5, <3>6, <3>7, <3>8 DEF log
  <2>3. CASE ~(s \in m_clients /\ Subscribed(s, t))
    <3>1. new[s] = sent[s]
      BY <1>4, <2>3
    <3> QED
      BY <2>1, <2>3, <3>1
  <2> QED
    BY <2>2, <2>3
<1>8. ASSUME NEW n \in 1..Len(published), NEW s \in DOMAIN published[n].at
      PROVE  published[n].at[s] \in 0..Len(sent[s]) /\ s \in Sockets
  <2>1. published[n] \in Entries
    BY <1>1, ElementOfSeq
  <2>2. s \in Sockets
    BY <2>1 DEF Entries
  <2> QED
    BY <2>2 DEF LogInv
<1>9. ASSUME NEW n \in 1..Len(published'), NEW s \in Sockets
      PROVE  Copies(new[s], published'[n].topic, n) = Expected(new[s], published'[n], s)
  <2>1. CASE n \in 1..Len(published)
    <3> DEFINE publication == published[n]
    <3>1. published'[n] = publication /\ n # number /\ n \in Nat
      BY <1>1, <1>6, <2>1 DEF number
    <3>2. Copies(sent[s], publication.topic, n) = Expected(sent[s], publication, s)
      BY <2>1 DEF LogInv
    <3>3. frame # buildPublish(publication.topic, AppObject(n))
      <4>1. publication \in Entries
        BY <1>1, <2>1, ElementOfSeq
      <4>2. publication.topic \in Topics
        BY <4>1 DEF Entries
      <4> QED
        BY <1>3, <3>1, <4>2
    <3>4. Copies(new[s], publication.topic, n) = Copies(sent[s], publication.topic, n)
      BY <1>7, <3>3
    <3>5. Expected(new[s], publication, s) = Expected(sent[s], publication, s)
      BY <1>7, <1>8, <2>1 DEF Expected
    <3> QED
      BY <3>1, <3>2, <3>4, <3>5
  <2>2. CASE n = number
    <3>1. published'[n] = P
      BY <1>6, <2>2
    <3>2. Copies(sent[s], t, number) = {}
      <4>1. number \in Nat /\ number \notin 1..Len(published)
        BY <1>1 DEF number
      <4> QED
        BY <4>1 DEF LogInv
    <3>3. Copies(new[s], t, number) =
            IF s \in m_clients /\ Subscribed(s, t) THEN {Len(sent[s]) + 1} ELSE {}
      BY <1>7, <3>2 DEF frame
    <3>4. s \in m_clients => (Subscribed(s, t) <=> Told(new[s], t, Len(sent[s])))
      <4>1. s \in m_clients => (Subscribed(s, t) <=> Told(sent[s], t, Len(sent[s])))
        BY <1>1 DEF LogInv, Subscribed
      <4>2. Len(sent[s]) \in 0..Len(sent[s])
        BY <1>1
      <4>3. Told(new[s], t, Len(sent[s])) <=> Told(sent[s], t, Len(sent[s]))
        BY <1>7, <4>2
      <4> QED
        BY <4>1, <4>3
    <3>5. Expected(new[s], P, s) =
            IF s \in m_clients /\ Subscribed(s, t) THEN {Len(sent[s]) + 1} ELSE {}
      BY <1>5, <3>4 DEF Expected
    <3> QED
      BY <1>5, <2>2, <3>1, <3>3, <3>5
  <2> QED
    BY <1>1, <1>6, <2>1, <2>2 DEF number
<1>10. ASSUME NEW s \in Sockets, NEW u \in Topics, NEW n \in Nat, Copies(new[s], u, n) # {}
       PROVE  n \in 1..Len(published')
  <2>1. Copies(sent[s], u, n) # {} \/ frame = buildPublish(u, AppObject(n))
    BY <1>7, <1>10
  <2>2. n \in 1..Len(published) \/ n = number
    BY <1>3, <2>1 DEF LogInv
  <2> QED
    BY <1>1, <1>6, <2>2 DEF number
<1>11. ASSUME NEW n \in 1..Len(published'), NEW s \in DOMAIN published'[n].at
       PROVE  published'[n].at[s] \in 0..Len(new[s])
  <2>1. CASE n \in 1..Len(published)
    <3>1. s \in DOMAIN published[n].at /\ published'[n] = published[n]
      BY <1>6, <1>11, <2>1
    <3>2. published[n].at[s] \in 0..Len(sent[s]) /\ s \in Sockets
      BY <1>8, <2>1, <3>1
    <3>3. Len(new[s]) \in Nat /\ Len(sent[s]) <= Len(new[s]) /\ Len(sent[s]) \in Nat
      BY <1>1, <1>7, <3>2
    <3> QED
      BY <3>1, <3>2, <3>3
  <2>2. CASE n = number
    <3>1. s \in m_clients /\ published'[n].at[s] = Len(sent[s])
      BY <1>5, <1>6, <1>11, <2>2
    <3>2. Len(new[s]) \in Nat /\ Len(sent[s]) <= Len(new[s]) /\ Len(sent[s]) \in Nat
      BY <1>1, <1>7, <3>1
    <3> QED
      BY <3>1, <3>2
  <2> QED
    BY <1>1, <1>6, <2>1, <2>2 DEF number
<1>12. ASSUME NEW s \in m_clients, NEW u \in allTopics
       PROVE  u \in m_subscriptions[s] <=> Told(new[s], u, Len(new[s]))
  BY <1>1, <1>7 DEF LogInv
<1> QED
  BY <1>9, <1>10, <1>11, <1>12 DEF LogInv, new

PublicationInv == LogInv(sent, published, m_subscriptions, m_clients)

\* An answer that confirms nothing.
LEMMA PlainAnswerKeepsLogs ==
  ASSUME TypeInv, PublicationInv, NEW s \in m_clients, NEW frame \in Answers,
         \A t \in allTopics : ~Confirms(frame, t), sendJson(s, frame), UNCHANGED m_subscriptions
  PROVE  LogInv(sent', published', m_subscriptions', m_clients)
<1>1. /\ sent \in [Sockets -> Seq(Sendable)] /\ published \in Seq(Entries)
      /\ m_clients \in SUBSET Sockets /\ s \in Sockets
  BY DEF TypeInv, TypeOK, LogsTyped
<1>2. sent' = Reply(sent, s, frame) /\ published' = published
  BY DEF sendJson
<1>3. LogInv(Reply(sent, s, frame), published, m_subscriptions, m_clients)
  BY <1>1, AnswerKeepsLogs DEF PublicationInv
<1> QED
  BY <1>2, <1>3

\* An answer that confirms topic u, or "unknown", to client s.
LEMMA ConfirmationKeepsLogs ==
  ASSUME TypeInv, PublicationInv, NEW s \in m_clients, NEW id \in Ids,
         NEW m \in {"subscribed", "unsubscribed"}, NEW u \in allTopics \cup {"UnknownTopic"},
         sendJson(s, buildResponse(id, TextObject(m, topicToString(u)))),
         m_subscriptions' = [m_subscriptions EXCEPT ![s] = IF m = "subscribed" THEN @ \cup {u}
                                                           ELSE @ \ {u}]
  PROVE  LogInv(sent', published', m_subscriptions', m_clients)
<1> DEFINE frame == buildResponse(id, TextObject(m, topicToString(u)))
<1>1. /\ sent \in [Sockets -> Seq(Sendable)] /\ published \in Seq(Entries)
      /\ m_clients \in SUBSET Sockets /\ s \in Sockets
      /\ m_subscriptions \in [m_clients -> SUBSET allTopics]
  BY DEF TypeInv, TypeOK, LogsTyped
<1>2. sent' = Reply(sent, s, frame) /\ published' = published
  BY DEF sendJson
<1>3. frame \in Answers
  <2>1. TextObject(m, topicToString(u)) \in Results
    BY DEF Results
  <2> QED
    BY <2>1 DEF Answers
<1>4. \A t \in allTopics : (Confirms(frame, t) <=> u = t) /\ frame.result.member = m
  BY FramesConfirm
<1> HIDE DEF frame
<1>5. /\ \A v \in m_clients \ {s} : m_subscriptions'[v] = m_subscriptions[v]
      /\ \A t \in allTopics :
           t \in m_subscriptions'[s] <=> IF Confirms(frame, t) THEN frame.result.member = "subscribed"
                                         ELSE t \in m_subscriptions[s]
  <2>1. m_subscriptions'[s] = IF m = "subscribed" THEN m_subscriptions[s] \cup {u}
                              ELSE m_subscriptions[s] \ {u}
    BY <1>1
  <2> QED
    BY <1>1, <1>4, <2>1
<1>6. LogInv(Reply(sent, s, frame), published, m_subscriptions', m_clients)
  BY <1>1, <1>3, <1>5, AnswerKeepsLogs DEF PublicationInv
<1> QED
  BY <1>2, <1>6

\* The answer of a handler confirms nothing, since its params do not.
LEMMA HandlerAnswers ==
  ASSUME PlainParams, NEW message \in Inbound, RequestLike(message), NEW handler
  PROVE  /\ HandlerReply(handler, message) \in Answers
         /\ \A t \in allTopics : ~Confirms(HandlerReply(handler, message), t)
<1>1. parseId(message) \in Ids /\ ResultOf(parseParams(message)) \in Results
  BY DEF Ids, Results
<1>2. ErrorText(handler) \in Errors
  BY DEF ErrorText, Errors
<1>3. HandlerReply(handler, message) \in Answers
  BY <1>1, <1>2 DEF HandlerReply, Answers
<1>4. ResultOf(parseParams(message)).member \notin {"subscribed", "unsubscribed"}
  <2>1. AppObject(0).member = "app"
    BY DEF AppObject
  <2> QED
    BY <2>1 DEF PlainParams, ResultOf
<1>5. \/ HandlerReply(handler, message) = buildResponse(parseId(message), ResultOf(parseParams(message)))
      \/ HandlerReply(handler, message) = buildErrorResponse(parseId(message), ErrorText(handler))
  BY DEF HandlerReply
<1>6. \A t \in allTopics : ~Confirms(HandlerReply(handler, message), t)
  BY <1>4, <1>5, FramesConfirm
<1> QED
  BY <1>3, <1>6

\* Reading a frame keeps the log invariant.
LEMMA FrameKeepsLogs ==
  ASSUME PlainParams, TypeInv, PublicationInv, NEW s \in m_clients, NEW message \in Inbound,
         onTextMessageReceived(s, message)
  PROVE  LogInv(sent', published', m_subscriptions', m_clients)
<1>1. /\ parseId(message) \in Ids /\ NoId \in Ids
      /\ sent \in [Sockets -> Seq(Sendable)] /\ published \in Seq(Entries)
      /\ m_clients \in SUBSET Sockets /\ s \in Sockets
  BY DEF Ids, TypeInv, TypeOK, LogsTyped
<1>a. \A id \in Ids, error \in Errors :
        /\ buildErrorResponse(id, error) \in Answers
        /\ \A t \in allTopics : ~Confirms(buildErrorResponse(id, error), t)
  BY FramesConfirm DEF Answers
<1>2. CASE isPublish(message) /\ handlePublish(message) /\ UNCHANGED m_subscriptions
  <2> DEFINE t == parseTopic(message)
  <2>1. CASE t \in DOMAIN m_publishHandlers /\ publishToSubscribed(t)
    <3>1. t \in Topics
      BY <2>1 DEF TypeInv, TypeOK
    <3> HIDE DEF t
    <3>2. LogInv(Delivered(t), published', m_subscriptions, m_clients)
      BY <2>1, <3>1, PublicationKeepsLogs DEF PublicationInv, publishToSubscribed
    <3> QED
      BY <1>2, <2>1, <3>2 DEF publishToSubscribed
  <2>2. CASE UNCHANGED <<sent, published>>
    BY <1>2, <2>2 DEF PublicationInv
  <2> QED
    BY <1>2, <2>1, <2>2 DEF handlePublish
<1>3. CASE /\ sendJson(s, buildErrorResponse(NoId, "Invalid request id"))
           /\ UNCHANGED m_subscriptions
  BY <1>1, <1>a, <1>3, PlainAnswerKeepsLogs DEF Errors
<1>4. CASE UNCHANGED <<m_subscriptions, sent, published>>
  BY <1>4 DEF PublicationInv
<1>5. CASE SubscribeTopic(s, message)
  <2> DEFINE t == RequestedTopic(message)
  <2>1. t \in allTopics \cup {"UnknownTopic"}
    BY TopicsRead DEF RequestedTopic
  <2>2. CASE /\ sendJson(s, buildErrorResponse(parseId(message), "Invalid topic"))
             /\ UNCHANGED m_subscriptions
    BY <1>1, <1>a, <2>2, PlainAnswerKeepsLogs DEF Errors
  <2>3. CASE /\ m_subscriptions' = [m_subscriptions EXCEPT ![s] = @ \cup {t}]
             /\ sendJson(s, buildResponse(parseId(message), TextObject("subscribed", topicToString(t))))
    <3> HIDE DEF t
    <3> DEFINE m == "subscribed"
    <3>1. m_subscriptions' = [m_subscriptions EXCEPT ![s] = IF m = "subscribed" THEN @ \cup {t}
                                                            ELSE @ \ {t}]
      BY <2>3
    <3> QED
      BY <1>1, <2>1, <2>3, <3>1, ConfirmationKeepsLogs
  <2> QED
    BY <1>5, <2>2, <2>3 DEF SubscribeTopic
<1>6. CASE UnsubscribeTopic(s, message)
  <2> DEFINE t == RequestedTopic(message)
             m == "unsubscribed"
  <2>1. t \in allTopics \cup {"UnknownTopic"}
    BY TopicsRead DEF RequestedTopic
  <2>2. /\ m_subscriptions' = [m_subscriptions EXCEPT ![s] = m_subscriptions[s] \ {t}]
        /\ sendJson(s, buildResponse(parseId(message), TextObject(m, topicToString(t))))
    BY <1>6 DEF UnsubscribeTopic, Remaining
  <2> HIDE DEF t
  <2>3. m_subscriptions' = [m_subscriptions EXCEPT ![s] = IF m = "subscribed" THEN @ \cup {t}
                                                          ELSE @ \ {t}]
    BY <2>2 DEF TypeInv, TypeOK
  <2> QED
    BY <1>1, <2>1, <2>2, <2>3, ConfirmationKeepsLogs
<1>7. CASE RequestLike(message) /\ CallHandler(s, message)
  <2> DEFINE method == parseMethod(message)
             handler == IF method \in DOMAIN m_methodHandlers THEN m_methodHandlers[method] ELSE "empty"
             reply == HandlerReply(handler, message)
  <2>0. UNCHANGED m_subscriptions
    BY <1>7 DEF CallHandler
  <2>1. reply \in Answers /\ \A t \in allTopics : ~Confirms(reply, t)
    BY <1>7, HandlerAnswers
  <2>2. CASE sendJson(s, buildErrorResponse(parseId(message), "Method not found"))
    BY <1>1, <1>a, <2>0, <2>2, PlainAnswerKeepsLogs DEF Errors
  <2>3. CASE sendJson(s, reply)
    <3> HIDE DEF reply
    <3> QED
      BY <2>0, <2>1, <2>3, PlainAnswerKeepsLogs
  <2>4. CASE /\ RecordPublication(AnnouncedTopic)
             /\ sent' = Reply(Delivered(AnnouncedTopic), s, reply)
    <3> HIDE DEF reply
    <3> DEFINE log == Delivered(AnnouncedTopic)
    <3>1. AnnouncedTopic \in Topics
      BY ServerAssumption
    <3>2. log \in [Sockets -> Seq(Sendable)] /\ published' \in Seq(Entries)
      BY <2>4, <3>1, PublicationTyped
    <3>3. LogInv(log, published', m_subscriptions, m_clients)
      BY <2>4, <3>1, PublicationKeepsLogs DEF PublicationInv
    <3>4. sent' = Reply(log, s, reply)
      BY <2>4
    <3> HIDE DEF log
    <3>5. LogInv(Reply(log, s, reply), published', m_subscriptions, m_clients)
      BY <1>1, <2>1, <3>2, <3>3, AnswerKeepsLogs
    <3> QED
      BY <2>0, <3>4, <3>5
  <2> QED
    BY <1>7, <2>2, <2>3, <2>4 DEF CallHandler
<1> QED
  BY <1>2, <1>3, <1>4, <1>5, <1>6, <1>7 DEF onTextMessageReceived, processRequest

\* Clients that come are told nothing yet; those that go keep their logs.
LEMMA ConnectionKeepsLogs ==
  ASSUME TypeInv, PublicationInv, ConnectionStep
  PROVE  PublicationInv'
<1>1. ASSUME NEW ports \in PortLists, NEW busy \in SUBSET Ports, start(ports, busy)
      PROVE  PublicationInv'
  BY <1>1 DEF start, PublicationInv, clientVars, logs
<1>2. CASE restart
  BY <1>2 DEF restart, PublicationInv, LogInv, logs
<1>3. ASSUME NEW s \in Sockets, onNewConnection(s)
      PROVE  PublicationInv'
  <2>1. /\ m_clients' = m_clients \cup {s}
        /\ m_subscriptions' = Put(m_subscriptions, s, {})
        /\ UNCHANGED <<sent, published>>
        /\ sent[s] = <<>>
        /\ m_subscriptions \in [m_clients -> SUBSET allTopics]
    BY <1>3 DEF onNewConnection, Gone, logs, TypeInv, TypeOK
  <2>2. \A t : ~Told(sent[s], t, Len(sent[s]))
    <3>1. Len(<<>>) = 0
      OBVIOUS
    <3> QED
      BY <2>1, <3>1 DEF Told, Confirmations
  <2>3. m_subscriptions'[s] = {} /\ \A u \in m_clients \ {s} : m_subscriptions'[u] = m_subscriptions[u]
    BY <2>1 DEF Put
  <2>4. ASSUME NEW u \in m_clients', NEW t \in allTopics
        PROVE  t \in m_subscriptions'[u] <=> Told(sent[u], t, Len(sent[u]))
    <3>1. CASE u = s
      BY <2>2, <2>3, <3>1
    <3>2. CASE u # s
      BY <2>1, <2>3, <3>2 DEF PublicationInv, LogInv
    <3> QED
      BY <3>1, <3>2
  <2> QED
    BY <2>1, <2>4 DEF PublicationInv, LogInv
<1>4. ASSUME NEW s \in Sockets, onSocketDisconnected(s)
      PROVE  PublicationInv'
  <2>1. /\ m_clients' = m_clients \ {s}
        /\ m_subscriptions' = Without(m_subscriptions, s)
        /\ UNCHANGED <<sent, published>>
        /\ m_subscriptions \in [m_clients -> SUBSET allTopics]
    BY <1>4 DEF onSocketDisconnected, ForgetClient, logs, TypeInv, TypeOK
  <2>2. \A u \in m_clients' : m_subscriptions'[u] = m_subscriptions[u]
    BY <2>1 DEF Without, Restrict
  <2> QED
    BY <2>1, <2>2 DEF PublicationInv, LogInv
<1> QED
  BY <1>1, <1>2, <1>3, <1>4 DEF ConnectionStep, acceptFromListener, attachUpgradedSocket

\* A publication from outside a frame keeps the clients and their subscriptions.
LEMMA OutsidePublishKeepsLogs ==
  ASSUME TypeInv, PublicationInv, NEW t \in Topics, publishToSubscribed(t), UNCHANGED clientVars
  PROVE  PublicationInv'
<1>1. LogInv(Delivered(t), published', m_subscriptions, m_clients)
  BY PublicationKeepsLogs DEF PublicationInv, publishToSubscribed
<1>2. sent' = Delivered(t) /\ m_subscriptions' = m_subscriptions /\ m_clients' = m_clients
  BY DEF publishToSubscribed, clientVars
<1> QED
  BY <1>1, <1>2 DEF PublicationInv

\* Every step keeps the log invariant.
LEMMA NextKeepsLogs ==
  ASSUME PlainParams
  PROVE  TypeInv /\ PublicationInv /\ [Next]_serverVars => PublicationInv'
<1> SUFFICES ASSUME TypeInv, PublicationInv, [Next]_serverVars PROVE PublicationInv'
  OBVIOUS
<1>0. ASSUME UNCHANGED <<sent, published, clientVars>> PROVE PublicationInv'
  BY <1>0 DEF PublicationInv, clientVars
<1>1. CASE ConnectionStep
  BY <1>1, ConnectionKeepsLogs
<1>2. ASSUME NEW s \in Sockets, NEW message \in Inbound, onTextMessageReceived(s, message)
      PROVE  PublicationInv'
  <2>1. s \in m_clients /\ m_clients' = m_clients
    BY <1>2 DEF onTextMessageReceived
  <2>2. LogInv(sent', published', m_subscriptions', m_clients)
    BY <1>2, <2>1, FrameKeepsLogs
  <2> QED
    BY <2>1, <2>2 DEF PublicationInv
<1>3. CASE \/ \E method \in Methods, handler \in MethodHandlers : registerMethodHandler(method, handler)
           \/ \E t \in Topics, handler \in PublishHandlers : registerPublishHandler(t, handler)
           \/ \E t \in Topics, publisher \in Publishers : registerPeriodicPublisher(t, publisher)
           \/ UNCHANGED serverVars
  BY <1>0, <1>3 DEF registerMethodHandler, registerPublishHandler, registerPeriodicPublisher, logs,
                    serverVars
<1>4. ASSUME NEW t \in Topics, publish(t) PROVE PublicationInv'
  BY <1>4, OutsidePublishKeepsLogs DEF publish
<1>5. ASSUME NEW method \in Methods, processRequestForTest(method) PROVE PublicationInv'
  <2>1. AnnouncedTopic \in Topics /\ publish(AnnouncedTopic)
    BY <1>5, ServerAssumption DEF processRequestForTest
  <2> QED
    BY <1>4, <2>1
<1>6. ASSUME NEW timer \in DOMAIN timers, timeout(timer) PROVE PublicationInv'
  <2>1. timers[timer] \in Topics
    BY DEF TypeInv, TypeOK
  <2>2. publishToSubscribed(timers[timer]) /\ UNCHANGED clientVars
    BY <1>6 DEF timeout
  <2> QED
    BY <2>1, <2>2, OutsidePublishKeepsLogs
<1> QED
  BY <1>1, <1>2, <1>3, <1>4, <1>5, <1>6 DEF Next, ApplicationStep

\* A publication reaches exactly the clients that were told they are subscribed to
\* its topic, at that place among their frames: for any number of clients, handlers,
\* timers and publications, if no params can be taken for a confirmation.
THEOREM PublishesReachSubscribersHolds ==
  ASSUME PlainParams
  PROVE  Spec => []PublishesReachSubscribers
<1>1. Init => PublicationInv
  <2> SUFFICES ASSUME Init PROVE PublicationInv
    OBVIOUS
  <2>1. published = <<>> /\ m_clients = {} /\ \A s \in Sockets : sent[s] = <<>>
    BY DEF Init
  <2>2. Len(<<>>) = 0
    OBVIOUS
  <2> QED
    BY <2>1, <2>2 DEF PublicationInv, LogInv, Copies
<1>2. PublicationInv => PublishesReachSubscribers
  BY DEF PublicationInv, LogInv, Copies, Expected, PublishesReachSubscribers
<1> QED
  BY <1>1, <1>2, TypeInvHolds, NextKeepsLogs, PTL DEF Spec

----------------------------------------------------------------------------
(* Refusals name their error, so that the client does not take them for     *)
(* successes.                                                               *)

\* Every error the service names is a text.
LEMMA ErrorsAreTexts == \A error \in Errors : error # NoText
BY Zenon DEF Errors, NoText

\* A request refused, by the service or by a handler that gives no reason, is
\* answered with an error message: an answer without one holds a result.
THEOREM RefusalsNameAnErrorHolds == Spec => []RefusalsNameAnError
<1>1. \A result \in Results : result # EmptyObject
  <2>1. \A m, text : TextObject(m, text).member = m
    BY DEF TextObject
  <2>2. EmptyObject.member = "none" /\ AppObject(0).member = "app"
    BY DEF EmptyObject, AppObject
  <2>3. \A params : ResultOf(params) # EmptyObject
    BY <2>2 DEF ResultOf
  <2> QED
    BY <2>1, <2>2, <2>3 DEF Results
<1>2. \A frame \in Answers : frame.error = NoText => frame.result # EmptyObject
  BY <1>1, ErrorsAreTexts DEF Answers, buildResponse, buildErrorResponse
<1>3. \A frame \in Publications : ~isResponse(frame)
  <2>1. \A frame \in Publications : frame.type = messageTypeToString("Publish")
    BY DEF Publications, buildPublish
  <2> QED
    BY <2>1, TypesReadBack DEF isResponse
<1>4. TypeInv => RefusalsNameAnError
  <2> SUFFICES ASSUME TypeInv PROVE RefusalsNameAnError
    OBVIOUS
  <2>1. \A s \in Sockets : \A i \in 1..Len(sent[s]) : sent[s][i] \in Sendable
    BY ElementOfSeq DEF TypeInv, LogsTyped
  <2> QED
    BY <1>2, <1>3, <2>1 DEF Sendable, RefusalsNameAnError
<1> QED
  BY <1>4, TypeInvHolds, PTL

----------------------------------------------------------------------------
(* A log answers the frames received: one answer to each request, in order, *)
(* with its id.                                                             *)

\* A frame that is no answer is sent.
LEMMA AnsweredPublish ==
  ASSUME NEW frames \in Seq(Inbound), NEW log \in Seq(Sendable), NEW frame \in Sendable,
         ~isResponse(frame), Answered(frames, log)
  PROVE  Answered(frames, Append(log, frame))
<1> DEFINE longer == Append(log, frame)
<1>1. /\ Len(log) \in Nat /\ Len(longer) = Len(log) + 1
      /\ \A i \in 1..Len(log) : longer[i] = log[i]
      /\ longer[Len(log) + 1] = frame
  BY AppendProperties, LenProperties
<1> HIDE DEF longer
<1>2. AnswersIn(longer) = AnswersIn(log) /\ \A i \in AnswersIn(log) : longer[i] = log[i]
  BY <1>1 DEF AnswersIn
<1>3. PICK answer \in Surjection(RequestsIn(frames), AnswersIn(log)) :
        \A i \in RequestsIn(frames) :
          /\ log[answer[i]].id = IF isValidId(frames[i].id) THEN frames[i].id ELSE NoId
          /\ \A j \in RequestsIn(frames) : i < j => answer[i] < answer[j]
  BY DEF Answered
<1>4. \A i \in RequestsIn(frames) : answer[i] \in AnswersIn(log)
  BY DEF Surjection
<1> QED
  BY <1>2, <1>3, <1>4 DEF Answered, longer

\* A frame that is no request is received.
LEMMA AnsweredOther ==
  ASSUME NEW frames \in Seq(Inbound), NEW log \in Seq(Sendable), NEW message \in Inbound,
         ~RequestLike(message), Answered(frames, log)
  PROVE  Answered(Append(frames, message), log)
<1> DEFINE longer == Append(frames, message)
<1>1. /\ Len(frames) \in Nat /\ Len(longer) = Len(frames) + 1
      /\ \A i \in 1..Len(frames) : longer[i] = frames[i]
      /\ longer[Len(frames) + 1] = message
  BY AppendProperties, LenProperties
<1> HIDE DEF longer
<1>2. /\ RequestsIn(longer) = RequestsIn(frames)
      /\ \A i \in RequestsIn(frames) : longer[i] = frames[i]
  BY <1>1 DEF RequestsIn
<1> QED
  BY <1>2 DEF Answered, longer

\* A request is received, and answered.
LEMMA AnsweredRequest ==
  ASSUME NEW frames \in Seq(Inbound), NEW log \in Seq(Sendable),
         NEW message \in Inbound, RequestLike(message),
         NEW frame \in Sendable, isResponse(frame),
         frame.id = IF isValidId(message.id) THEN message.id ELSE NoId,
         Answered(frames, log)
  PROVE  Answered(Append(frames, message), Append(log, frame))
<1> DEFINE received1 == Append(frames, message)
           sent1 == Append(log, frame)
           m == Len(frames) + 1
           n == Len(log) + 1
<1>1. /\ Len(frames) \in Nat /\ Len(received1) = m
      /\ \A i \in 1..Len(frames) : received1[i] = frames[i]
      /\ received1[m] = message
  BY AppendProperties, LenProperties
<1>2. /\ Len(log) \in Nat /\ Len(sent1) = n
      /\ \A i \in 1..Len(log) : sent1[i] = log[i]
      /\ sent1[n] = frame
  BY AppendProperties, LenProperties
<1> HIDE DEF received1, sent1
<1>3. /\ RequestsIn(received1) = RequestsIn(frames) \cup {m}
      /\ \A i \in RequestsIn(frames) : i \in Nat /\ i < m /\ received1[i] = frames[i]
  BY <1>1 DEF RequestsIn
<1>4. /\ AnswersIn(sent1) = AnswersIn(log) \cup {n}
      /\ \A i \in AnswersIn(log) : i \in Nat /\ i < n /\ sent1[i] = log[i]
  BY <1>2 DEF AnswersIn
<1>5. m \in Nat /\ n \in Nat
  BY <1>1, <1>2
<1> HIDE DEF m, n
<1> DEFINE requests == RequestsIn(frames)
           answers == AnswersIn(log)
<1>6. PICK answer \in Surjection(requests, answers) :
        \A i \in requests :
          /\ log[answer[i]].id = IF isValidId(frames[i].id) THEN frames[i].id ELSE NoId
          /\ \A j \in requests : i < j => answer[i] < answer[j]
  BY DEF Answered
<1>7. answer \in [requests -> answers] /\ \A a \in answers : \E i \in requests : answer[i] = a
  BY DEF Surjection
<1> DEFINE longer == [i \in requests \cup {m} |-> IF i = m THEN n ELSE answer[i]]
<1> HIDE DEF requests, answers
<1>8. /\ longer[m] = n
      /\ \A i \in requests : longer[i] = answer[i] /\ i # m
  BY <1>3, <1>5 DEF requests
<1>9. longer \in [requests \cup {m} -> answers \cup {n}]
  BY <1>7
<1> HIDE DEF longer
<1>10. longer \in Surjection(requests \cup {m}, answers \cup {n})
  BY <1>7, <1>8, <1>9 DEF Surjection
<1>11. ASSUME NEW i \in requests \cup {m}
       PROVE  /\ sent1[longer[i]].id = IF isValidId(received1[i].id) THEN received1[i].id ELSE NoId
              /\ \A j \in requests \cup {m} : i < j => longer[i] < longer[j]
  <2>1. CASE i = m
    <3>1. \A j \in requests \cup {m} : ~(m < j)
      BY <1>3, <1>5 DEF requests
    <3> QED
      BY <1>1, <1>2, <1>8, <2>1, <3>1
  <2>2. CASE i \in requests
    <3>1. answer[i] \in answers
      BY <1>7, <2>2
    <3>2. sent1[longer[i]] = log[answer[i]] /\ received1[i] = frames[i]
      BY <1>3, <1>4, <1>8, <2>2, <3>1 DEF requests, answers
    <3>3. answer[i] < n
      BY <1>4, <3>1 DEF answers
    <3> QED
      BY <1>6, <1>8, <2>2, <3>2, <3>3
  <2> QED
    BY <2>1, <2>2
<1> QED
  BY <1>3, <1>4, <1>10, <1>11 DEF Answered, requests, answers, received1, sent1

\* A publication is no answer.
LEMMA PublicationsAreNoAnswers ==
  \A t, n : ~isResponse(buildPublish(t, AppObject(n)))
<1>1. \A t, n : buildPublish(t, AppObject(n)).type = messageTypeToString("Publish")
  BY DEF buildPublish
<1> QED
  BY <1>1, TypesReadBack DEF isResponse

\* A publication leaves the logs answering what they answered.
LEMMA DeliveryKeepsAnswers ==
  ASSUME TypeInv, RepliesMatchRequests, NEW t \in Topics, RecordPublication(t)
  PROVE  \A s \in Sockets : Answered(received[s], Delivered(t)[s])
<1> DEFINE frame == buildPublish(t, AppObject(Len(published) + 1))
<1>1. /\ sent \in [Sockets -> Seq(Sendable)] /\ received \in [Sockets -> Seq(Inbound)]
      /\ published \in Seq(Entries)
  BY DEF TypeInv, LogsTyped, TypeOK
<1>2. frame \in Sendable /\ ~isResponse(frame)
  <2>1. Len(published) + 1 \in Nat
    BY <1>1, LenProperties
  <2> QED
    BY <2>1, AnswersSendable, PublicationsAreNoAnswers
<1> HIDE DEF frame
<1>3. \A s \in Sockets : Delivered(t)[s] = Append(sent[s], frame) \/ Delivered(t)[s] = sent[s]
  BY DEF Delivered, frame
<1>4. \A s \in Sockets : Answered(received[s], Append(sent[s], frame))
  BY <1>1, <1>2, AnsweredPublish DEF RepliesMatchRequests
<1> QED
  BY <1>3, <1>4 DEF RepliesMatchRequests

\* The frames sent while a request is handled, and then the answer to it.
LEMMA ReplyKeepsAnswers ==
  ASSUME TypeInv, NEW log \in [Sockets -> Seq(Sendable)],
         \A v \in Sockets : Answered(received[v], log[v]),
         NEW s \in Sockets, NEW message \in Inbound, RequestLike(message),
         NEW frame \in Sendable, isResponse(frame),
         frame.id = IF isValidId(message.id) THEN message.id ELSE NoId,
         received' = [received EXCEPT ![s] = Append(@, message)], sent' = Reply(log, s, frame)
  PROVE  RepliesMatchRequests'
<1>1. received \in [Sockets -> Seq(Inbound)]
  BY DEF TypeInv, TypeOK
<1>2. Answered(Append(received[s], message), Append(log[s], frame))
  BY <1>1, AnsweredRequest
<1>3. /\ received'[s] = Append(received[s], message) /\ sent'[s] = Append(log[s], frame)
      /\ \A v \in Sockets \ {s} : received'[v] = received[v] /\ sent'[v] = log[v]
  BY <1>1 DEF Reply
<1> SUFFICES ASSUME NEW v \in Sockets PROVE Answered(received'[v], sent'[v])
  BY DEF RepliesMatchRequests
<1>4. CASE v = s
  BY <1>2, <1>3, <1>4
<1>5. CASE v # s
  BY <1>3, <1>5
<1> QED
  BY <1>4, <1>5

\* The answers that the service makes.
LEMMA AnswersAnswer ==
  ASSUME NEW message \in Inbound, RequestLike(message)
  PROVE  /\ \A error \in Errors :
              /\ buildErrorResponse(parseId(message), error) \in Sendable
              /\ isResponse(buildErrorResponse(parseId(message), error))
              /\ buildErrorResponse(parseId(message), error).id = message.id
              /\ buildErrorResponse(NoId, error) \in Sendable
              /\ isResponse(buildErrorResponse(NoId, error))
              /\ buildErrorResponse(NoId, error).id = NoId
         /\ \A result \in Results :
              /\ buildResponse(parseId(message), result) \in Sendable
              /\ isResponse(buildResponse(parseId(message), result))
              /\ buildResponse(parseId(message), result).id = message.id
         /\ \A handler :
              /\ HandlerReply(handler, message) \in Sendable
              /\ isResponse(HandlerReply(handler, message))
              /\ HandlerReply(handler, message).id = message.id
<1>1. parseId(message) = message.id /\ parseId(message) \in Ids /\ NoId \in Ids
  BY DEF parseId, Ids
<1>2. \A id, error : /\ buildErrorResponse(id, error).type = messageTypeToString("Response")
                     /\ buildErrorResponse(id, error).id = id
  BY DEF buildErrorResponse
<1>3. \A id, result : /\ buildResponse(id, result).type = messageTypeToString("Response")
                      /\ buildResponse(id, result).id = id
  BY DEF buildResponse
<1>4. \A handler : HandlerReply(handler, message) \in
        {buildResponse(parseId(message), ResultOf(parseParams(message))),
         buildErrorResponse(parseId(message), ErrorText(handler))}
  BY DEF HandlerReply
<1>5. \A handler :
        /\ isResponse(HandlerReply(handler, message))
        /\ HandlerReply(handler, message).id = message.id
  <2> SUFFICES ASSUME NEW handler
               PROVE  /\ isResponse(HandlerReply(handler, message))
                      /\ HandlerReply(handler, message).id = message.id
    OBVIOUS
  <2>1. CASE HandlerReply(handler, message) = buildResponse(parseId(message), ResultOf(parseParams(message)))
    BY <1>1, <1>3, <2>1, TypesReadBack DEF isResponse
  <2>2. CASE HandlerReply(handler, message) = buildErrorResponse(parseId(message), ErrorText(handler))
    BY <1>1, <1>2, <2>2, TypesReadBack DEF isResponse
  <2> QED
    BY <1>4, <2>1, <2>2
<1>6. \A error \in Errors :
        /\ isResponse(buildErrorResponse(parseId(message), error))
        /\ isResponse(buildErrorResponse(NoId, error))
  BY <1>2, TypesReadBack DEF isResponse
<1>7. \A result \in Results : isResponse(buildResponse(parseId(message), result))
  BY <1>3, TypesReadBack DEF isResponse
<1> QED
  BY <1>1, <1>2, <1>3, <1>5, <1>6, <1>7, AnswersSendable, HandlerReplySendable

\* A frame that is read keeps the answers: a request is answered once, after what its
\* handler publishes, and nothing else is.
LEMMA FrameKeepsAnswers ==
  ASSUME TypeInv, RepliesMatchRequests, NEW s \in Sockets, NEW message \in Inbound,
         onTextMessageReceived(s, message)
  PROVE  RepliesMatchRequests'
<1>1. /\ sent \in [Sockets -> Seq(Sendable)] /\ received \in [Sockets -> Seq(Inbound)]
      /\ received' = [received EXCEPT ![s] = Append(@, message)]
  BY DEF TypeInv, TypeOK, LogsTyped, onTextMessageReceived
<1>2. \A v \in Sockets : Answered(received[v], sent[v])
  BY DEF RepliesMatchRequests
<1>3. ASSUME ~RequestLike(message), NEW log \in [Sockets -> Seq(Sendable)], sent' = log,
             \A v \in Sockets : Answered(received[v], log[v])
      PROVE  RepliesMatchRequests'
  <2> SUFFICES ASSUME NEW v \in Sockets PROVE Answered(received'[v], sent'[v])
    BY DEF RepliesMatchRequests
  <2>1. CASE v = s
    <3>1. received'[v] = Append(received[v], message)
      BY <1>1, <2>1
    <3>2. Answered(Append(received[v], message), log[v])
      BY <1>1, <1>3, AnsweredOther
    <3> QED
      BY <1>3, <3>1, <3>2
  <2>2. CASE v # s
    BY <1>1, <1>3, <2>2
  <2> QED
    BY <2>1, <2>2
<1>4. ASSUME RequestLike(message), NEW frame, sendJson(s, frame), frame \in Sendable,
             isResponse(frame),
             frame.id = IF isValidId(message.id) THEN message.id ELSE NoId
      PROVE  RepliesMatchRequests'
  BY <1>1, <1>2, <1>4, ReplyKeepsAnswers DEF sendJson
<1>5. CASE isPublish(message) /\ handlePublish(message)
  <2> DEFINE t == parseTopic(message)
  <2>1. ~RequestLike(message)
    BY <1>5 DEF RequestLike
  <2>2. CASE t \in DOMAIN m_publishHandlers /\ publishToSubscribed(t)
    <3>1. t \in Topics
      BY <2>2 DEF TypeInv, TypeOK
    <3> HIDE DEF t
    <3>2. RecordPublication(t) /\ sent' = Delivered(t)
      BY <2>2 DEF publishToSubscribed
    <3>3. /\ Delivered(t) \in [Sockets -> Seq(Sendable)]
          /\ \A v \in Sockets : Answered(received[v], Delivered(t)[v])
      BY <3>1, <3>2, PublicationTyped, DeliveryKeepsAnswers
    <3> QED
      BY <1>3, <2>1, <3>2, <3>3
  <2>3. CASE UNCHANGED sent
    BY <1>1, <1>2, <1>3, <2>1, <2>3
  <2> QED
    BY <1>5, <2>2, <2>3 DEF handlePublish
<1>6. CASE ~isPublish(message) /\ ~RequestLike(message) /\ UNCHANGED sent
  BY <1>1, <1>2, <1>3, <1>6
<1>7. CASE /\ RequestLike(message) /\ ~isValidId(parseId(message))
           /\ sendJson(s, buildErrorResponse(NoId, "Invalid request id"))
  <2>1. "Invalid request id" \in Errors /\ ~isValidId(message.id)
    BY <1>7 DEF Errors, parseId
  <2> QED
    BY <1>4, <1>7, <2>1, AnswersAnswer
<1>8. CASE RequestLike(message) /\ isValidId(parseId(message)) /\ SubscribeTopic(s, message)
  <2> DEFINE t == RequestedTopic(message)
  <2>0. isValidId(message.id)
    BY <1>8 DEF parseId
  <2>1. CASE sendJson(s, buildErrorResponse(parseId(message), "Invalid topic"))
    <3>1. "Invalid topic" \in Errors
      BY DEF Errors
    <3> QED
      BY <1>4, <1>8, <2>0, <2>1, <3>1, AnswersAnswer
  <2>2. CASE sendJson(s, buildResponse(parseId(message), TextObject("subscribed", topicToString(t))))
    <3>1. TextObject("subscribed", topicToString(t)) \in Results
      BY TopicsRead DEF Results, RequestedTopic
    <3> QED
      BY <1>4, <1>8, <2>0, <2>2, <3>1, AnswersAnswer
  <2> QED
    BY <1>8, <2>1, <2>2 DEF SubscribeTopic
<1>9. CASE RequestLike(message) /\ isValidId(parseId(message)) /\ UnsubscribeTopic(s, message)
  <2> DEFINE t == RequestedTopic(message)
  <2>0. isValidId(message.id)
    BY <1>9 DEF parseId
  <2>1. sendJson(s, buildResponse(parseId(message), TextObject("unsubscribed", topicToString(t))))
    BY <1>9 DEF UnsubscribeTopic
  <2>2. TextObject("unsubscribed", topicToString(t)) \in Results
    BY TopicsRead DEF Results, RequestedTopic
  <2> QED
    BY <1>4, <1>9, <2>0, <2>1, <2>2, AnswersAnswer
<1>10. CASE RequestLike(message) /\ isValidId(parseId(message)) /\ CallHandler(s, message)
  <2> DEFINE method == parseMethod(message)
             handler == IF method \in DOMAIN m_methodHandlers THEN m_methodHandlers[method] ELSE "empty"
             reply == HandlerReply(handler, message)
  <2>0. isValidId(message.id)
    BY <1>10 DEF parseId
  <2>1. reply \in Sendable /\ isResponse(reply) /\ reply.id = message.id
    BY <1>10, AnswersAnswer
  <2>2. CASE sendJson(s, buildErrorResponse(parseId(message), "Method not found"))
    <3>1. "Method not found" \in Errors
      BY DEF Errors
    <3> QED
      BY <1>4, <1>10, <2>0, <2>2, <3>1, AnswersAnswer
  <2>3. CASE sendJson(s, reply)
    <3> HIDE DEF reply
    <3> QED
      BY <1>4, <1>10, <2>0, <2>1, <2>3
  <2>4. CASE /\ RecordPublication(AnnouncedTopic)
             /\ sent' = Reply(Delivered(AnnouncedTopic), s, reply)
    <3> HIDE DEF reply
    <3> DEFINE log == Delivered(AnnouncedTopic)
    <3>1. AnnouncedTopic \in Topics
      BY ServerAssumption
    <3>2. log \in [Sockets -> Seq(Sendable)] /\ \A v \in Sockets : Answered(received[v], log[v])
      BY <2>4, <3>1, PublicationTyped, DeliveryKeepsAnswers
    <3>3. sent' = Reply(log, s, reply)
      BY <2>4
    <3> HIDE DEF log
    <3> QED
      BY <1>1, <1>10, <2>0, <2>1, <3>2, <3>3, ReplyKeepsAnswers
  <2> QED
    BY <1>10, <2>2, <2>3, <2>4 DEF CallHandler
<1> QED
  BY <1>5, <1>6, <1>7, <1>8, <1>9, <1>10 DEF onTextMessageReceived, processRequest

\* Every step keeps the answers.
LEMMA NextKeepsAnswers ==
  TypeInv /\ RepliesMatchRequests /\ [Next]_serverVars => RepliesMatchRequests'
<1> SUFFICES ASSUME TypeInv, RepliesMatchRequests, [Next]_serverVars PROVE RepliesMatchRequests'
  OBVIOUS
<1>0. ASSUME UNCHANGED <<sent, received>> PROVE RepliesMatchRequests'
  BY <1>0 DEF RepliesMatchRequests
<1>1. ASSUME NEW t \in Topics, publishToSubscribed(t), UNCHANGED received
      PROVE  RepliesMatchRequests'
  <2>1. \A s \in Sockets : Answered(received[s], Delivered(t)[s])
    BY <1>1, DeliveryKeepsAnswers DEF publishToSubscribed
  <2> QED
    BY <1>1, <2>1 DEF publishToSubscribed, RepliesMatchRequests
<1>2. ASSUME ConnectionStep PROVE RepliesMatchRequests'
  BY <1>0, <1>2 DEF ConnectionStep, start, restart, acceptFromListener, attachUpgradedSocket,
                    onNewConnection, onSocketDisconnected, logs
<1>3. ASSUME \/ \E method \in Methods, handler \in MethodHandlers : registerMethodHandler(method, handler)
             \/ \E t \in Topics, handler \in PublishHandlers : registerPublishHandler(t, handler)
             \/ \E t \in Topics, publisher \in Publishers : registerPeriodicPublisher(t, publisher)
             \/ UNCHANGED serverVars
      PROVE  RepliesMatchRequests'
  BY <1>0, <1>3 DEF registerMethodHandler, registerPublishHandler, registerPeriodicPublisher, logs,
                    serverVars
<1>4. ASSUME NEW t \in Topics, publish(t) PROVE RepliesMatchRequests'
  BY <1>1, <1>4 DEF publish
<1>5. ASSUME NEW method \in Methods, processRequestForTest(method) PROVE RepliesMatchRequests'
  <2>1. AnnouncedTopic \in Topics /\ publish(AnnouncedTopic)
    BY <1>5, ServerAssumption DEF processRequestForTest
  <2> QED
    BY <1>4, <2>1
<1>6. ASSUME NEW timer \in DOMAIN timers, timeout(timer) PROVE RepliesMatchRequests'
  <2>1. timers[timer] \in Topics
    BY DEF TypeInv, TypeOK
  <2>2. publishToSubscribed(timers[timer]) /\ UNCHANGED received
    BY <1>6 DEF timeout
  <2> QED
    BY <1>1, <2>1, <2>2
<1> QED
  BY <1>2, <1>3, <1>4, <1>5, <1>6, FrameKeepsAnswers DEF Next, ApplicationStep

\* A client gets one answer to each request, in the order of the requests and with the
\* id of each, and to nothing else: for any frames it sends, well formed or not, and
\* whatever handlers, timers and other clients publish in between.
THEOREM RepliesMatchRequestsHolds == Spec => []RepliesMatchRequests
<1>1. Init => RepliesMatchRequests
  <2> SUFFICES ASSUME Init, NEW s \in Sockets PROVE Answered(received[s], sent[s])
    BY DEF RepliesMatchRequests
  <2>1. received[s] = <<>> /\ sent[s] = <<>>
    BY DEF Init
  <2>2. RequestsIn(<<>>) = {} /\ AnswersIn(<<>>) = {}
    BY DEF RequestsIn, AnswersIn
  <2> DEFINE none == [i \in {} |-> i]
  <2>3. none \in Surjection({}, {})
    BY DEF Surjection
  <2> QED
    BY <2>1, <2>2, <2>3 DEF Answered
<1> QED
  BY <1>1, TypeInvHolds, NextKeepsAnswers, PTL DEF Spec
=============================================================================
