----------------------- MODULE WebSocketSessionProofs -----------------------
(***************************************************************************)
(* Theorems about WebSocketSession: that the server is a peer as the       *)
(* client's specification assumes it, so that every theorem about the      *)
(* client holds of the session, that callbacks tell the truth of what the  *)
(* backend did, and that the two ends agree on the subscriptions.          *)
(*                                                                         *)
(* The invariant relates the logs of a connection: the server has read a   *)
(* prefix of what the client sent, each frame it has sent answers a frame  *)
(* it has read, and it serves the topics that the frames it has read       *)
(* announce.                                                               *)
(***************************************************************************)
EXTENDS WebSocketSession, WebSocketWireProofs

\* The application calls the methods of the backend by request(), the backend's handlers
\* are of the kinds WebSocketServer models, and the errors the server can answer with
\* are among the ones WebSocketClient lets a peer answer with.
SessionAssumption ==
  /\ PlainMethods
  /\ MethodHandlers \subseteq Server!MethodHandlerKinds
  /\ {"Refused", "Request failed", "Method not found"} \subseteq ErrorTexts

----------------------------------------------------------------------------
(* The frames of the client, as the server reads them. *)

Accepting(r) == m_methodHandlers[parseMethod(r)] \in {"answers", "announces"}

\* A frame is the server's answer to request r.
AnswersRequest(frame, r) ==
  /\ isRequest(r)
  /\ \/ /\ frame = buildResponse(r.id, PeerResult(r))
        /\ r.method \in {"subscribe", "unsubscribe"} \/ Accepting(r)
     \/ /\ \E e \in ErrorTexts : frame = buildErrorResponse(r.id, e)
        /\ r.method \notin {"subscribe", "unsubscribe"} /\ ~Accepting(r)

\* Names of methods and topics read back as they were written.
LEMMA NamesReadBack ==
  /\ \A m \in allMethods : methodFromString(methodToString(m)) = m
  /\ \A t \in allTopics : topicFromString(topicToString(t)) = t /\ t # "UnknownTopic"
<1>1. \A m, u \in allMethods : MethodNames[m] = MethodNames[u] => m = u
  BY DEF allMethods, MethodNames
<1>2. \A m \in allMethods : methodToString(m) = MethodNames[m]
  BY DEF methodToString, ToWire, allMethods
<1>3. \A m \in allMethods :
        /\ methodFromString(MethodNames[m]) \in allMethods
        /\ MethodNames[methodFromString(MethodNames[m])] = MethodNames[m]
  BY DEF methodFromString, FromWire, allMethods
<1>4. \A t \in allTopics : topicToString(t) = TopicNames[t]
  BY DEF topicToString, ToWire, allTopics
<1>5. \A t \in allTopics :
        /\ topicFromString(TopicNames[t]) \in allTopics
        /\ TopicNames[topicFromString(TopicNames[t])] = TopicNames[t]
  BY DEF topicFromString, FromWire, allTopics
<1>6. \A t \in allTopics : topicFromString(topicToString(t)) = t
  BY <1>4, <1>5, TopicNamesDiffer
<1>7. "UnknownTopic" \notin allTopics
  BY DEF allTopics, TopicNames
<1> QED
  BY <1>1, <1>2, <1>3, <1>6, <1>7

\* How the server reads a frame of the client: a publish, a call of a method it may
\* have a handler for, or a request about a topic.
ReadsAsPublish(frame) ==
  /\ isPublish(frame) /\ ~isRequest(frame)
  /\ frame.method = NoText /\ frame.params = EmptyObject

ReadsAsRequest(frame) == ~isPublish(frame) /\ isRequest(frame) /\ isValidId(frame.id)

ReadsAsCall(frame) ==
  /\ ReadsAsRequest(frame)
  /\ parseMethod(frame) \in Methods
  /\ parseMethod(frame) \notin {"Subscribe", "Unsubscribe"}
  /\ frame.method \notin {"subscribe", "unsubscribe"}

ReadsAsTopicRequest(frame, m, t) ==
  /\ ReadsAsRequest(frame)
  /\ parseMethod(frame) = m /\ frame.method = methodToString(m)
  /\ TopicMember(frame.params) = topicToString(t)
  /\ topicFromString(TopicMember(frame.params)) = t
  /\ \A c : frame.params # AppObject(c)

\* Requests and publishes differ for the server, too.
LEMMA RequestsRead ==
  /\ \A id, m, params : isRequest(buildRequest(id, m, params)) /\ ~isPublish(buildRequest(id, m, params))
  /\ \A t, params : isPublish(buildPublish(t, params)) /\ ~isRequest(buildPublish(t, params))
  /\ \A id, result : isResponse(buildResponse(id, result)) /\ ~isPublish(buildResponse(id, result))
  /\ \A id, e : isResponse(buildErrorResponse(id, e)) /\ ~isPublish(buildErrorResponse(id, e))
<1>1. /\ DOMAIN MessageTypeNames = {"Request", "Response", "Publish"}
      /\ MessageTypeNames["Request"] = "request"
      /\ MessageTypeNames["Response"] = "response"
      /\ MessageTypeNames["Publish"] = "publish"
  BY DEF MessageTypeNames
<1>2. /\ messageTypeFromString("request") = "Request"
      /\ messageTypeFromString("response") = "Response"
      /\ messageTypeFromString("publish") = "Publish"
  BY <1>1 DEF messageTypeFromString, FromWire
<1>3. /\ \A id, m, params : buildRequest(id, m, params).type = "request"
      /\ \A t, params : buildPublish(t, params).type = "publish"
      /\ \A id, result : buildResponse(id, result).type = "response"
      /\ \A id, e : buildErrorResponse(id, e).type = "response"
  BY WireTypes DEF buildRequest, buildPublish, buildResponse, buildErrorResponse
<1> QED
  BY <1>2, <1>3 DEF isRequest, isPublish, isResponse

LEMMA WireFramesRead ==
  ASSUME SessionAssumption, NEW frame, WireFrame(frame)
  PROVE  \/ ReadsAsPublish(frame)
         \/ ReadsAsCall(frame)
         \/ \E m \in {"Subscribe", "Unsubscribe"}, t \in Topics : ReadsAsTopicRequest(frame, m, t)
<1>1. \A k : isValidId(NumberId(k))
  BY DEF isValidId, NumberId
<1>2. CASE CallFrame(frame)
  <2>1. PICK k \in 1..(m_nextRequestId - 1), m \in Methods :
          \E params : frame = buildRequest(NumberId(k), m, params)
    BY <1>2 DEF CallFrame
  <2>2. m \in allMethods /\ m \notin {"Subscribe", "Unsubscribe"}
    BY VocabularyAssumption DEF SessionAssumption, PlainMethods
  <2>3. parseMethod(frame) = m /\ frame.method \notin {"subscribe", "unsubscribe"}
    BY <2>1, <2>2, NamesReadBack, MethodNamesDiffer, FrameFields DEF parseMethod
  <2> QED
    BY <1>1, <2>1, <2>2, <2>3, RequestsRead, FrameFields DEF ReadsAsCall, ReadsAsRequest
<1>3. CASE SubscriptionFrame(frame)
  <2>1. PICK k \in 1..(m_nextRequestId - 1), m \in {"Subscribe", "Unsubscribe"}, t \in Topics :
          frame = buildRequest(NumberId(k), m, TextObject("topic", topicToString(t)))
    BY <1>3 DEF SubscriptionFrame
  <2>2. m \in allMethods /\ t \in allTopics
    BY VocabularyAssumption, SubscriptionMethods
  <2>3. parseMethod(frame) = m /\ frame.method = methodToString(m)
    BY <2>1, <2>2, NamesReadBack, FrameFields DEF parseMethod
  <2>4. TopicMember(frame.params) = topicToString(t) /\ topicFromString(topicToString(t)) = t
    BY <2>1, <2>2, NamesReadBack, FrameFields DEF TopicMember, TextObject
  <2>5. \A c : frame.params # AppObject(c)
    BY <2>1, FrameFields, ObjectsDiffer
  <2> QED
    BY <1>1, <2>1, <2>3, <2>4, <2>5, RequestsRead, FrameFields DEF ReadsAsTopicRequest, ReadsAsRequest
<1>4. CASE \E t \in Topics : frame = buildPublish(t, EmptyObject)
  BY <1>4, RequestsRead, FrameFields DEF ReadsAsPublish
<1> QED
  BY <1>2, <1>3, <1>4 DEF WireFrame

----------------------------------------------------------------------------
(* The server's instance has its own copy of the wire contract. *)

\* Both ends use the same names and conversions: the contract is one module.
LEMMA SameWireNames ==
  /\ Server!NoText = NoText
  /\ Server!MessageTypeNames = MessageTypeNames
  /\ Server!MethodNames = MethodNames
  /\ Server!TopicNames = TopicNames
  /\ Server!NoId = NoId
<1>1. Server!NoText = NoText
  BY Zenon DEF Server!NoText, NoText
<1>2. Server!MessageTypeNames = MessageTypeNames
  BY DEF Server!MessageTypeNames, MessageTypeNames
<1>3. Server!MethodNames = MethodNames
  BY DEF Server!MethodNames, MethodNames
<1>4. Server!TopicNames = TopicNames
  BY DEF Server!TopicNames, TopicNames
<1>5. Server!NoId = NoId
  BY DEF Server!NoId, NoId
<1> QED
  BY <1>1, <1>2, <1>3, <1>4, <1>5

LEMMA SameConversions ==
  /\ \A names, v : Server!ToWire(names, v) = ToWire(names, v)
  /\ \A names, text, unknown : Server!FromWire(names, text, unknown) = FromWire(names, text, unknown)
BY DEF Server!ToWire, ToWire, Server!FromWire, FromWire

LEMMA SameContract ==
  /\ \A id, result : Server!buildResponse(id, result) = buildResponse(id, result)
  /\ \A id, e : Server!buildErrorResponse(id, e) = buildErrorResponse(id, e)
  /\ \A t, params : Server!buildPublish(t, params) = buildPublish(t, params)
  /\ \A member, text : Server!TextObject(member, text) = TextObject(member, text)
  /\ \A n : Server!AppObject(n) = AppObject(n)
  /\ \A params : Server!ResultOf(params) = ResultOf(params)
  /\ \A t : Server!topicToString(t) = topicToString(t)
  /\ \A text : Server!topicFromString(text) = topicFromString(text)
  /\ \A object : Server!TopicMember(object) = TopicMember(object)
  /\ \A id : Server!isValidId(id) <=> isValidId(id)
  /\ \A frame : /\ Server!isPublish(frame) <=> isPublish(frame)
                /\ Server!isRequest(frame) <=> isRequest(frame)
                /\ Server!parseMethod(frame) = parseMethod(frame)
                /\ Server!parseId(frame) = frame.id
                /\ Server!parseParams(frame) = frame.params
<1> USE SameWireNames, SameConversions
<1>1. \A type : Server!messageTypeToString(type) = messageTypeToString(type)
  BY DEF Server!messageTypeToString, messageTypeToString
<1>2. \A text : Server!messageTypeFromString(text) = messageTypeFromString(text)
  BY DEF Server!messageTypeFromString, messageTypeFromString
<1>3. \A member, text : Server!TextObject(member, text) = TextObject(member, text)
  BY DEF Server!TextObject, TextObject
<1>4. \A n : Server!AppObject(n) = AppObject(n)
  BY DEF Server!AppObject, AppObject
<1>5. /\ Server!EmptyObject = EmptyObject
      /\ \A params : Server!ResultOf(params) = ResultOf(params)
  BY DEF Server!EmptyObject, EmptyObject, Server!ResultOf, ResultOf, Server!AppObject, AppObject
<1>6. \A t : Server!topicToString(t) = topicToString(t)
  BY DEF Server!topicToString, topicToString
<1>7. \A text : Server!topicFromString(text) = topicFromString(text)
  BY DEF Server!topicFromString, topicFromString
<1>8. \A text : Server!methodFromString(text) = methodFromString(text)
  BY DEF Server!methodFromString, methodFromString
<1>9. \A id, result : Server!buildResponse(id, result) = buildResponse(id, result)
  BY <1>1, <1>5 DEF Server!buildResponse, buildResponse
<1>10. \A id, e : Server!buildErrorResponse(id, e) = buildErrorResponse(id, e)
  BY <1>1, <1>5 DEF Server!buildErrorResponse, buildErrorResponse
<1>11. \A t, params : Server!buildPublish(t, params) = buildPublish(t, params)
  BY <1>1, <1>5, <1>6 DEF Server!buildPublish, buildPublish
<1>12. \A object : Server!TopicMember(object) = TopicMember(object)
  BY DEF Server!TopicMember, TopicMember
<1>13. \A id : Server!isValidId(id) <=> isValidId(id)
  BY DEF Server!isValidId, isValidId
<1>14. \A frame : /\ Server!isPublish(frame) <=> isPublish(frame)
                  /\ Server!isRequest(frame) <=> isRequest(frame)
  BY <1>2 DEF Server!isPublish, isPublish, Server!isRequest, isRequest
<1>15. \A frame : /\ Server!parseMethod(frame) = parseMethod(frame)
                  /\ Server!parseId(frame) = frame.id
                  /\ Server!parseParams(frame) = frame.params
  BY <1>8 DEF Server!parseMethod, parseMethod, Server!parseId, Server!parseParams
<1> QED
  BY <1>3, <1>4, <1>5, <1>6, <1>7, <1>9, <1>10, <1>11, <1>12, <1>13, <1>14, <1>15

----------------------------------------------------------------------------
(* What the server does with a frame it reads. *)

SessionFrames == Frames(Payloads \cup {AppObject(n) : n \in Nat}, ErrorTexts)

PublicationRecords == [topic : allTopics, at : UNION {[clients -> Nat] : clients \in SUBSET Connections}]

ServerTypes ==
  /\ m_clients \subseteq Connections
  /\ m_subscriptions \in [m_clients -> SUBSET Topics]
  /\ m_methodHandlers \in [Methods -> MethodHandlers]
  /\ DOMAIN m_publishHandlers = {}
  /\ received \in [Connections -> Seq(Frames(Payloads, ErrorTexts))]
  /\ sent \in [Connections -> Seq(SessionFrames)]
  /\ published \in Seq(PublicationRecords)
  /\ delivered \in [Connections -> Nat]

OldFrame(n, k) == k \in 1..Len(sent[n]) /\ sent'[n][k] = sent[n][k]

\* Publications only.
PublicationsSent ==
  \A n \in Connections : \A k \in 1..Len(sent'[n]) : OldFrame(n, k) \/ isPublish(sent'[n][k])

\* Publications, and on connection s the answer to request r.
AnswerSent(s, r) ==
  \A n \in Connections : \A k \in 1..Len(sent'[n]) :
    OldFrame(n, k) \/ isPublish(sent'[n][k]) \/ (n = s /\ AnswersRequest(sent'[n][k], r))

SentTyped == sent' \in [Connections -> Seq(SessionFrames)] /\ published' \in Seq(PublicationRecords)

\* The logs with the publication of topic t.
LEMMA DeliveredHolds ==
  ASSUME ServerTypes, NEW t \in allTopics
  PROVE  /\ Server!Delivered(t) \in [Connections -> Seq(SessionFrames)]
         /\ \A n \in Connections : \A k \in 1..Len(Server!Delivered(t)[n]) :
              \/ k \in 1..Len(sent[n]) /\ Server!Delivered(t)[n][k] = sent[n][k]
              \/ isPublish(Server!Delivered(t)[n][k])
<1> DEFINE frame == buildPublish(t, AppObject(Len(published) + 1))
           log == Server!Delivered(t)
<1>1. frame \in SessionFrames
  <2>1. Len(published) + 1 \in Nat
    BY LenProperties DEF ServerTypes
  <2>2. AppObject(Len(published) + 1) \in Payloads \cup {AppObject(n) : n \in Nat}
    BY <2>1
  <2>3. messageTypeToString("Publish") \in {messageTypeToString(x) : x \in DOMAIN MessageTypeNames}
    BY WireTypes
  <2>4. EmptyObject \in Payloads
    BY ObjectsTyped
  <2>5. NoId \in IdValues
    BY DEF NoId, IdValues
  <2> QED
    BY <2>2, <2>3, <2>4, <2>5 DEF SessionFrames, buildPublish, Frames
<1>2. isPublish(frame)
  BY RequestsRead
<1> HIDE DEF frame
<1>3. \A n \in Connections : sent[n] \in Seq(SessionFrames)
  BY DEF ServerTypes
<1>4. /\ DOMAIN log = Connections
      /\ \A n \in Connections : log[n] = sent[n] \/ log[n] = Append(sent[n], frame)
  BY SameContract DEF Server!Delivered, frame
<1>5. log = [n \in Connections |-> log[n]]
  BY SameContract DEF Server!Delivered
<1> HIDE DEF log
<1>6. ASSUME NEW n \in Connections
      PROVE  /\ log[n] \in Seq(SessionFrames)
             /\ \A k \in 1..Len(log[n]) :
                  (k \in 1..Len(sent[n]) /\ log[n][k] = sent[n][k]) \/ isPublish(log[n][k])
  <2>1. CASE log[n] = sent[n]
    BY <1>3, <2>1
  <2>2. CASE log[n] = Append(sent[n], frame)
    <3>1. /\ Append(sent[n], frame) \in Seq(SessionFrames)
          /\ Len(Append(sent[n], frame)) = Len(sent[n]) + 1
          /\ \A k \in 1..Len(sent[n]) : Append(sent[n], frame)[k] = sent[n][k]
          /\ Append(sent[n], frame)[Len(sent[n]) + 1] = frame
          /\ Len(sent[n]) \in Nat
      BY <1>1, <1>3, AppendProperties, LenProperties
    <3>2. \A k \in 1..(Len(sent[n]) + 1) : k \in 1..Len(sent[n]) \/ k = Len(sent[n]) + 1
      BY <3>1
    <3> QED
      BY <1>2, <2>2, <3>1, <3>2
  <2> QED
    BY <1>4, <2>1, <2>2
<1>7. log \in [Connections -> Seq(SessionFrames)]
  BY <1>5, <1>6
<1> QED
  BY <1>6, <1>7 DEF log

\* A publication is recorded.
LEMMA RecordTyped ==
  ASSUME ServerTypes, NEW t \in allTopics, Server!RecordPublication(t)
  PROVE  published' \in Seq(PublicationRecords)
<1>1. \A n \in Connections : Len(sent[n]) \in Nat
  BY LenProperties DEF ServerTypes
<1>2. [n \in m_clients |-> Len(sent[n])] \in [m_clients -> Nat] /\ m_clients \in SUBSET Connections
  BY <1>1 DEF ServerTypes
<1>3. [n \in m_clients |-> Len(sent[n])] \in UNION {[clients -> Nat] : clients \in SUBSET Connections}
  BY <1>2
<1>4. Server!Publication(t) \in PublicationRecords
  BY <1>3 DEF Server!Publication, PublicationRecords
<1> QED
  BY <1>4, AppendProperties DEF Server!RecordPublication, ServerTypes

\* An answer to request r goes out after what was published on the way to it.
LEMMA AnswerReplied ==
  ASSUME ServerTypes, NEW s \in Connections, NEW r, NEW frame \in SessionFrames,
         AnswersRequest(frame, r),
         NEW log \in [Connections -> Seq(SessionFrames)],
         \A n \in Connections : \A k \in 1..Len(log[n]) :
           (k \in 1..Len(sent[n]) /\ log[n][k] = sent[n][k]) \/ isPublish(log[n][k]),
         sent' = Server!Reply(log, s, frame)
  PROVE  sent' \in [Connections -> Seq(SessionFrames)] /\ AnswerSent(s, r)
<1>1. /\ sent'[s] = Append(log[s], frame)
      /\ \A n \in Connections : n # s => sent'[n] = log[n]
      /\ sent' = [n \in Connections |-> sent'[n]]
  BY DEF Server!Reply
<1>2. /\ Append(log[s], frame) \in Seq(SessionFrames)
      /\ Len(log[s]) \in Nat
      /\ Len(Append(log[s], frame)) = Len(log[s]) + 1
      /\ \A k \in 1..Len(log[s]) : Append(log[s], frame)[k] = log[s][k]
      /\ Append(log[s], frame)[Len(log[s]) + 1] = frame
  BY AppendProperties, LenProperties
<1>3. \A k \in 1..(Len(log[s]) + 1) : k \in 1..Len(log[s]) \/ k = Len(log[s]) + 1
  BY <1>2
<1>4. sent' \in [Connections -> Seq(SessionFrames)]
  BY <1>1, <1>2
<1>5. ASSUME NEW n \in Connections, NEW k \in 1..Len(sent'[n])
      PROVE  OldFrame(n, k) \/ isPublish(sent'[n][k]) \/ (n = s /\ AnswersRequest(sent'[n][k], r))
  <2>1. CASE n = s
    BY <1>1, <1>2, <1>3, <2>1 DEF OldFrame
  <2>2. CASE n # s
    BY <1>1, <2>2 DEF OldFrame
  <2> QED
    BY <2>1, <2>2
<1> QED
  BY <1>4, <1>5 DEF AnswerSent

\* The same when nothing was published.
LEMMA PlainAnswer ==
  ASSUME ServerTypes, NEW s \in Connections, NEW r, NEW frame \in SessionFrames,
         AnswersRequest(frame, r), Server!sendJson(s, frame)
  PROVE  SentTyped /\ AnswerSent(s, r)
<1>1. \A n \in Connections : \A k \in 1..Len(sent[n]) :
        (k \in 1..Len(sent[n]) /\ sent[n][k] = sent[n][k]) \/ isPublish(sent[n][k])
  OBVIOUS
<1>2. sent \in [Connections -> Seq(SessionFrames)] /\ sent' = Server!Reply(sent, s, frame)
  BY DEF ServerTypes, Server!sendJson
<1>3. sent' \in [Connections -> Seq(SessionFrames)] /\ AnswerSent(s, r)
  BY <1>1, <1>2, AnswerReplied
<1> QED
  BY <1>3 DEF SentTyped, ServerTypes, Server!sendJson

\* The answers to a request are frames of the session.
LEMMA AnswersTyped ==
  ASSUME NEW r \in Frames(Payloads, ErrorTexts)
  PROVE  /\ \A object \in Payloads : buildResponse(r.id, object) \in SessionFrames
         /\ \A e \in ErrorTexts : buildErrorResponse(r.id, e) \in SessionFrames
<1>1. messageTypeToString("Response") \in {messageTypeToString(x) : x \in DOMAIN MessageTypeNames}
  BY WireTypes
<1>2. r.id \in IdValues
  BY DEF Frames
<1>3. EmptyObject \in Payloads
  BY ObjectsTyped
<1> QED
  BY <1>1, <1>2, <1>3 DEF buildResponse, buildErrorResponse, Frames, SessionFrames

\* What the server serves after it has read frame r on connection s.
TopicsAfter(s, r) ==
  /\ m_subscriptions' \in [m_clients -> SUBSET Topics]
  /\ \A n \in m_clients, t \in Topics :
       t \in m_subscriptions'[n] <=>
         IF n = s /\ TopicFrame(r, t) THEN r.method = "subscribe" ELSE t \in m_subscriptions[n]

\* What reading frame r on connection s does to the server, but for the log of what it
\* has read.
FrameHandled(s, r) ==
  /\ SentTyped
  /\ AnswerSent(s, r)
  /\ TopicsAfter(s, r)

\* A frame that is about no topic of the list.
LEMMA TopicsUntouched ==
  ASSUME ServerTypes, UNCHANGED m_subscriptions, NEW s, NEW r,
         r.method \notin {"subscribe", "unsubscribe"}
  PROVE  TopicsAfter(s, r)
BY DEF ServerTypes, TopicsAfter, TopicFrame

\* A publish of the client reaches no handler of the backend.
LEMMA PublishHandled ==
  ASSUME ServerTypes, NEW s \in Connections, NEW r, ReadsAsPublish(r),
         Server!handlePublish(r), UNCHANGED m_subscriptions
  PROVE  FrameHandled(s, r)
<1>1. UNCHANGED <<sent, published>>
  BY DEF ServerTypes, Server!handlePublish
<1>2. SentTyped /\ AnswerSent(s, r)
  BY <1>1 DEF ServerTypes, SentTyped, AnswerSent, OldFrame
<1>3. NoText \notin {"subscribe", "unsubscribe"}
  BY Zenon DEF NoText
<1> QED
  BY <1>2, <1>3, TopicsUntouched DEF ReadsAsPublish, FrameHandled

\* A request about a topic is confirmed, and heeded.
LEMMA TopicRequestHandled ==
  ASSUME ServerTypes, NEW s \in m_clients, NEW r \in Frames(Payloads, ErrorTexts),
         NEW m \in {"Subscribe", "Unsubscribe"}, NEW t \in Topics, ReadsAsTopicRequest(r, m, t),
         Server!processRequest(s, r)
  PROVE  FrameHandled(s, r)
<1> DEFINE confirmation == TextObject(IF m = "Subscribe" THEN "subscribed" ELSE "unsubscribed",
                                      topicToString(t))
           frame == buildResponse(r.id, confirmation)
           topics == IF m = "Subscribe" THEN m_subscriptions[s] \cup {t} ELSE m_subscriptions[s] \ {t}
<1>1. /\ Server!RequestedTopic(r) = t /\ t # "UnknownTopic"
      /\ Server!parseMethod(r) = m /\ Server!parseId(r) = r.id
      /\ r.method = methodToString(m)
      /\ s \in Connections
  <2>1. t \in allTopics
    BY VocabularyAssumption
  <2> QED
    BY <2>1, SameContract, NamesReadBack
    DEF Server!RequestedTopic, ReadsAsTopicRequest, ReadsAsRequest, ServerTypes
<1>2. /\ Server!sendJson(s, frame)
      /\ m_subscriptions' = [m_subscriptions EXCEPT ![s] = topics]
  <2>1. CASE m = "Subscribe"
    BY <1>1, <2>1, SameContract
    DEF Server!processRequest, Server!SubscribeTopic, Server!UnsubscribeTopic, Server!CallHandler
  <2>2. CASE m = "Unsubscribe"
    BY <1>1, <2>2, SameContract
    DEF Server!processRequest, Server!SubscribeTopic, Server!UnsubscribeTopic, Server!CallHandler,
        Server!Remaining
  <2> QED
    BY <2>1, <2>2
<1>3. PeerResult(r) = confirmation
  BY <1>1, MethodNamesDiffer DEF PeerResult, ReadsAsTopicRequest
<1>4. confirmation \in Payloads
  BY BoundsAssumption DEF TextObject, Payloads, Objects
<1>5. frame \in SessionFrames /\ AnswersRequest(frame, r)
  BY <1>1, <1>3, <1>4, AnswersTyped, MethodNamesDiffer
  DEF AnswersRequest, ReadsAsTopicRequest, ReadsAsRequest
<1> HIDE DEF frame
<1>6. SentTyped /\ AnswerSent(s, r)
  BY <1>1, <1>2, <1>5, PlainAnswer
<1>7. TopicsAfter(s, r)
  <2>1. \A u \in Topics : TopicFrame(r, u) <=> u = t
    BY <1>1, TopicNamesDiffer, MethodNamesDiffer, VocabularyAssumption
    DEF TopicFrame, ReadsAsTopicRequest
  <2>2. r.method = "subscribe" <=> m = "Subscribe"
    BY <1>1, MethodNamesDiffer
  <2>3. m_subscriptions \in [m_clients -> SUBSET Topics] /\ topics \in SUBSET Topics
    BY DEF ServerTypes
  <2>4. m_subscriptions' \in [m_clients -> SUBSET Topics]
    BY <1>2, <2>3
  <2>5. /\ m_subscriptions'[s] = topics
        /\ \A n \in m_clients : n # s => m_subscriptions'[n] = m_subscriptions[n]
    BY <1>2, <2>3
  <2>6. \A u \in Topics : u \in topics <=> IF u = t THEN m = "Subscribe" ELSE u \in m_subscriptions[s]
    OBVIOUS
  <2> QED
    BY <2>1, <2>2, <2>4, <2>5, <2>6 DEF TopicsAfter
<1> QED
  BY <1>6, <1>7 DEF FrameHandled

\* A call is answered with what its handler says, after what the handler published.
LEMMA CallHandled ==
  ASSUME SessionAssumption, ServerTypes,
         NEW s \in m_clients, NEW r \in Frames(Payloads, ErrorTexts),
         ReadsAsCall(r), Server!processRequest(s, r)
  PROVE  FrameHandled(s, r)
<1> DEFINE method == parseMethod(r)
           handler == m_methodHandlers[method]
           reply == IF handler \in {"answers", "announces"}
                    THEN buildResponse(r.id, ResultOf(r.params))
                    ELSE buildErrorResponse(r.id, IF handler = "empty" THEN "Method not found"
                                                  ELSE Server!ErrorText(handler))
<1>1. /\ method \in Methods /\ method \notin {"Subscribe", "Unsubscribe"}
      /\ handler \in Server!MethodHandlerKinds
      /\ s \in Connections
      /\ isRequest(r) /\ r.method \notin {"subscribe", "unsubscribe"}
  BY DEF ReadsAsCall, ReadsAsRequest, ServerTypes, SessionAssumption
<1>2. DOMAIN m_methodHandlers = Methods
  BY DEF ServerTypes
<1>3. Server!parseMethod(r) = method /\ Server!parseId(r) = r.id /\ Server!parseParams(r) = r.params
  BY SameContract
<1>4. Server!CallHandler(s, r)
  BY <1>1, <1>3 DEF Server!processRequest, Server!SubscribeTopic, Server!UnsubscribeTopic
<1>5. /\ UNCHANGED m_subscriptions
      /\ \/ handler # "announces" /\ Server!sendJson(s, reply)
         \/ /\ Server!RecordPublication("Configuration")
            /\ sent' = Server!Reply(Server!Delivered("Configuration"), s, reply)
  <2>1. CASE handler = "empty"
    BY <1>1, <1>2, <1>3, <1>4, <2>1, SameContract DEF Server!CallHandler
  <2>2. CASE handler \in {"answers", "refuses", "refusesSilently"}
    BY <1>1, <1>2, <1>3, <1>4, <2>2, SameContract DEF Server!CallHandler, Server!HandlerReply
  <2>3. CASE handler = "announces"
    BY <1>1, <1>2, <1>3, <1>4, <2>3, SameContract
    DEF Server!CallHandler, Server!HandlerReply, Server!AnnouncedTopic
  <2> QED
    BY <1>1, <2>1, <2>2, <2>3 DEF Server!MethodHandlerKinds
<1>6. PeerResult(r) = ResultOf(r.params) /\ ResultOf(r.params) \in Payloads
  BY <1>1, MethodNamesDiffer, ResultsTyped DEF PeerResult, Frames
<1>7. reply \in SessionFrames /\ AnswersRequest(reply, r)
  <2>1. CASE handler \in {"answers", "announces"}
    BY <1>1, <1>6, <2>1, AnswersTyped DEF AnswersRequest, Accepting
  <2>2. CASE handler \notin {"answers", "announces"}
    <3>1. PICK e \in ErrorTexts : reply = buildErrorResponse(r.id, e)
      BY <2>2 DEF Server!ErrorText, SessionAssumption
    <3> QED
      BY <1>1, <2>2, <3>1, AnswersTyped DEF AnswersRequest, Accepting
  <2> QED
    BY <2>1, <2>2
<1> HIDE DEF reply
<1>8. SentTyped /\ AnswerSent(s, r)
  <2>1. CASE Server!sendJson(s, reply)
    BY <1>1, <1>7, <2>1, PlainAnswer
  <2>2. CASE /\ Server!RecordPublication("Configuration")
             /\ sent' = Server!Reply(Server!Delivered("Configuration"), s, reply)
    <3>1. "Configuration" \in allTopics
      BY DEF allTopics, TopicNames
    <3>2. published' \in Seq(PublicationRecords)
      BY <2>2, <3>1, RecordTyped
    <3>3. sent' \in [Connections -> Seq(SessionFrames)] /\ AnswerSent(s, r)
      BY <1>1, <1>7, <2>2, <3>1, DeliveredHolds, AnswerReplied
    <3> QED
      BY <3>2, <3>3 DEF SentTyped
  <2> QED
    BY <1>5, <2>1, <2>2
<1> QED
  BY <1>1, <1>5, <1>8, TopicsUntouched DEF FrameHandled

----------------------------------------------------------------------------
(* The logs of the two ends. *)

ReadsInOrder ==
  \A n \in Connections :
    /\ Len(received[n]) <= Len(wire[n])
    /\ \A i \in 1..Len(received[n]) : received[n][i] = wire[n][i]

SentSound ==
  \A n \in Connections : \A k \in 1..Len(sent[n]) :
    isPublish(sent[n][k]) \/ \E i \in 1..Len(received[n]) : AnswersRequest(sent[n][k], received[n][i])

SubscriptionsRead ==
  \A n \in m_clients, t \in Topics : t \in m_subscriptions[n] <=> Announced(received[n], t)

ServerInv == ServerTypes /\ ReadsInOrder /\ SentSound /\ SubscriptionsRead

\* One more frame on a log.
LEMMA AnnouncedNext ==
  ASSUME NEW S, NEW old \in Seq(S), NEW r \in S, NEW t
  PROVE  /\ TopicFrame(r, t) => (Announced(Append(old, r), t) <=> r.method = "subscribe")
         /\ ~TopicFrame(r, t) => (Announced(Append(old, r), t) <=> Announced(old, t))
<1>0. <<r>> \in Seq(S)
  OBVIOUS
<1>1. PICK new \in Seq(S) : new = <<r>>
  BY <1>0, Zenon
<1>2. Len(new) = 1 /\ new[1] = r /\ Append(old, r) = old \o new
  BY <1>1, AppendIsConcat
<1>3. \A k : k \in TopicFrames(new, t) <=> k \in 1..Len(new) /\ TopicFrame(new[k], t)
  BY DEF TopicFrames, TopicFrame
<1>4. \A k : k \in 1..Len(new) <=> k = 1
  BY <1>2
<1>5. \A k : k \in TopicFrames(new, t) <=> k = 1 /\ TopicFrame(r, t)
  BY <1>2, <1>3, <1>4, Zenon
<1>6. /\ TopicFrames(new, t) = {} => (Announced(old \o new, t) <=> Announced(old, t))
      /\ \A k : TopicFrames(new, t) = {k} => (Announced(old \o new, t) <=> new[k].method = "subscribe")
  BY AnnouncedConcat
<1>7. TopicFrame(r, t) => TopicFrames(new, t) = {1}
  BY <1>5
<1>8. ~TopicFrame(r, t) => TopicFrames(new, t) = {}
  BY <1>5
<1> QED
  BY <1>2, <1>6, <1>7, <1>8

\* The server reads the next frame of a connection.
LEMMA ServerReads ==
  ASSUME SessionAssumption, TypeInv, FramesSound, ServerInv, NEW n \in Connections, ServerReceives(n)
  PROVE  LET r == wire[n][Len(received[n]) + 1] IN
         /\ n \in m_clients
         /\ Len(received[n]) + 1 <= Len(wire[n])
         /\ r \in Frames(Payloads, ErrorTexts)
         /\ received' = [received EXCEPT ![n] = Append(@, r)]
         /\ FrameHandled(n, r)
         /\ UNCHANGED <<m_clients, m_methodHandlers, m_publishHandlers>>
<1> DEFINE r == wire[n][Len(received[n]) + 1]
<1>1. Len(received[n]) \in Nat /\ Len(wire[n]) \in Nat
  BY LenProperties DEF ServerInv, ServerTypes, TypeInv, TypeOK
<1>2. Len(received[n]) + 1 \in 1..Len(wire[n])
  BY <1>1 DEF ServerReceives
<1>3. r \in Frames(Payloads, ErrorTexts)
  BY <1>2, ElementOfSeq DEF TypeInv, TypeOK
<1>4. WireFrame(r)
  BY <1>2 DEF FramesSound
<1>5. Server!onTextMessageReceived(n, r)
  BY DEF ServerReceives
<1> HIDE DEF r
<1>6. /\ n \in m_clients
      /\ received' = [received EXCEPT ![n] = Append(@, r)]
      /\ UNCHANGED <<m_clients, m_methodHandlers, m_publishHandlers>>
  BY <1>5 DEF Server!onTextMessageReceived, Server!registrations
<1>7. FrameHandled(n, r)
  <2>1. CASE ReadsAsPublish(r)
    <3>1. Server!handlePublish(r) /\ UNCHANGED m_subscriptions
      BY <1>5, <2>1, SameContract, SameWireNames
      DEF Server!onTextMessageReceived, Server!RequestLike, ReadsAsPublish
    <3> QED
      BY <2>1, <3>1, PublishHandled DEF ServerInv
  <2>2. ASSUME ReadsAsRequest(r)
        PROVE  Server!processRequest(n, r)
    BY <1>5, <2>2, SameContract DEF Server!onTextMessageReceived, Server!RequestLike, ReadsAsRequest
  <2>3. CASE ReadsAsCall(r)
    BY <1>3, <1>6, <2>2, <2>3, CallHandled DEF ServerInv, ReadsAsCall
  <2>4. CASE \E m \in {"Subscribe", "Unsubscribe"}, t \in Topics : ReadsAsTopicRequest(r, m, t)
    BY <1>3, <1>6, <2>2, <2>4, TopicRequestHandled DEF ServerInv, ReadsAsTopicRequest
  <2> QED
    BY <1>4, <2>1, <2>3, <2>4, WireFramesRead
<1> QED
  BY <1>2, <1>3, <1>6, <1>7 DEF r

\* What the server has read and served stays as it was while it reads another frame.
LEMMA ReadingKeepsServer ==
  ASSUME SessionAssumption, TypeInv, FramesSound, ServerInv, NEW n \in Connections, ServerReceives(n)
  PROVE  ServerInv'
<1> DEFINE i == Len(received[n]) + 1
           r == wire[n][i]
<1>1. /\ n \in m_clients
      /\ i <= Len(wire[n])
      /\ r \in Frames(Payloads, ErrorTexts)
      /\ received' = [received EXCEPT ![n] = Append(@, r)]
      /\ SentTyped /\ AnswerSent(n, r) /\ TopicsAfter(n, r)
      /\ UNCHANGED <<m_clients, m_methodHandlers, m_publishHandlers>>
  BY ServerReads DEF FrameHandled
<1>2. UNCHANGED <<wire, delivered>>
  BY DEF ServerReceives, vars
<1>3. received \in [Connections -> Seq(Frames(Payloads, ErrorTexts))]
  BY DEF ServerInv, ServerTypes
<1>4. Len(received[n]) \in Nat /\ Len(wire[n]) \in Nat
  BY <1>3, LenProperties DEF TypeInv, TypeOK
<1>5. /\ Append(received[n], r) \in Seq(Frames(Payloads, ErrorTexts))
      /\ Len(Append(received[n], r)) = i
      /\ \A k \in 1..Len(received[n]) : Append(received[n], r)[k] = received[n][k]
      /\ Append(received[n], r)[i] = r
  BY <1>1, <1>3, AppendProperties
<1>6. /\ received'[n] = Append(received[n], r)
      /\ \A m \in Connections : m # n => received'[m] = received[m]
      /\ received' \in [Connections -> Seq(Frames(Payloads, ErrorTexts))]
  BY <1>1, <1>3, <1>5
<1>7. \A k \in 1..i : k \in 1..Len(received[n]) \/ k = i
  BY <1>4
<1>8. \A m \in Connections : \A k \in 1..Len(received[m]) :
        k \in 1..Len(received'[m]) /\ received'[m][k] = received[m][k]
  <2>1. \A k \in 1..Len(received[n]) : k \in 1..i
    BY <1>4
  <2> QED
    BY <1>5, <1>6, <2>1
<1>9. i \in 1..Len(received'[n]) /\ received'[n][i] = r
  BY <1>4, <1>5, <1>6
<1>10. ServerTypes'
  BY <1>1, <1>2, <1>6 DEF ServerInv, ServerTypes, SentTyped, TopicsAfter
<1>11. ReadsInOrder'
  <2>1. ASSUME NEW m \in Connections
        PROVE  /\ Len(received'[m]) <= Len(wire[m])
               /\ \A k \in 1..Len(received'[m]) : received'[m][k] = wire[m][k]
    <3>1. CASE m = n
      BY <1>1, <1>5, <1>6, <1>7, <3>1 DEF ServerInv, ReadsInOrder
    <3>2. CASE m # n
      BY <1>6, <3>2 DEF ServerInv, ReadsInOrder
    <3> QED
      BY <3>1, <3>2
  <2> QED
    BY <1>2, <2>1 DEF ReadsInOrder
<1>12. SentSound'
  <2>1. ASSUME NEW m \in Connections, NEW k \in 1..Len(sent'[m])
        PROVE  \/ isPublish(sent'[m][k])
               \/ \E j \in 1..Len(received'[m]) : AnswersRequest(sent'[m][k], received'[m][j])
    <3>1. CASE OldFrame(m, k)
      BY <1>8, <3>1 DEF ServerInv, SentSound, OldFrame
    <3>2. CASE m = n /\ AnswersRequest(sent'[m][k], r)
      BY <1>9, <3>2
    <3> QED
      BY <1>1, <3>1, <3>2 DEF AnswerSent
  <2>2. \A frame, q : AnswersRequest(frame, q) => AnswersRequest(frame, q)'
    BY <1>1 DEF AnswersRequest, Accepting
  <2> QED
    BY <1>1, <2>1 DEF SentSound, AnswersRequest, Accepting
<1>13. SubscriptionsRead'
  <2>1. ASSUME NEW m \in m_clients, NEW t \in Topics
        PROVE  t \in m_subscriptions'[m] <=> Announced(received'[m], t)
    <3>1. CASE m = n
      <4>1. received'[n] = Append(received[n], r) /\ received[n] \in Seq(Frames(Payloads, ErrorTexts))
        BY <1>3, <1>6
      <4>2. /\ TopicFrame(r, t) => (Announced(received'[n], t) <=> r.method = "subscribe")
            /\ ~TopicFrame(r, t) => (Announced(received'[n], t) <=> Announced(received[n], t))
        BY <1>1, <4>1, AnnouncedNext
      <4> QED
        BY <1>1, <3>1, <4>2 DEF TopicsAfter, ServerInv, SubscriptionsRead
    <3>2. CASE m # n
      BY <1>1, <1>6, <3>2 DEF TopicsAfter, ServerInv, SubscriptionsRead, ServerTypes
    <3> QED
      BY <3>1, <3>2
  <2> QED
    BY <1>1, <2>1 DEF SubscriptionsRead
<1> QED
  BY <1>10, <1>11, <1>12, <1>13 DEF ServerInv

\* The client sends and reads: the server has still read a prefix of what it sent.
LEMMA ClientKeepsServer ==
  ASSUME TypeInv, FramesKept, UNCHANGED serverState, delivered' \in [Connections -> Nat], ServerInv
  PROVE  ServerInv'
<1>1. ReadsInOrder'
  <2>1. ASSUME NEW n \in Connections
        PROVE  /\ Len(received[n]) <= Len(wire'[n])
               /\ \A i \in 1..Len(received[n]) : received[n][i] = wire'[n][i]
    <3>1. /\ Len(received[n]) <= Len(wire[n]) /\ Len(wire[n]) <= Len(wire'[n])
          /\ \A i \in 1..Len(received[n]) : received[n][i] = wire[n][i]
          /\ \A i \in 1..Len(wire[n]) : wire'[n][i] = wire[n][i]
      BY DEF FramesKept, ServerInv, ReadsInOrder
    <3>2. Len(received[n]) \in Nat /\ Len(wire[n]) \in Nat
      BY LenProperties DEF TypeInv, TypeOK, ServerInv, ServerTypes
    <3>3. \A i \in 1..Len(received[n]) : i \in 1..Len(wire[n])
      BY <3>1, <3>2
    <3>4. Len(received[n]) <= Len(wire'[n])
      BY <3>1, <3>2
    <3> QED
      BY <3>1, <3>3, <3>4
  <2> QED
    BY <2>1 DEF ReadsInOrder, serverState
<1>2. ServerTypes'
  BY DEF ServerInv, ServerTypes, serverState
<1>3. SentSound' /\ SubscriptionsRead'
  BY DEF ServerInv, SentSound, SubscriptionsRead, serverState, AnswersRequest, Accepting
<1> QED
  BY <1>1, <1>2, <1>3 DEF ServerInv

\* A publication adds no answer.
LEMMA PublishingKeepsServer ==
  ASSUME ServerInv, NEW t \in Topics, ServerPublishes(t)
  PROVE  ServerInv'
<1>1. t \in allTopics
  BY VocabularyAssumption
<1>2. /\ Server!RecordPublication(t) /\ sent' = Server!Delivered(t)
      /\ UNCHANGED <<m_clients, m_subscriptions, m_methodHandlers, m_publishHandlers, received,
                     wire, delivered>>
  BY DEF ServerPublishes, Server!publish, Server!publishToSubscribed, Server!clientVars,
         Server!registrations, vars
<1>3. SentTyped /\ PublicationsSent
  BY <1>1, <1>2, RecordTyped, DeliveredHolds DEF ServerInv, SentTyped, PublicationsSent, OldFrame
<1>4. ServerTypes'
  BY <1>2, <1>3 DEF ServerInv, ServerTypes, SentTyped
<1>5. SentSound'
  BY <1>2, <1>3 DEF ServerInv, SentSound, PublicationsSent, OldFrame, AnswersRequest, Accepting
<1>6. ReadsInOrder' /\ SubscriptionsRead'
  BY <1>2 DEF ServerInv, ReadsInOrder, SubscriptionsRead
<1> QED
  BY <1>4, <1>5, <1>6 DEF ServerInv

\* The server forgets a client.
LEMMA DroppingKeepsServer ==
  ASSUME ServerInv, NEW n \in Connections, ServerDrops(n)
  PROVE  ServerInv'
<1>1. /\ m_clients' = m_clients \ {n}
      /\ m_subscriptions' = Server!Without(m_subscriptions, n)
      /\ UNCHANGED <<m_methodHandlers, m_publishHandlers, received, sent, published, wire, delivered>>
  BY DEF ServerDrops, Server!onSocketDisconnected, Server!ForgetClient, Server!registrations,
         Server!logs, vars
<1>2. m_subscriptions \in [m_clients -> SUBSET Topics]
  BY DEF ServerInv, ServerTypes
<1>3. m_subscriptions' = [k \in m_clients' |-> m_subscriptions[k]]
  BY <1>1, <1>2 DEF Server!Without, Server!Restrict
<1>4. ServerTypes'
  BY <1>1, <1>2, <1>3 DEF ServerInv, ServerTypes
<1>5. SubscriptionsRead'
  BY <1>1, <1>3 DEF ServerInv, SubscriptionsRead
<1>6. ReadsInOrder' /\ SentSound'
  BY <1>1 DEF ServerInv, ReadsInOrder, SentSound, AnswersRequest, Accepting
<1> QED
  BY <1>4, <1>5, <1>6 DEF ServerInv

\* A connection comes up: nothing has been sent or read on it.
LEMMA ConnectingKeepsServer ==
  ASSUME TypeInv, WireInv, ServerInv, Connect
  PROVE  ServerInv'
<1> DEFINE n == conn + 1
<1>1. /\ n \in Connections /\ n > conn
  BY BoundsAssumption DEF Connect, onConnected, TypeInv, TypeOK, StackSound, Connections
<1>2. /\ m_clients' = m_clients \cup {n}
      /\ m_subscriptions' = Server!Put(m_subscriptions, n, {})
      /\ n \notin m_clients
      /\ UNCHANGED <<m_methodHandlers, m_publishHandlers, received, sent, published, wire, delivered>>
  BY DEF Connect, Server!attachUpgradedSocket, Server!onNewConnection, Server!registrations,
         Server!logs, onConnected
<1> HIDE DEF n
<1>3. m_subscriptions \in [m_clients -> SUBSET Topics]
  BY DEF ServerInv, ServerTypes
<1>4. m_subscriptions' = [k \in m_clients' |-> IF k = n THEN {} ELSE m_subscriptions[k]]
  BY <1>2, <1>3 DEF Server!Put
<1>5. ServerTypes'
  BY <1>1, <1>2, <1>3, <1>4 DEF ServerInv, ServerTypes
<1>6. Len(received[n]) = 0
  <2>1. wire[n] = <<>>
    BY <1>1 DEF WireInv
  <2>2. Len(received[n]) \in Nat /\ Len(received[n]) <= 0
    BY <1>1, <2>1, LenProperties DEF ServerInv, ServerTypes, ReadsInOrder
  <2> QED
    BY <2>2
<1>7. SubscriptionsRead'
  <2>1. \A t : ~Announced(received[n], t)
    BY <1>6 DEF Announced, TopicFrames
  <2> QED
    BY <1>2, <1>4, <2>1 DEF ServerInv, SubscriptionsRead
<1>8. ReadsInOrder' /\ SentSound'
  BY <1>2 DEF ServerInv, ReadsInOrder, SentSound, AnswersRequest, Accepting
<1> QED
  BY <1>5, <1>7, <1>8 DEF ServerInv

\* Nothing has been sent or read.
LEMMA ServerInvInit == SessionInit => ServerInv
<1> SUFFICES ASSUME SessionInit PROVE ServerInv
  OBVIOUS
<1>1. \A n \in Connections : Len(received[n]) = 0 /\ Len(sent[n]) = 0 /\ Len(wire[n]) = 0
  BY DEF SessionInit, Init
<1>2. ServerTypes
  <2>1. m_clients = {} /\ m_subscriptions \in [m_clients -> SUBSET Topics]
    BY DEF SessionInit, Server!Empty
  <2>2. DOMAIN m_publishHandlers = {}
    BY DEF SessionInit, Server!Empty
  <2>3. /\ received \in [Connections -> Seq(Frames(Payloads, ErrorTexts))]
        /\ sent \in [Connections -> Seq(SessionFrames)]
        /\ published \in Seq(PublicationRecords)
        /\ delivered \in [Connections -> Nat]
    BY DEF SessionInit
  <2> QED
    BY <2>1, <2>2, <2>3 DEF SessionInit, ServerTypes
<1>3. ReadsInOrder /\ SentSound
  BY <1>1 DEF ReadsInOrder, SentSound
<1>4. SubscriptionsRead
  BY DEF SubscriptionsRead, SessionInit
<1> QED
  BY <1>2, <1>3, <1>4 DEF ServerInv

----------------------------------------------------------------------------
(* The server is a peer of the client.                                     *)

\* What the client reads is a publication, or the answer to a request of its connection.
LEMMA FrameDelivered ==
  ASSUME TypeInv, ServerInv, ClientReceives
  PROVE  LET message == sent[conn][delivered[conn] + 1] IN
         /\ dispatchMessage(message)
         /\ conn \in Connections
         /\ delivered' \in [Connections -> Nat]
         /\ UNCHANGED <<serverState, wire>>
         /\ \/ isPublish(message)
            \/ \E i \in 1..Len(received[conn]) : AnswersRequest(message, received[conn][i])
<1>1. conn \in Connections
  BY DEF ClientReceives, TypeInv, TypeOK, Connections
<1>2. /\ Len(sent[conn]) \in Nat /\ delivered[conn] \in Nat
      /\ delivered' \in [Connections -> Nat]
  BY <1>1, LenProperties DEF ClientReceives, ServerInv, ServerTypes
<1>3. delivered[conn] + 1 \in 1..Len(sent[conn])
  BY <1>2 DEF ClientReceives
<1> QED
  BY <1>1, <1>2, <1>3 DEF ClientReceives, ServerInv, SentSound, dispatchMessage

\* A frame of the server is one that a peer may send, or is ignored as such a frame is.
LEMMA PeerStep ==
  ASSUME TypeInv, ServerInv, ClientReceives
  PROVE  \E message \in PeerFrames : dispatchMessage(message)
<1> DEFINE message == sent[conn][delivered[conn] + 1]
           unknown == [buildResponse(NoId, EmptyObject) EXCEPT !.type = "unknown"]
<1>1. /\ dispatchMessage(message)
      /\ conn \in Connections
      /\ \/ isPublish(message)
         \/ \E i \in 1..Len(received[conn]) : AnswersRequest(message, received[conn][i])
  BY FrameDelivered
<1> HIDE DEF message
<1>2. CASE isPublish(message)
  <2>1. ~isResponse(message)
    BY <1>2 DEF isPublish, isResponse
  <2>2. ~isResponse(unknown)
    BY TypesDiffer
  <2>3. unknown \in PeerFrames
    BY DEF PeerFrames
  <2>4. Ignore(message)
    BY <1>1, <2>1 DEF dispatchMessage, TakeResponse
  <2>5. Ignore(unknown)
    BY <2>2, <2>4 DEF Ignore
  <2>6. dispatchMessage(unknown)
    BY <1>1, <2>5 DEF dispatchMessage
  <2> QED
    BY <2>3, <2>6
<1>3. ASSUME NEW i \in 1..Len(received[conn]), AnswersRequest(message, received[conn][i])
      PROVE  message \in PeerFrames
  <2> DEFINE r == received[conn][i]
  <2>1. r \in ToSet(wire[conn])
    <3>1. Len(received[conn]) \in Nat /\ Len(wire[conn]) \in Nat /\ wire[conn] \in Seq(Frames(Payloads, ErrorTexts))
      BY <1>1, LenProperties DEF TypeInv, TypeOK, ServerInv, ServerTypes
    <3>2. i \in 1..Len(wire[conn]) /\ r = wire[conn][i]
      BY <1>1, <3>1 DEF ServerInv, ReadsInOrder
    <3> QED
      BY <3>1, <3>2 DEF ToSet
  <2>2. /\ isRequest(r)
        /\ \/ message = buildResponse(r.id, PeerResult(r))
           \/ \E e \in ErrorTexts : message = buildErrorResponse(r.id, e)
    BY <1>3 DEF AnswersRequest
  <2> HIDE DEF r
  <2> QED
    BY <2>1, <2>2 DEF PeerFrames
<1> QED
  BY <1>1, <1>2, <1>3

\* Every step of the session is a step of the client, or leaves the client alone.
LEMMA ClientSteps ==
  ASSUME TypeInv, ServerInv, [SessionNext]_sessionVars
  PROVE  [Next]_vars
<1>1. CASE ClientStep
  BY <1>1 DEF ClientStep, Next, SocketStep
<1>2. CASE Connect
  BY <1>2 DEF Connect, Next, SocketStep
<1>3. CASE ClientReceives
  <2>1. conn > 0
    BY <1>3 DEF ClientReceives
  <2> QED
    BY <1>3, <2>1, PeerStep DEF Next
<1>4. CASE \E n \in Connections : ServerReceives(n) \/ ServerDrops(n)
  BY <1>4 DEF ServerReceives, ServerDrops
<1>5. CASE \E t \in Topics : ServerPublishes(t)
  BY <1>5 DEF ServerPublishes
<1>6. CASE UNCHANGED sessionVars
  BY <1>6 DEF sessionVars
<1> QED
  BY <1>1, <1>2, <1>3, <1>4, <1>5, <1>6 DEF SessionNext

LinkInv == TypeInv /\ WireInv /\ CallsInv /\ ServerInv

\* The two logs fit in every state of the session.
LEMMA LinkInvInductive ==
  ASSUME SessionAssumption
  PROVE  /\ SessionInit => LinkInv
         /\ LinkInv /\ [SessionNext]_sessionVars => LinkInv' /\ [Next]_vars
<1>1. SessionInit => LinkInv
  BY ServerInvInit, WireInvInductive, CallsInvInductive DEF SessionInit, LinkInv
<1>2. ASSUME LinkInv, [SessionNext]_sessionVars
      PROVE  LinkInv' /\ [Next]_vars
  <2>1. [Next]_vars
    BY <1>2, ClientSteps DEF LinkInv
  <2>2. TypeInv' /\ WireInv' /\ CallsInv' /\ FramesKept
    BY <1>2, <2>1, WireInvInductive, CallsInvInductive, NextFrames DEF LinkInv, FramesEffect
  <2>3. ServerInv'
    <3>1. CASE ClientStep
      BY <1>2, <2>2, <3>1, ClientKeepsServer DEF ClientStep, LinkInv, ServerInv, ServerTypes
    <3>2. CASE Connect
      BY <1>2, <3>2, ConnectingKeepsServer DEF LinkInv
    <3>3. CASE ClientReceives
      BY <1>2, <2>2, <3>3, FrameDelivered, ClientKeepsServer DEF LinkInv
    <3>4. ASSUME NEW n \in Connections, ServerReceives(n) PROVE ServerInv'
      BY <1>2, <3>4, ReadingKeepsServer DEF LinkInv, CallsInv
    <3>5. ASSUME NEW n \in Connections, ServerDrops(n) PROVE ServerInv'
      BY <1>2, <3>5, DroppingKeepsServer DEF LinkInv
    <3>6. ASSUME NEW t \in Topics, ServerPublishes(t) PROVE ServerInv'
      BY <1>2, <3>6, PublishingKeepsServer DEF LinkInv
    <3>7. CASE UNCHANGED sessionVars
      BY <1>2, <2>2, <3>7, ClientKeepsServer DEF sessionVars, LinkInv, ServerInv, ServerTypes
    <3> QED
      BY <1>2, <3>1, <3>2, <3>3, <3>4, <3>5, <3>6, <3>7 DEF SessionNext
  <2> QED
    BY <2>1, <2>2, <2>3 DEF LinkInv
<1> QED
  BY <1>1, <1>2

\* The server, with whatever handlers the backend registers, is a peer as the client's
\* specification assumes it: what is proved of the client for any peer holds of
\* the session.
THEOREM SessionImplementsClient ==
  ASSUME SessionAssumption
  PROVE  SessionSpec => ClientSpec
<1>1. SessionInit => Init
  BY DEF SessionInit
<1> QED
  BY <1>1, LinkInvInductive, PTL DEF SessionSpec, ClientSpec, Spec

----------------------------------------------------------------------------
(* The two ends agree on the subscriptions.                                *)

\* When nothing is under way, the topics the server publishes to a connected client are
\* the ones its application holds: for any topics, handlers, and order of subscribe,
\* unsubscribe, losses and reconnects, with old connections still being read.
THEOREM SubscriptionsAgreeHolds ==
  ASSUME SessionAssumption
  PROVE  SessionSpec => []SubscriptionsAgree
<1>1. ASSUME LinkInv, Quiet PROVE m_subscriptions[conn] = ToSet(m_subscribedTopics)
  <2>1. conn \in Connections /\ conn \in m_clients /\ Len(received[conn]) = Len(wire[conn])
    BY <1>1 DEF Quiet, LinkInv, ServerInv, ServerTypes
  <2>2. \A i \in 1..Len(wire[conn]) : received[conn][i] = wire[conn][i]
    BY <1>1, <2>1 DEF LinkInv, ServerInv, ReadsInOrder
  <2>3. ASSUME NEW t \in Topics
        PROVE  Announced(received[conn], t) <=> Announced(wire[conn], t)
    <3>1. TopicFrames(received[conn], t) = TopicFrames(wire[conn], t)
      BY <2>1, <2>2 DEF TopicFrames
    <3>2. \A i \in TopicFrames(wire[conn], t) : received[conn][i] = wire[conn][i]
      BY <2>2 DEF TopicFrames
    <3> QED
      BY <3>1, <3>2 DEF Announced
  <2>4. \A t \in Topics : Contains(m_subscribedTopics, t) <=> Announced(wire[conn], t)
    BY <1>1 DEF LinkInv, WireInv, SubscriptionsTold, Quiet, EventLoop
  <2>5. \A t \in Topics : t \in m_subscriptions[conn] <=> Contains(m_subscribedTopics, t)
    BY <1>1, <2>1, <2>3, <2>4 DEF LinkInv, ServerInv, SubscriptionsRead
  <2>6. \A t : Contains(m_subscribedTopics, t) <=> t \in ToSet(m_subscribedTopics)
    BY <1>1 DEF Contains, ToSet, LinkInv, TypeInv, TypeOK
  <2>7. m_subscriptions[conn] \subseteq Topics
    BY <1>1, <2>1 DEF LinkInv, ServerInv, ServerTypes
  <2>8. ToSet(m_subscribedTopics) \subseteq Topics
    BY <1>1 DEF ToSet, LinkInv, TypeInv, TypeOK
  <2> QED
    BY <2>5, <2>6, <2>7, <2>8
<1>2. LinkInv => SubscriptionsAgree
  BY <1>1 DEF SubscriptionsAgree
<1> QED
  BY <1>2, LinkInvInductive, PTL DEF SessionSpec

----------------------------------------------------------------------------
(* Callbacks tell the truth.                                               *)

\* An outcome of call c is that of a frame of this call, which the server has read.
HasSource(c, outcome) ==
  \/ outcome = Disconnected
  \/ \E n \in Connections : \E j \in 1..Len(received[n]) :
       received[n][j].params = AppObject(c) /\ (outcome.ok <=> Accepting(received[n][j]))

OutcomesHaveSource == \A c \in Calls : \A i \in 1..Len(completions[c]) : HasSource(c, completions[c][i])

\* An answer has a source if its outcome has one.
LEMMA AnswerKeepsSource ==
  ASSUME TypeInv, OutcomesHaveSource, UNCHANGED <<received, m_methodHandlers>>,
         NEW c, NEW outcome \in Outcomes, Answer(c, outcome), HasSource(c, outcome)
  PROVE  OutcomesHaveSource'
<1>1. completions \in [Calls -> Seq(Outcomes)]
  BY DEF TypeInv, TypeOK
<1>2. ASSUME NEW d \in Calls, NEW i \in 1..Len(completions'[d])
      PROVE  HasSource(d, completions'[d][i])
  <2>1. CASE d = c
    <3>1. completions'[d] = Append(completions[d], outcome)
      BY <1>1, <2>1 DEF Answer
    <3>2. Len(completions[d]) \in Nat
      BY <1>1, LenProperties
    <3>3. \/ i \in 1..Len(completions[d]) /\ completions'[d][i] = completions[d][i]
          \/ completions'[d][i] = outcome
      BY <1>1, <1>2, <2>1, <3>1, <3>2, AppendProperties
    <3> QED
      BY <2>1, <3>3 DEF OutcomesHaveSource
  <2>2. CASE d # c
    <3>1. completions'[d] = completions[d]
      BY <1>1, <2>2 DEF Answer
    <3> QED
      BY <3>1 DEF OutcomesHaveSource
  <2> QED
    BY <2>1, <2>2
<1> QED
  BY <1>2 DEF OutcomesHaveSource, HasSource, Accepting

\* The answer that a pending call receives is the one to its own request.
LEMMA OutcomeHasSource ==
  ASSUME TypeInv, IdsInv, ServerInv, NEW message, conn \in Connections,
         isResponse(message),
         NEW i \in 1..Len(received[conn]), AnswersRequest(message, received[conn][i]),
         NEW id \in DOMAIN m_pendingRequests, id = ResponseKey(message), id # EmptyKey,
         m_pendingRequests[id].kind = "app"
  PROVE  /\ HasSource(m_pendingRequests[id].call, Outcome(message))
         /\ Outcome(message) \in Outcomes
<1> DEFINE r == received[conn][i]
<1>1. i \in 1..Len(wire[conn]) /\ r = wire[conn][i] /\ r \in Frames(Payloads, ErrorTexts)
  <2>1. Len(received[conn]) \in Nat /\ Len(wire[conn]) \in Nat /\ wire[conn] \in Seq(Frames(Payloads, ErrorTexts))
    BY LenProperties DEF TypeInv, TypeOK, ServerInv, ServerTypes
  <2>2. i \in 1..Len(wire[conn]) /\ r = wire[conn][i]
    BY <2>1 DEF ServerInv, ReadsInOrder
  <2> QED
    BY <2>1, <2>2, ElementOfSeq
<1>2. i \in RequestFrames(conn)
  BY <1>1 DEF RequestFrames, AnswersRequest
<1>3. PICK k \in 1..(m_nextRequestId - 1) : r.id = NumberId(k)
  BY <1>1, <1>2 DEF IdsInv, IdsIssued
<1>4. message.id = r.id
  BY FrameFields DEF AnswersRequest
<1>5. id = k
  BY <1>3, <1>4 DEF ResponseKey, requestIdKey, parseId, EmptyKey, NumberId
<1>6. r.params = AppObject(m_pendingRequests[id].call) /\ r.method \notin {"subscribe", "unsubscribe"}
  BY <1>1, <1>2, <1>3, <1>5 DEF IdsInv, FramesMatchEntries
<1>7. PeerResult(r) = r.params /\ r.params \in Payloads
  BY <1>1, <1>6, MethodNamesDiffer, ResultsTyped DEF PeerResult, Frames
<1>8. /\ Outcome(message).ok <=> Accepting(r)
      /\ Outcome(message) \in Outcomes
  <2>1. CASE message = buildResponse(r.id, PeerResult(r)) /\ Accepting(r)
    <3>1. Outcome(message) = Success(r.params)
      BY <1>7, <2>1, FrameFields DEF Outcome, parseErrorMessage, parseResult
    <3>2. Success(r.params).ok
      BY DEF Success
    <3>3. Success(r.params) \in Outcomes
      BY <1>7 DEF Outcomes
    <3> QED
      BY <2>1, <3>1, <3>2, <3>3
  <2>2. CASE (\E e \in ErrorTexts : message = buildErrorResponse(r.id, e)) /\ ~Accepting(r)
    <3>1. PICK e \in ErrorTexts : message = buildErrorResponse(r.id, e)
      BY <2>2
    <3>2. Outcome(message) = Failure(e)
      BY <3>1, FrameFields, VocabularyAssumption DEF Outcome, parseErrorMessage
    <3>3. ~Failure(e).ok
      BY DEF Failure
    <3>4. Failure(e) \in Outcomes
      BY DEF Outcomes
    <3> QED
      BY <2>2, <3>2, <3>3, <3>4
  <2> QED
    BY <1>6, <2>1, <2>2 DEF AnswersRequest
<1> HIDE DEF r
<1> QED
  BY <1>6, <1>8 DEF HasSource, r

\* Steps that answer no call, and leave what the server has read.
LEMMA NoAnswerKeepsSource ==
  ASSUME OutcomesHaveSource, UNCHANGED <<completions, m_methodHandlers>>,
         \A n \in Connections : \A k \in 1..Len(received[n]) :
           k \in 1..Len(received'[n]) /\ received'[n][k] = received[n][k]
  PROVE  OutcomesHaveSource'
<1>1. ASSUME NEW c \in Calls, NEW i \in 1..Len(completions[c])
      PROVE  HasSource(c, completions[c][i])'
  <2>1. HasSource(c, completions[c][i])
    BY DEF OutcomesHaveSource
  <2>2. ASSUME NEW n \in Connections, NEW j \in 1..Len(received[n]),
               received[n][j].params = AppObject(c),
               completions[c][i].ok <=> Accepting(received[n][j])
        PROVE  HasSource(c, completions[c][i])'
    <3>1. j \in 1..Len(received'[n]) /\ received'[n][j] = received[n][j]
      BY <2>2
    <3>2. /\ received'[n][j].params = AppObject(c)
          /\ completions'[c][i].ok <=>
               m_methodHandlers'[parseMethod(received'[n][j])] \in {"answers", "announces"}
      BY <2>2, <3>1 DEF Accepting
    <3> QED
      BY <3>1, <3>2 DEF HasSource, Accepting
  <2> QED
    BY <2>1, <2>2 DEF HasSource
<1> QED
  BY <1>1 DEF OutcomesHaveSource

\* A callback that runs has its source in what the server sent.
LEMMA SourceStep ==
  ASSUME SessionAssumption, LinkInv, IdsInv, OutcomesHaveSource, [SessionNext]_sessionVars
  PROVE  OutcomesHaveSource'
<1> USE DEF LinkInv
<1>1. ASSUME NEW c, Answer(c, Disconnected), UNCHANGED <<received, m_methodHandlers>>
      PROVE  OutcomesHaveSource'
  <2>1. Disconnected \in Outcomes /\ HasSource(c, Disconnected)
    BY DEF Outcomes, HasSource
  <2> QED
    BY <1>1, <2>1, AnswerKeepsSource
<1>2. ASSUME UNCHANGED <<completions, m_methodHandlers, received>>
      PROVE  OutcomesHaveSource'
  BY <1>2, NoAnswerKeepsSource
<1>3. CASE ClientStep
  <2>1. UNCHANGED <<received, m_methodHandlers>>
    BY <1>3 DEF ClientStep, serverState
  <2>2. CASE AppStep
    <3>1. UNCHANGED completions \/ Answer(calls + 1, Disconnected)
      BY <2>2 DEF AppStep, setServerUrl, connectToSocket, disconnectFromSocket, BeginDrain, request,
                  requestNoCallback, subscribe, unsubscribe, publish, callVars
    <3> QED
      BY <1>1, <1>2, <2>1, <3>1
  <2>3. CASE LoopStep
    <3>1. UNCHANGED completions \/ \E c : Answer(c, Disconnected)
      BY <2>3 DEF LoopStep, resubscribeAll, failNext, finishDisconnect, callVars
    <3> QED
      BY <1>1, <1>2, <2>1, <3>1
  <2>4. CASE onDisconnected
    BY <1>2, <2>1, <2>4 DEF onDisconnected, BeginDrain, callVars
  <2> QED
    BY <1>3, <2>2, <2>3, <2>4 DEF ClientStep
<1>4. CASE Connect
  BY <1>2, <1>4 DEF Connect, onConnected, callVars, Server!attachUpgradedSocket,
                    Server!onNewConnection, Server!registrations, Server!logs
<1>5. CASE ClientReceives
  <2> DEFINE message == sent[conn][delivered[conn] + 1]
             id == ResponseKey(message)
  <2>1. /\ dispatchMessage(message)
        /\ conn \in Connections
        /\ UNCHANGED <<received, m_methodHandlers>>
        /\ \/ isPublish(message)
           \/ \E i \in 1..Len(received[conn]) : AnswersRequest(message, received[conn][i])
    BY <1>5, FrameDelivered DEF serverState
  <2> HIDE DEF message
  <2>2. CASE UNCHANGED completions
    BY <1>2, <2>1, <2>2
  <2>3. CASE ~UNCHANGED completions
    <3>1. /\ isResponse(message) /\ id \in DOMAIN m_pendingRequests /\ id # EmptyKey
          /\ m_pendingRequests[id].kind = "app"
          /\ Answer(m_pendingRequests[id].call, Outcome(message))
      BY <2>1, <2>3 DEF dispatchMessage, TakeResponse, Ignore
    <3>2. PICK i \in 1..Len(received[conn]) : AnswersRequest(message, received[conn][i])
      BY <2>1, <3>1 DEF isPublish, isResponse
    <3> HIDE DEF id
    <3>3. id = ResponseKey(message)
      BY DEF id
    <3>4. /\ HasSource(m_pendingRequests[id].call, Outcome(message))
          /\ Outcome(message) \in Outcomes
      BY <2>1, <3>1, <3>2, <3>3, OutcomeHasSource
    <3> QED
      BY <2>1, <3>1, <3>4, AnswerKeepsSource
  <2> QED
    BY <2>2, <2>3
<1>6. ASSUME NEW n \in Connections, ServerReceives(n)
      PROVE  OutcomesHaveSource'
  <2> DEFINE r == wire[n][Len(received[n]) + 1]
  <2>1. /\ received' = [received EXCEPT ![n] = Append(@, r)]
        /\ r \in Frames(Payloads, ErrorTexts)
        /\ UNCHANGED m_methodHandlers
    BY <1>6, ServerReads DEF CallsInv
  <2>2. UNCHANGED completions
    BY <1>6 DEF ServerReceives, vars
  <2> HIDE DEF r
  <2>3. received \in [Connections -> Seq(Frames(Payloads, ErrorTexts))]
    BY DEF ServerInv, ServerTypes
  <2>4. ASSUME NEW m \in Connections, NEW k \in 1..Len(received[m])
        PROVE  k \in 1..Len(received'[m]) /\ received'[m][k] = received[m][k]
    <3>1. CASE m = n
      <4>1. /\ received'[n] = Append(received[n], r)
            /\ Len(received[n]) \in Nat /\ Len(Append(received[n], r)) = Len(received[n]) + 1
            /\ Append(received[n], r)[k] = received[n][k]
        BY <2>1, <2>3, <3>1, AppendProperties, LenProperties
      <4> QED
        BY <3>1, <4>1
    <3>2. CASE m # n
      BY <2>1, <2>3, <3>2
    <3> QED
      BY <3>1, <3>2
  <2> QED
    BY <2>1, <2>2, <2>4, NoAnswerKeepsSource
<1>7. ASSUME NEW n \in Connections, ServerDrops(n)
      PROVE  OutcomesHaveSource'
  BY <1>2, <1>7 DEF ServerDrops, Server!onSocketDisconnected, Server!registrations, Server!logs, vars
<1>8. ASSUME NEW t \in Topics, ServerPublishes(t)
      PROVE  OutcomesHaveSource'
  BY <1>2, <1>8 DEF ServerPublishes, Server!publish, Server!registrations, vars
<1>9. CASE UNCHANGED sessionVars
  BY <1>2, <1>9 DEF sessionVars, vars, serverState
<1> QED
  BY <1>3, <1>4, <1>5, <1>6, <1>7, <1>8, <1>9 DEF SessionNext

SessionInv == LinkInv /\ AnswersInv /\ OutcomesHaveSource

\* The invariant of the session.
LEMMA SessionInvInductive ==
  ASSUME SessionAssumption
  PROVE  /\ SessionInit => SessionInv
         /\ SessionInv /\ [SessionNext]_sessionVars => SessionInv'
<1>1. ASSUME SessionInit PROVE SessionInv
  <2>1. \A c \in Calls : Len(completions[c]) = 0
    BY <1>1 DEF SessionInit, Init
  <2>2. AnswersInv /\ LinkInv
    BY <1>1, LinkInvInductive, AnswersInvInductive DEF SessionInit, SessionAssumption
  <2> QED
    BY <2>1, <2>2 DEF SessionInv, OutcomesHaveSource
<1>2. ASSUME SessionInv, [SessionNext]_sessionVars PROVE SessionInv'
  BY <1>2, LinkInvInductive, AnswersInvInductive, SourceStep
  DEF SessionInv, AnswersInv, SessionAssumption
<1> QED
  BY <1>1, <1>2

\* A callback tells the truth of what the backend did, for any calls, handlers and
\* connections: success with the call's own result when the handler got this very call
\* and accepted it, and an error, if not that of the disconnect, when it refused.
THEOREM OutcomesAreTrueHolds ==
  ASSUME SessionAssumption
  PROVE  SessionSpec => []OutcomesAreTrue
<1>1. ASSUME SessionInv, NEW c \in Calls, NEW i \in 1..Len(completions[c])
      PROVE  /\ completions[c][i].ok => Accepts(c) /\ completions[c][i].result = AppObject(c)
             /\ ~completions[c][i].ok =>
                  completions[c][i] = Disconnected \/ (Handled(c) /\ ~Accepts(c))
  <2> DEFINE outcome == completions[c][i]
  <2>1. HasSource(c, outcome)
    BY <1>1 DEF SessionInv, OutcomesHaveSource
  <2>2. ~Disconnected.ok
    BY DEF Disconnected, Failure
  <2>3. outcome.ok => outcome.result = AppObject(c)
    BY <1>1 DEF SessionInv, AnswersInv, AnswersMatch
  <2> HIDE DEF outcome
  <2>4. outcome.ok => Accepts(c)
    BY <2>1, <2>2 DEF HasSource, Accepts, Accepting
  <2>5. ASSUME ~outcome.ok, outcome # Disconnected
        PROVE  Handled(c) /\ ~Accepts(c)
    <3>1. PICK n \in Connections : \E j \in 1..Len(received[n]) :
            received[n][j].params = AppObject(c) /\ ~Accepting(received[n][j])
      BY <2>1, <2>5 DEF HasSource
    <3>2. PICK j \in 1..Len(received[n]) :
            received[n][j].params = AppObject(c) /\ ~Accepting(received[n][j])
      BY <3>1
    <3>3. \A m \in Connections : \A k \in 1..Len(received[m]) :
            k \in 1..Len(wire[m]) /\ received[m][k] = wire[m][k]
      <4>1. ASSUME NEW m \in Connections, NEW k \in 1..Len(received[m])
            PROVE  k \in 1..Len(wire[m]) /\ received[m][k] = wire[m][k]
        <5>1. Len(received[m]) \in Nat /\ Len(wire[m]) \in Nat
          BY <1>1, LenProperties DEF SessionInv, LinkInv, TypeInv, TypeOK, ServerInv, ServerTypes
        <5>2. Len(received[m]) <= Len(wire[m]) /\ received[m][k] = wire[m][k]
          BY <1>1 DEF SessionInv, LinkInv, ServerInv, ReadsInOrder
        <5> QED
          BY <5>1, <5>2
      <4> QED
        BY <4>1
    <3>4. \A m \in Connections : \A k \in 1..Len(received[m]) :
            received[m][k].params = AppObject(c) => received[m][k] = received[n][j]
      <4>1. ASSUME NEW m \in Connections, NEW k \in 1..Len(received[m]),
                   received[m][k].params = AppObject(c)
            PROVE  received[m][k] = received[n][j]
        <5>1. /\ k \in 1..Len(wire[m]) /\ wire[m][k].params = AppObject(c)
              /\ j \in 1..Len(wire[n]) /\ wire[n][j].params = AppObject(c)
          BY <3>2, <3>3, <4>1
        <5>2. wire[m][k] = wire[n][j]
          BY <1>1, <5>1 DEF SessionInv, LinkInv, CallsInv, OneFramePerCall
        <5> QED
          BY <3>2, <3>3, <5>2
      <4> QED
        BY <4>1
    <3> QED
      BY <3>2, <3>4 DEF Handled, Accepts, Accepting
  <2> QED
    BY <2>3, <2>4, <2>5 DEF outcome
<1>2. SessionInv => OutcomesAreTrue
  BY <1>1 DEF OutcomesAreTrue
<1> QED
  BY <1>2, SessionInvInductive, PTL DEF SessionSpec
=============================================================================
