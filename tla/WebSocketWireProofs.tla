------------------------ MODULE WebSocketWireProofs ------------------------
(***************************************************************************)
(* Theorems about what WebSocketClient leaves on the wire, for every value *)
(* of its constants.                                                       *)
(*                                                                         *)
(* FramesEffect says what any step adds to the wire and to the pending     *)
(* table.  From it follow the ids of the frames (AnswersMatch: a call is   *)
(* answered with the result of its own request) and, with the list of      *)
(* topics, the subscriptions the peer was told of (WireAgrees), and that a *)
(* call whose frame is on the wire is not forgotten (SentAreKept).         *)
(***************************************************************************)
EXTENDS WebSocketClientProofs

----------------------------------------------------------------------------
(* The vocabulary. *)

\* Requests and publishes differ by their type.
LEMMA TypesDiffer ==
  /\ \A id, m, params : isRequest(buildRequest(id, m, params))
  /\ \A t, params : ~isRequest(buildPublish(t, params)) /\ ~isResponse(buildPublish(t, params))
  /\ ~isResponse([buildResponse(NoId, EmptyObject) EXCEPT !.type = "unknown"])
<1>1. /\ DOMAIN MessageTypeNames = {"Request", "Response", "Publish"}
      /\ MessageTypeNames["Request"] = "request"
      /\ MessageTypeNames["Response"] = "response"
      /\ MessageTypeNames["Publish"] = "publish"
  BY DEF MessageTypeNames
<1>2. /\ messageTypeFromString("request") = "Request"
      /\ messageTypeFromString("publish") = "Publish"
      /\ messageTypeFromString("unknown") = "UnknownMessageType"
  BY <1>1 DEF messageTypeFromString, FromWire
<1>3. /\ \A id, m, params : buildRequest(id, m, params).type = "request"
      /\ \A t, params : buildPublish(t, params).type = "publish"
  BY WireTypes DEF buildRequest, buildPublish
<1>4. [buildResponse(NoId, EmptyObject) EXCEPT !.type = "unknown"].type = "unknown"
  BY DEF buildResponse
<1> QED
  BY <1>2, <1>3, <1>4 DEF isRequest, isResponse

\* The methods of the service's own requests have names that no other method has.
LEMMA MethodNamesDiffer ==
  /\ methodToString("Subscribe") = "subscribe"
  /\ methodToString("Unsubscribe") = "unsubscribe"
  /\ \A m \in allMethods : methodToString(m) = "subscribe" => m = "Subscribe"
  /\ \A m \in allMethods : methodToString(m) = "unsubscribe" => m = "Unsubscribe"
BY DEF methodToString, ToWire, allMethods, MethodNames

\* The names of the topics are their own, and none is empty.
LEMMA TopicNamesDiffer ==
  /\ \A t, u \in allTopics : topicToString(t) = topicToString(u) => t = u
  /\ \A t \in allTopics : topicToString(t) # NoText
<1>1. allTopics = {"Configuration", "Media", "ApplicationStatus", "ProcessorTemperature",
                   "BackendStatus", "Environment"}
  BY DEF allTopics, TopicNames
<1>2. /\ topicToString("Configuration") = "configuration"
      /\ topicToString("Media") = "media"
      /\ topicToString("ApplicationStatus") = "application-status"
      /\ topicToString("ProcessorTemperature") = "processor-temperature"
      /\ topicToString("BackendStatus") = "backend-status"
      /\ topicToString("Environment") = "environment"
  BY DEF topicToString, ToWire, TopicNames
<1>3. NoText \notin {"configuration", "media", "application-status", "processor-temperature",
                     "backend-status", "environment"}
  BY Zenon DEF NoText
<1> QED
  BY <1>1, <1>2, <1>3

\* The fields of the frames.
LEMMA FrameFields ==
  /\ \A id, m, params : /\ buildRequest(id, m, params).id = id
                        /\ buildRequest(id, m, params).method = methodToString(m)
                        /\ buildRequest(id, m, params).params = params
  /\ \A t, params : /\ buildPublish(t, params).method = NoText
                    /\ buildPublish(t, params).params = params
  /\ \A id, result : /\ buildResponse(id, result).id = id
                     /\ buildResponse(id, result).result = result
                     /\ buildResponse(id, result).error = NoText
  /\ \A id, error : /\ buildErrorResponse(id, error).id = id
                    /\ buildErrorResponse(id, error).error = error
BY DEF buildRequest, buildPublish, buildResponse, buildErrorResponse

----------------------------------------------------------------------------
(* What a step adds to the wire. *)

NewFrame(n, i) == i \in (Len(wire[n]) + 1)..Len(wire'[n])

FramesKept ==
  \A n \in Connections :
    /\ Len(wire[n]) <= Len(wire'[n])
    /\ \A i \in 1..Len(wire[n]) : wire'[n][i] = wire[n][i]

EntriesKept ==
  /\ m_nextRequestId <= m_nextRequestId'
  /\ calls <= calls'
  /\ \A id \in DOMAIN m_pendingRequests' :
       id < m_nextRequestId => /\ id \in DOMAIN m_pendingRequests
                               /\ m_pendingRequests'[id] = m_pendingRequests[id]

\* The frame of a call of the application, made in this step.
AppFrame(m, frame) ==
  /\ frame = buildRequest(NumberId(m_nextRequestId), m, AppObject(calls + 1))
  /\ calls' = calls + 1 /\ calls' \in Calls
  /\ m_nextRequestId < m_nextRequestId'
  /\ m_pendingRequests'[m_nextRequestId] = AppCallback(calls + 1)

\* A request that is no call, and a publish.
OwnRequest(frame) ==
  \E k \in m_nextRequestId..(m_nextRequestId' - 1) :
    /\ m_pendingRequests'[k].kind # "app"
    /\ \/ \E m \in Methods : frame = buildRequest(NumberId(k), m, EmptyObject)
       \/ \E m \in {"Subscribe", "Unsubscribe"}, t \in Topics :
            frame = buildRequest(NumberId(k), m, TextObject("topic", topicToString(t)))

OwnFrame(frame) == OwnRequest(frame) \/ \E t \in Topics : frame = buildPublish(t, EmptyObject)

FramesEffect ==
  /\ FramesKept
  /\ EntriesKept
  /\ \/ \E m \in Methods : \A n \in Connections : \A i : NewFrame(n, i) => AppFrame(m, wire'[n][i])
     \/ \A n \in Connections : \A i : NewFrame(n, i) => OwnFrame(wire'[n][i])

\* Transmit adds the frames it is given, or none.
LEMMA TransmitEffect ==
  ASSUME TypeInv, NEW frames \in Seq(Frames(Payloads, ErrorTexts)), Transmit(frames)
  PROVE  /\ FramesKept
         /\ \A n \in Connections : \A i : NewFrame(n, i) =>
              \E k \in 1..Len(frames) : wire'[n][i] = frames[k]
<1>1. wire \in [Connections -> Seq(Frames(Payloads, ErrorTexts))]
  BY DEF TypeInv, TypeOK
<1>2. CASE socket # "connected"
  <2>1. wire' = wire
    BY <1>2 DEF Transmit
  <2>2. \A n \in Connections : Len(wire[n]) \in Nat
    BY <1>1, LenProperties
  <2> QED
    BY <2>1, <2>2 DEF FramesKept, NewFrame
<1>3. CASE socket = "connected"
  <2>1. conn \in Connections
    BY <1>3 DEF TypeInv, TypeOK, StackSound, Connections
  <2>2. /\ wire'[conn] = wire[conn] \o frames
        /\ \A n \in Connections \ {conn} : wire'[n] = wire[n]
    BY <1>1, <1>3, <2>1 DEF Transmit
  <2>3. /\ Len(wire[conn]) \in Nat /\ Len(frames) \in Nat
        /\ Len(wire[conn] \o frames) = Len(wire[conn]) + Len(frames)
        /\ \A i \in 1..(Len(wire[conn]) + Len(frames)) : (wire[conn] \o frames)[i] =
             IF i <= Len(wire[conn]) THEN wire[conn][i] ELSE frames[i - Len(wire[conn])]
    BY <1>1, <2>1, ConcatProperties, LenProperties
  <2>4. \A n \in Connections : Len(wire[n]) \in Nat
    BY <1>1, LenProperties
  <2>5. FramesKept
    BY <2>2, <2>3, <2>4 DEF FramesKept
  <2>6. ASSUME NEW n \in Connections, NEW i, NewFrame(n, i)
        PROVE  \E k \in 1..Len(frames) : wire'[n][i] = frames[k]
    <3>1. CASE n = conn
      <4>1. /\ i - Len(wire[conn]) \in 1..Len(frames)
            /\ wire'[n][i] = frames[i - Len(wire[conn])]
        BY <2>2, <2>3, <2>6, <3>1 DEF NewFrame
      <4> QED
        BY <4>1
    <3>2. CASE n # conn
      BY <2>2, <2>4, <2>6, <3>2 DEF NewFrame
    <3> QED
      BY <3>1, <3>2
  <2> QED
    BY <2>5, <2>6
<1> QED
  BY <1>2, <1>3

\* The requests that are sent together.
LEMMA SendRequestsFrames ==
  ASSUME TypeInv, NEW requests \in Seq(Requests), NEW callback \in Callbacks,
         SendRequests(requests, callback), calls' \in {calls, calls + 1}
  PROVE  /\ FramesKept
         /\ EntriesKept
         /\ \A n \in Connections : \A i : NewFrame(n, i) =>
              \E k \in 1..Len(requests) :
                /\ m_nextRequestId + k - 1 \in m_nextRequestId..(m_nextRequestId' - 1)
                /\ m_pendingRequests'[m_nextRequestId + k - 1] = callback
                /\ wire'[n][i] = buildRequest(NumberId(m_nextRequestId + k - 1),
                                              requests[k].method, requests[k].params)
<1> DEFINE n == Len(requests)
           frames == [i \in 1..n |->
             buildRequest(NumberId(m_nextRequestId + i - 1), requests[i].method, requests[i].params)]
<1>1. n \in Nat /\ m_nextRequestId \in Nat \ {0} /\ calls \in Nat
  BY DEF TypeInv, TypeOK
<1>2. frames \in Seq(Frames(Payloads, ErrorTexts)) /\ Len(frames) = n
  <2>1. ASSUME NEW i \in 1..n
        PROVE  frames[i] \in Frames(Payloads, ErrorTexts)
    <3>1. requests[i] \in Requests
      BY <1>1, ElementOfSeq
    <3>2. m_nextRequestId + i - 1 \in Nat
      BY <1>1
    <3> QED
      BY <3>1, <3>2, RequestTyped DEF Requests
  <2>2. DOMAIN frames = 1..n
    OBVIOUS
  <2> HIDE DEF frames
  <2>3. frames \in [1..n -> Frames(Payloads, ErrorTexts)]
    BY <2>1, <2>2 DEF frames
  <2> QED
    BY <1>1, <2>3
<1>3. Transmit(frames)
  BY DEF SendRequests
<1>4. /\ m_nextRequestId' = m_nextRequestId + n
      /\ \A id \in FreshIds(requests) : m_pendingRequests'[id] = callback
      /\ DOMAIN m_pendingRequests' = DOMAIN m_pendingRequests \cup FreshIds(requests)
      /\ \A id \in DOMAIN m_pendingRequests : m_pendingRequests'[id] = m_pendingRequests[id]
  BY SendRequestsEffect
<1>5. EntriesKept
  BY <1>1, <1>4 DEF EntriesKept, FreshIds
<1>6. ASSUME NEW k \in 1..n
      PROVE  /\ m_nextRequestId + k - 1 \in m_nextRequestId..(m_nextRequestId' - 1)
             /\ m_pendingRequests'[m_nextRequestId + k - 1] = callback
             /\ frames[k] = buildRequest(NumberId(m_nextRequestId + k - 1),
                                         requests[k].method, requests[k].params)
  <2>1. m_nextRequestId + k - 1 \in m_nextRequestId..(m_nextRequestId' - 1)
    BY <1>1, <1>4
  <2>2. m_nextRequestId + k - 1 \in FreshIds(requests)
    BY <1>1 DEF FreshIds
  <2> QED
    BY <1>4, <2>1, <2>2
<1> HIDE DEF frames
<1>7. FramesKept /\ \A c \in Connections : \A i : NewFrame(c, i) => \E k \in 1..n : wire'[c][i] = frames[k]
  BY <1>2, <1>3, TransmitEffect
<1> QED
  BY <1>5, <1>6, <1>7

\* A step that leaves the wire alone and adds no entry.
LEMMA NothingSent ==
  ASSUME TypeInv, UNCHANGED <<wire, m_nextRequestId>>, calls' \in {calls, calls + 1},
         \A id \in DOMAIN m_pendingRequests' :
           id \in DOMAIN m_pendingRequests /\ m_pendingRequests'[id] = m_pendingRequests[id]
  PROVE  FramesEffect
<1>1. \A n \in Connections : Len(wire[n]) \in Nat
  BY LenProperties DEF TypeInv, TypeOK
<1>2. FramesKept
  BY <1>1 DEF FramesKept
<1>3. \A n \in Connections : \A i : ~NewFrame(n, i)
  BY <1>1 DEF NewFrame
<1>4. EntriesKept
  BY DEF EntriesKept, TypeInv, TypeOK
<1> QED
  BY <1>2, <1>3, <1>4 DEF FramesEffect

\* subscribe and unsubscribe send one frame, under a new id.
LEMMA TopicRequestFrames ==
  ASSUME TypeInv, NEW t \in Topics, NEW method \in {"Subscribe", "Unsubscribe"},
         SendTopicRequest(method, t), UNCHANGED calls
  PROVE  FramesEffect
<1>1. CASE ~m_connected
  BY <1>1, NothingSent DEF SendTopicRequest, serviceVars
<1>2. CASE m_connected
  <2> DEFINE requests == <<TopicRequest(method, t)>>
  <2>1. /\ requests \in Seq(Requests) /\ Len(requests) = 1
        /\ requests[1].method = method
        /\ requests[1].params = TextObject("topic", topicToString(t))
    BY TopicRequestTyped DEF TopicRequest
  <2>2. SendRequests(requests, LogCallback)
    BY <1>2 DEF SendTopicRequest
  <2>3. LogCallback.kind # "app"
    BY DEF LogCallback
  <2> HIDE DEF requests
  <2>4. \A n \in Connections : \A i : NewFrame(n, i) => OwnRequest(wire'[n][i])
    BY <2>1, <2>2, <2>3, CallbacksTyped, SendRequestsFrames DEF OwnRequest
  <2> QED
    BY <2>1, <2>2, <2>4, CallbacksTyped, SendRequestsFrames DEF FramesEffect, OwnFrame
<1> QED
  BY <1>1, <1>2

\* An operation of the application sends a call, a request of its own, a publish or nothing.
LEMMA AppFrames ==
  ASSUME TypeInv, AppStep
  PROVE  FramesEffect
<1> USE DEF serviceVars, stackVars, callVars
<1>1. ASSUME NEW url \in ServerUrls, setServerUrl(url)
      PROVE  FramesEffect
  BY <1>1, NothingSent DEF setServerUrl
<1>2. CASE connectToSocket
  BY <1>2, NothingSent DEF connectToSocket
<1>3. CASE disconnectFromSocket
  BY <1>3, NothingSent DEF disconnectFromSocket, BeginDrain
<1>4. ASSUME NEW method \in Methods, request(method)
      PROVE  FramesEffect
  <2>1. calls' = calls + 1 /\ calls' \in Calls
    BY <1>4 DEF request
  <2>2. CASE ~m_connected
    BY <1>4, <2>1, <2>2, NothingSent DEF request
  <2>3. CASE m_connected
    <3> DEFINE requests == <<[method |-> method, params |-> AppObject(calls + 1)]>>
    <3>1. SendRequests(requests, AppCallback(calls + 1))
      BY <1>4, <2>3 DEF request
    <3>2. /\ requests \in Seq(Requests) /\ Len(requests) = 1
          /\ requests[1].method = method /\ requests[1].params = AppObject(calls + 1)
      <4>1. AppObject(calls + 1) \in Payloads
        BY <2>1, BoundsAssumption, ObjectsTyped DEF Calls
      <4> QED
        BY <4>1, AppRequestTyped
    <3>3. AppCallback(calls + 1) \in Callbacks
      BY <2>1, CallbacksTyped
    <3>4. m_nextRequestId \in Nat
      BY DEF TypeInv, TypeOK
    <3> HIDE DEF requests
    <3>5. \A n \in Connections : \A i : NewFrame(n, i) =>
            /\ m_nextRequestId \in m_nextRequestId..(m_nextRequestId' - 1)
            /\ m_pendingRequests'[m_nextRequestId] = AppCallback(calls + 1)
            /\ wire'[n][i] = buildRequest(NumberId(m_nextRequestId), method, AppObject(calls + 1))
      <4> SUFFICES ASSUME NEW n \in Connections, NEW i, NewFrame(n, i)
                   PROVE  /\ m_nextRequestId \in m_nextRequestId..(m_nextRequestId' - 1)
                          /\ m_pendingRequests'[m_nextRequestId] = AppCallback(calls + 1)
                          /\ wire'[n][i] = buildRequest(NumberId(m_nextRequestId), method, AppObject(calls + 1))
        OBVIOUS
      <4>1. PICK k \in 1..1 :
              /\ m_nextRequestId + k - 1 \in m_nextRequestId..(m_nextRequestId' - 1)
              /\ m_pendingRequests'[m_nextRequestId + k - 1] = AppCallback(calls + 1)
              /\ wire'[n][i] = buildRequest(NumberId(m_nextRequestId + k - 1),
                                            requests[k].method, requests[k].params)
        BY <2>1, <3>1, <3>2, <3>3, SendRequestsFrames
      <4>2. k = 1 /\ m_nextRequestId + k - 1 = m_nextRequestId
        BY <3>4
      <4> QED
        BY <3>2, <4>1, <4>2
    <3>6. m_nextRequestId' = m_nextRequestId + 1
      BY <3>1, <3>2 DEF SendRequests, IdAfter
    <3>7. \A n \in Connections : \A i : NewFrame(n, i) => AppFrame(method, wire'[n][i])
      BY <2>1, <3>4, <3>5, <3>6 DEF AppFrame
    <3> QED
      BY <2>1, <3>1, <3>2, <3>3, <3>7, SendRequestsFrames DEF FramesEffect
  <2> QED
    BY <2>2, <2>3
<1>5. ASSUME NEW method \in Methods, requestNoCallback(method)
      PROVE  FramesEffect
  <2> DEFINE requests == <<[method |-> method, params |-> EmptyObject]>>
  <2>1. SendRequests(requests, EmptyCallback) /\ UNCHANGED calls
    BY <1>5 DEF requestNoCallback
  <2>2. /\ requests \in Seq(Requests) /\ Len(requests) = 1
        /\ requests[1].method = method /\ requests[1].params = EmptyObject
    BY ObjectsTyped, AppRequestTyped
  <2>3. EmptyCallback.kind # "app"
    BY DEF EmptyCallback
  <2> HIDE DEF requests
  <2>4. \A n \in Connections : \A i : NewFrame(n, i) => OwnRequest(wire'[n][i])
    BY <2>1, <2>2, <2>3, CallbacksTyped, SendRequestsFrames DEF OwnRequest
  <2> QED
    BY <2>1, <2>2, <2>4, CallbacksTyped, SendRequestsFrames DEF FramesEffect, OwnFrame
<1>6. ASSUME NEW t \in Topics, subscribe(t) \/ unsubscribe(t)
      PROVE  FramesEffect
  BY <1>6, TopicRequestFrames DEF subscribe, unsubscribe
<1>7. ASSUME NEW t \in Topics, publish(t)
      PROVE  FramesEffect
  <2> DEFINE frames == <<buildPublish(t, EmptyObject)>>
  <2>1. /\ frames \in Seq(Frames(Payloads, ErrorTexts)) /\ Len(frames) = 1
        /\ frames[1] = buildPublish(t, EmptyObject)
    <3>1. buildPublish(t, EmptyObject) \in Frames(Payloads, ErrorTexts)
      BY VocabularyAssumption, PublishTyped
    <3> QED
      BY <3>1
  <2>2. Transmit(frames) /\ UNCHANGED <<m_nextRequestId, m_pendingRequests, calls>>
    BY <1>7 DEF publish
  <2> HIDE DEF frames
  <2>3. EntriesKept
    BY <2>2 DEF EntriesKept, TypeInv, TypeOK
  <2>4. \A n \in Connections : \A i : NewFrame(n, i) => OwnFrame(wire'[n][i])
    BY <2>1, <2>2, TransmitEffect DEF OwnFrame
  <2> QED
    BY <2>1, <2>2, <2>3, <2>4, TransmitEffect DEF FramesEffect
<1> QED
  BY <1>1, <1>2, <1>3, <1>4, <1>5, <1>6, <1>7 DEF AppStep

\* resubscribeAll sends one frame for each topic, each under an id of its own.
LEMMA ResubscriptionFrames ==
  ASSUME TypeInv, resubscribeAll
  PROVE  FramesEffect
<1> DEFINE n == Len(m_subscribedTopics)
           requests == [i \in 1..n |-> TopicRequest("Subscribe", m_subscribedTopics[i])]
<1>1. UNCHANGED calls
  BY DEF resubscribeAll, callVars
<1>2. CASE UNCHANGED serviceVars
  BY <1>1, <1>2, NothingSent DEF serviceVars
<1>3. CASE ~UNCHANGED serviceVars
  <2>1. SendRequests(requests, LogCallback)
    BY <1>3 DEF resubscribeAll
  <2>2. requests \in Seq(Requests)
    BY ResubscriptionsTyped
  <2>3. n \in Nat /\ \A k \in 1..n : m_subscribedTopics[k] \in Topics
    BY DEF TypeInv, TypeOK
  <2>4. Len(requests) = n
    <3>1. DOMAIN requests = 1..n
      OBVIOUS
    <3> HIDE DEF requests, n
    <3> QED
      BY ONLY <2>3, <3>1
  <2>5. \A k \in 1..Len(requests) :
          /\ requests[k].method = "Subscribe"
          /\ \E t \in Topics : requests[k].params = TextObject("topic", topicToString(t))
    BY <2>3, <2>4 DEF TopicRequest
  <2>6. LogCallback.kind # "app"
    BY DEF LogCallback
  <2> HIDE DEF requests
  <2>7. ASSUME NEW c \in Connections, NEW i, NewFrame(c, i)
        PROVE  OwnRequest(wire'[c][i])
    <3>1. PICK k \in 1..Len(requests) :
            /\ m_nextRequestId + k - 1 \in m_nextRequestId..(m_nextRequestId' - 1)
            /\ m_pendingRequests'[m_nextRequestId + k - 1] = LogCallback
            /\ wire'[c][i] = buildRequest(NumberId(m_nextRequestId + k - 1),
                                          requests[k].method, requests[k].params)
      BY <1>1, <2>1, <2>2, <2>7, CallbacksTyped, SendRequestsFrames
    <3> QED
      BY <2>5, <2>6, <3>1 DEF OwnRequest
  <2> QED
    BY <1>1, <2>1, <2>2, <2>7, CallbacksTyped, SendRequestsFrames DEF FramesEffect, OwnFrame
<1> QED
  BY <1>2, <1>3

\* What any step adds to the wire, and what it keeps of the pending table.
LEMMA NextFrames == TypeInv /\ [Next]_vars => FramesEffect
<1> USE DEF serviceVars, callVars
<1> SUFFICES ASSUME TypeInv, [Next]_vars
             PROVE  FramesEffect
  OBVIOUS
<1>1. CASE AppStep
  BY <1>1, AppFrames
<1>2. CASE resubscribeAll
  BY <1>2, ResubscriptionFrames
<1>3. CASE failNext
  BY <1>3, NothingSent DEF failNext
<1>4. CASE finishDisconnect
  <2>1. DOMAIN m_pendingRequests' = {}
    BY <1>4 DEF finishDisconnect, MarkDown, NoEntries
  <2> QED
    BY <1>4, <2>1, NothingSent DEF finishDisconnect
<1>5. CASE SocketStep
  BY <1>5, NothingSent DEF SocketStep, onConnected, onDisconnected, BeginDrain
<1>6. ASSUME NEW message, dispatchMessage(message)
      PROVE  FramesEffect
  <2>1. \A id \in DOMAIN m_pendingRequests' :
          id \in DOMAIN m_pendingRequests /\ m_pendingRequests'[id] = m_pendingRequests[id]
    BY <1>6 DEF dispatchMessage, TakeResponse, Ignore, TakeEntry, Restrict
  <2> QED
    BY <1>6, <2>1, NothingSent DEF dispatchMessage
<1>7. CASE UNCHANGED vars
  BY <1>7, NothingSent DEF vars
<1> QED
  BY <1>1, <1>2, <1>3, <1>4, <1>5, <1>6, <1>7 DEF Next, LoopStep

----------------------------------------------------------------------------
(* A call is answered with the result of its own request. *)

\* The applications that subscribe by subscribe() and unsubscribe().
PlainMethods == Methods \cap {"Subscribe", "Unsubscribe"} = {}

RequestFrames(n) == {i \in 1..Len(wire[n]) : isRequest(wire[n][i])}

IdsIssued ==
  \A n \in Connections : \A i \in RequestFrames(n) :
    \E k \in 1..(m_nextRequestId - 1) : wire[n][i].id = NumberId(k)

FramesMatchEntries ==
  \A n \in Connections : \A i \in RequestFrames(n) : \A id \in DOMAIN m_pendingRequests :
    m_pendingRequests[id].kind = "app" /\ wire[n][i].id = NumberId(id) =>
      /\ wire[n][i].params = AppObject(m_pendingRequests[id].call)
      /\ wire[n][i].method \notin {"subscribe", "unsubscribe"}

IdsInv == IdsIssued /\ FramesMatchEntries

\* Ranges of ids, as the next one grows.
LEMMA WiderRange ==
  ASSUME NEW a \in Nat \ {0}, NEW b \in Nat, a <= b
  PROVE  /\ \A k \in 1..(a - 1) : k \in 1..(b - 1) /\ k < a
         /\ \A k \in a..(b - 1) : k \in 1..(b - 1)
OBVIOUS

\* Ids are equal only if their numbers are.
LEMMA SameNumber == \A j, k : NumberId(j) = NumberId(k) => j = k
BY DEF NumberId

\* A frame of the next state is one of this state, a call's, or the service's own.
LEMMA FrameCases ==
  ASSUME TypeInv, FramesEffect, NEW n \in Connections, NEW i \in 1..Len(wire'[n])
  PROVE  \/ i \in 1..Len(wire[n]) /\ wire'[n][i] = wire[n][i]
         \/ \E m \in Methods : AppFrame(m, wire'[n][i])
         \/ OwnFrame(wire'[n][i])
<1>1. Len(wire[n]) \in Nat
  BY LenProperties DEF TypeInv, TypeOK
<1>2. CASE i <= Len(wire[n])
  BY <1>1, <1>2 DEF FramesEffect, FramesKept
<1>3. CASE ~(i <= Len(wire[n]))
  <2>1. NewFrame(n, i)
    BY <1>1, <1>3 DEF NewFrame
  <2> QED
    BY <2>1 DEF FramesEffect
<1> QED
  BY <1>2, <1>3

\* A step keeps ids unique: new frames have new ids, whose entries are those of their calls.
LEMMA IdsStep ==
  ASSUME PlainMethods, TypeInv, TypeInv', IdsInv, FramesEffect
  PROVE  IdsInv'
<1>a. /\ m_nextRequestId \in Nat \ {0} /\ m_nextRequestId' \in Nat \ {0}
      /\ m_nextRequestId <= m_nextRequestId'
      /\ DOMAIN m_pendingRequests \subseteq 1..(m_nextRequestId - 1)
      /\ DOMAIN m_pendingRequests' \subseteq 1..(m_nextRequestId' - 1)
  BY DEF TypeInv, TypeOK, FramesEffect, EntriesKept
<1>b. \A id \in DOMAIN m_pendingRequests' : id < m_nextRequestId =>
        id \in DOMAIN m_pendingRequests /\ m_pendingRequests'[id] = m_pendingRequests[id]
  BY DEF FramesEffect, EntriesKept
<1>1. ASSUME NEW n \in Connections, NEW i \in RequestFrames(n)'
      PROVE  /\ \E k \in 1..(m_nextRequestId' - 1) : wire'[n][i].id = NumberId(k)
             /\ \A id \in DOMAIN m_pendingRequests' :
                  m_pendingRequests'[id].kind = "app" /\ wire'[n][i].id = NumberId(id) =>
                    /\ wire'[n][i].params = AppObject(m_pendingRequests'[id].call)
                    /\ wire'[n][i].method \notin {"subscribe", "unsubscribe"}
  <2>1. i \in 1..Len(wire'[n]) /\ isRequest(wire'[n][i])
    BY <1>1 DEF RequestFrames
  <2>2. CASE i \in 1..Len(wire[n]) /\ wire'[n][i] = wire[n][i]
    <3>1. i \in RequestFrames(n)
      BY <2>1, <2>2 DEF RequestFrames
    <3>2. PICK k \in 1..(m_nextRequestId - 1) : wire[n][i].id = NumberId(k)
      BY <3>1 DEF IdsInv, IdsIssued
    <3>3. k \in 1..(m_nextRequestId' - 1) /\ k < m_nextRequestId
      BY <1>a, WiderRange
    <3>4. \A id \in DOMAIN m_pendingRequests' : wire'[n][i].id = NumberId(id) =>
            id \in DOMAIN m_pendingRequests /\ m_pendingRequests'[id] = m_pendingRequests[id]
      BY <1>b, <2>2, <3>2, <3>3, SameNumber
    <3> QED
      BY <2>2, <3>1, <3>2, <3>3, <3>4 DEF IdsInv, FramesMatchEntries
  <2>3. ASSUME NEW m \in Methods, AppFrame(m, wire'[n][i])
        PROVE  /\ \E k \in 1..(m_nextRequestId' - 1) : wire'[n][i].id = NumberId(k)
               /\ \A id \in DOMAIN m_pendingRequests' :
                    m_pendingRequests'[id].kind = "app" /\ wire'[n][i].id = NumberId(id) =>
                      /\ wire'[n][i].params = AppObject(m_pendingRequests'[id].call)
                      /\ wire'[n][i].method \notin {"subscribe", "unsubscribe"}
    <3>1. /\ wire'[n][i].id = NumberId(m_nextRequestId)
          /\ wire'[n][i].params = AppObject(calls + 1)
          /\ wire'[n][i].method = methodToString(m)
          /\ m_nextRequestId < m_nextRequestId'
          /\ m_pendingRequests'[m_nextRequestId].call = calls + 1
      BY <2>3, FrameFields DEF AppFrame, AppCallback
    <3>2. methodToString(m) \notin {"subscribe", "unsubscribe"}
      BY VocabularyAssumption, MethodNamesDiffer DEF PlainMethods
    <3>3. m_nextRequestId \in 1..(m_nextRequestId' - 1)
      BY <1>a, <3>1
    <3> QED
      BY <3>1, <3>2, <3>3, SameNumber
  <2>4. CASE OwnFrame(wire'[n][i])
    <3>1. OwnRequest(wire'[n][i])
      BY <2>1, <2>4, TypesDiffer DEF OwnFrame
    <3>2. PICK k \in m_nextRequestId..(m_nextRequestId' - 1) :
            m_pendingRequests'[k].kind # "app" /\ wire'[n][i].id = NumberId(k)
      BY <3>1, FrameFields DEF OwnRequest
    <3>3. k \in 1..(m_nextRequestId' - 1)
      BY <1>a, WiderRange
    <3> QED
      BY <3>2, <3>3, SameNumber
  <2> QED
    BY <2>1, <2>2, <2>3, <2>4, FrameCases
<1>2. IdsIssued'
  BY <1>1 DEF IdsIssued
<1>3. FramesMatchEntries'
  BY <1>1 DEF FramesMatchEntries
<1> QED
  BY <1>2, <1>3 DEF IdsInv

\* A peer's success for a pending call carries the params of that call.
LEMMA SuccessMatches ==
  ASSUME TypeInv, IdsInv, conn > 0, NEW message \in PeerFrames, isResponse(message),
         NEW id \in DOMAIN m_pendingRequests, id = ResponseKey(message),
         m_pendingRequests[id].kind = "app", Outcome(message).ok
  PROVE  Outcome(message).result = AppObject(m_pendingRequests[id].call)
<1> DEFINE requests == {m \in ToSet(wire[conn]) : isRequest(m)}
           answers == {buildResponse(r.id, PeerResult(r)) : r \in requests}
                        \cup {buildErrorResponse(r.id, e) : r \in requests, e \in ErrorTexts}
<1>1. message.error = NoText /\ Outcome(message).result = message.result
  BY DEF Outcome, Success, Failure, parseErrorMessage, parseResult
<1>2. NoText \notin ErrorTexts
  BY VocabularyAssumption
<1>3. id # EmptyKey
  BY DEF TypeInv, TypeOK, EmptyKey
<1>4. PICK a \in answers : message = a \/ message = [a EXCEPT !.id.kind = "string"]
  <2>1. \A e \in ErrorTexts : message # buildErrorResponse(NoId, e)
    BY <1>1, <1>2, FrameFields
  <2>2. \A t : message # buildPublish(t, EmptyObject)
    BY TypesDiffer
  <2>3. message # [buildResponse(NoId, EmptyObject) EXCEPT !.type = "unknown"]
    BY TypesDiffer
  <2> QED
    BY <2>1, <2>2, <2>3 DEF PeerFrames
<1>5. message.error = a.error /\ message.result = a.result /\ message.id.text = a.id.text
  <2>1. ASSUME NEW b \in IdValues, NEW result, NEW error,
               a = buildResponse(b, result) \/ a = buildErrorResponse(b, error)
        PROVE  /\ [a EXCEPT !.id.kind = "string"].error = a.error
               /\ [a EXCEPT !.id.kind = "string"].result = a.result
               /\ [a EXCEPT !.id.kind = "string"].id.text = a.id.text
    BY <2>1 DEF buildResponse, buildErrorResponse, IdValues
  <2>2. \A r \in requests : r.id \in IdValues
    <3>1. wire[conn] \in Seq(Frames(Payloads, ErrorTexts))
      BY DEF TypeInv, TypeOK, Connections
    <3>2. \A r \in ToSet(wire[conn]) : r \in Frames(Payloads, ErrorTexts)
      BY <3>1 DEF ToSet
    <3>3. \A r \in Frames(Payloads, ErrorTexts) : r.id \in IdValues
      BY DEF Frames
    <3> QED
      BY <3>2, <3>3
  <2>3. \E b \in IdValues : \E result, error :
          a = buildResponse(b, result) \/ a = buildErrorResponse(b, error)
    BY <2>2
  <2> HIDE DEF answers, requests
  <2> QED
    BY <1>4, <2>1, <2>3
<1>6. PICK r \in requests : a = buildResponse(r.id, PeerResult(r))
  BY <1>1, <1>2, <1>5, FrameFields
<1>7. conn \in Connections
  BY DEF TypeInv, TypeOK, Connections
<1>8. PICK i \in 1..Len(wire[conn]) : r = wire[conn][i]
  BY <1>7, LenProperties DEF ToSet, TypeInv, TypeOK
<1>9. i \in RequestFrames(conn)
  BY <1>8 DEF RequestFrames
<1>10. PICK k \in 1..(m_nextRequestId - 1) : r.id = NumberId(k)
  BY <1>7, <1>8, <1>9 DEF IdsInv, IdsIssued
<1>11. message.id.text = k
  BY <1>5, <1>6, <1>10, FrameFields DEF NumberId
<1>12. id = message.id.text
  BY <1>3 DEF ResponseKey, requestIdKey, parseId, EmptyKey
<1>13. r.params = AppObject(m_pendingRequests[id].call) /\ r.method \notin {"subscribe", "unsubscribe"}
  BY <1>7, <1>8, <1>9, <1>10, <1>11, <1>12 DEF IdsInv, FramesMatchEntries
<1>14. PeerResult(r) = r.params
  BY <1>13, MethodNamesDiffer, ResultsTyped DEF PeerResult
<1> QED
  BY <1>1, <1>5, <1>6, <1>13, <1>14, FrameFields

\* A callback that is given its own call's result, or none, keeps the answers right.
LEMMA AnswerKeepsMatch ==
  ASSUME TypeInv, AnswersMatch, NEW c, NEW outcome, Answer(c, outcome),
         c \in Calls => outcome \in Outcomes,
         outcome.ok => outcome.result = AppObject(c)
  PROVE  AnswersMatch'
<1>1. completions \in [Calls -> Seq(Outcomes)]
  BY DEF TypeInv, TypeOK
<1>2. ASSUME NEW d \in Calls, NEW i \in 1..Len(completions'[d]), completions'[d][i].ok
      PROVE  completions'[d][i].result = AppObject(d)
  <2>1. CASE d = c
    <3>1. completions'[d] = Append(completions[d], outcome)
      BY <1>1, <2>1 DEF Answer
    <3>2. Len(completions[d]) \in Nat
      BY <1>1, LenProperties
    <3>3. \/ i \in 1..Len(completions[d]) /\ completions'[d][i] = completions[d][i]
          \/ completions'[d][i] = outcome
      BY <1>1, <1>2, <2>1, <3>1, <3>2, AppendProperties
    <3> QED
      BY <1>2, <2>1, <3>3 DEF AnswersMatch
  <2>2. CASE d # c
    <3>1. completions'[d] = completions[d]
      BY <1>1, <2>2 DEF Answer
    <3> QED
      BY <1>2, <3>1 DEF AnswersMatch
  <2> QED
    BY <2>1, <2>2
<1> QED
  BY <1>2 DEF AnswersMatch

\* What a step answers: a refusal or a disconnect, or the frame of the peer.
LEMMA AnswersStep ==
  ASSUME TypeInv, IdsInv, AnswersMatch, [Next]_vars
  PROVE  AnswersMatch'
<1> USE DEF serviceVars, stackVars, callVars
<1>1. CASE UNCHANGED completions
  BY <1>1 DEF AnswersMatch
<1>2. ASSUME NEW c, Answer(c, Disconnected)
      PROVE  AnswersMatch'
  <2>1. Disconnected \in Outcomes /\ ~Disconnected.ok
    BY DEF Outcomes, Disconnected, Failure
  <2> QED
    BY <1>2, <2>1, AnswerKeepsMatch
<1>3. CASE AppStep
  <2>1. \/ UNCHANGED completions
        \/ Answer(calls + 1, Disconnected)
    BY <1>3 DEF AppStep, setServerUrl, connectToSocket, disconnectFromSocket, BeginDrain, request,
                requestNoCallback, subscribe, unsubscribe, publish
  <2> QED
    BY <1>1, <1>2, <2>1
<1>4. CASE LoopStep \/ SocketStep
  BY <1>1, <1>2, <1>4
     DEF LoopStep, SocketStep, resubscribeAll, failNext, finishDisconnect, onConnected,
         onDisconnected, BeginDrain
<1>5. ASSUME conn > 0, NEW message \in PeerFrames, dispatchMessage(message), ~UNCHANGED completions
      PROVE  AnswersMatch'
  <2> DEFINE id == ResponseKey(message)
  <2>1. /\ isResponse(message) /\ id \in DOMAIN m_pendingRequests
        /\ m_pendingRequests[id].kind = "app"
        /\ Answer(m_pendingRequests[id].call, Outcome(message))
    BY <1>5 DEF dispatchMessage, TakeResponse, Ignore
  <2>2. Outcome(message) \in Outcomes
    BY <1>5, PeerFramesTyped
  <2>3. Outcome(message).ok => Outcome(message).result = AppObject(m_pendingRequests[id].call)
    BY <1>5, <2>1, SuccessMatches
  <2> QED
    BY <2>1, <2>2, <2>3, AnswerKeepsMatch
<1>6. CASE UNCHANGED vars
  BY <1>1, <1>6 DEF vars
<1> QED
  BY <1>1, <1>3, <1>4, <1>5, <1>6 DEF Next

AnswersInv == TypeInv /\ IdsInv /\ AnswersMatch

\* The ids and the answers, together, are invariant.
LEMMA AnswersInvInductive ==
  ASSUME PlainMethods
  PROVE  /\ Init => AnswersInv
         /\ AnswersInv /\ [Next]_vars => AnswersInv'
<1>1. ASSUME Init PROVE AnswersInv
  <2>1. \A n \in Connections : RequestFrames(n) = {}
    BY <1>1 DEF Init, RequestFrames
  <2>2. \A c \in Calls : Len(completions[c]) = 0
    BY <1>1 DEF Init
  <2> QED
    BY <1>1, <2>1, <2>2, InitTypeInv DEF AnswersInv, IdsInv, IdsIssued, FramesMatchEntries, AnswersMatch
<1>2. ASSUME AnswersInv, [Next]_vars PROVE AnswersInv'
  BY <1>2, TypeInvStep, NextFrames, IdsStep, AnswersStep DEF AnswersInv
<1> QED
  BY <1>1, <1>2

\* A call answered with success was answered with the result of its own request, for
\* any peer that echoes ids, through reconnects and repeated answers, whatever the
\* application does in its callbacks.
THEOREM AnswersMatchHolds ==
  ASSUME PlainMethods
  PROVE  Spec => []AnswersMatch
<1>1. AnswersInv => AnswersMatch
  BY DEF AnswersInv
<1> QED
  BY <1>1, AnswersInvInductive, PTL DEF Spec

----------------------------------------------------------------------------
(* The list of topics holds each topic once. *)

Distinct(list) == \A i, j \in 1..Len(list) : list[i] = list[j] => i = j

\* Adding a topic to the list, and taking one out of it.
LEMMA WithTopicHolds ==
  ASSUME m_subscribedTopics \in Seq(Topics), Distinct(m_subscribedTopics), NEW t \in Topics
  PROVE  /\ Distinct(WithTopic(t))
         /\ \A u : Contains(WithTopic(t), u) <=> Contains(m_subscribedTopics, u) \/ u = t
<1> DEFINE list == m_subscribedTopics
           longer == Append(list, t)
<1>1. CASE Contains(list, t)
  BY <1>1 DEF WithTopic
<1>2. CASE ~Contains(list, t)
  <2>1. WithTopic(t) = longer
    BY <1>2 DEF WithTopic
  <2>2. /\ Len(list) \in Nat /\ Len(longer) = Len(list) + 1
        /\ \A i \in 1..Len(list) : longer[i] = list[i]
        /\ longer[Len(list) + 1] = t
    BY AppendProperties, LenProperties
  <2>3. \A i \in 1..Len(list) : list[i] # t
    BY <1>2 DEF Contains
  <2> HIDE DEF longer
  <2>4. \A i \in 1..Len(longer) : i \in 1..Len(list) \/ i = Len(list) + 1
    BY <2>2
  <2>5. Distinct(longer)
    BY <2>2, <2>3, <2>4 DEF Distinct
  <2>6. \A u : Contains(longer, u) <=> Contains(list, u) \/ u = t
    <3>1. \A i \in 1..Len(list) : i \in 1..Len(longer)
      BY <2>2
    <3>2. Len(list) + 1 \in 1..Len(longer)
      BY <2>2
    <3> QED
      BY <2>2, <2>4, <3>1, <3>2 DEF Contains
  <2> QED
    BY <2>1, <2>5, <2>6
<1> QED
  BY <1>1, <1>2

LEMMA WithoutTopicHolds ==
  ASSUME m_subscribedTopics \in Seq(Topics), Distinct(m_subscribedTopics), NEW t \in Topics
  PROVE  /\ Distinct(WithoutTopic(t))
         /\ \A u : Contains(WithoutTopic(t), u) <=> Contains(m_subscribedTopics, u) /\ u # t
<1> DEFINE list == m_subscribedTopics
           n == Len(list)
           k == CHOOSE i \in 1..n : list[i] = t
           shorter == RemoveAt(list, k)
<1>1. CASE ~Contains(list, t)
  BY <1>1 DEF WithoutTopic, Contains
<1>2. CASE Contains(list, t)
  <2>1. WithoutTopic(t) = shorter
    BY <1>2 DEF WithoutTopic
  <2>2. n \in Nat /\ \A i \in 1..n : list[i] \in Topics
    BY ElementOfSeq, LenProperties
  <2>3. k \in 1..n /\ list[k] = t
    BY <1>2 DEF Contains
  <2> HIDE DEF k
  <2>4. /\ SubSeq(list, 1, k - 1) \in Seq(Topics)
        /\ Len(SubSeq(list, 1, k - 1)) = k - 1
        /\ \A i \in 1..(k - 1) : SubSeq(list, 1, k - 1)[i] = list[i]
    <3>1. \A i \in 1..(k - 1) : list[i] \in Topics
      BY <2>2, <2>3
    <3>2. 1 \in Int /\ k - 1 \in Int
      BY <2>2, <2>3
    <3>3. /\ SubSeq(list, 1, k - 1) \in Seq(Topics)
          /\ Len(SubSeq(list, 1, k - 1)) = IF 1 <= k - 1 THEN k - 1 - 1 + 1 ELSE 0
          /\ \A i \in 1..(k - 1 - 1 + 1) : SubSeq(list, 1, k - 1)[i] = list[1 + i - 1]
      BY ONLY <3>1, <3>2, SubSeqProperties
    <3> QED
      BY <2>2, <2>3, <3>3
  <2>5. /\ SubSeq(list, k + 1, n) \in Seq(Topics)
        /\ Len(SubSeq(list, k + 1, n)) = n - k
        /\ \A i \in 1..(n - k) : SubSeq(list, k + 1, n)[i] = list[k + i]
    <3>1. \A i \in (k + 1)..n : list[i] \in Topics
      BY <2>2, <2>3
    <3>2. n \in Int /\ k + 1 \in Int
      BY <2>2, <2>3
    <3>3. /\ SubSeq(list, k + 1, n) \in Seq(Topics)
          /\ Len(SubSeq(list, k + 1, n)) = IF k + 1 <= n THEN n - (k + 1) + 1 ELSE 0
          /\ \A i \in 1..(n - (k + 1) + 1) : SubSeq(list, k + 1, n)[i] = list[k + 1 + i - 1]
      BY ONLY <3>1, <3>2, SubSeqProperties
    <3> QED
      BY <2>2, <2>3, <3>3
  <2>6. /\ Len(shorter) = n - 1
        /\ \A i \in 1..(n - 1) : shorter[i] = IF i < k THEN list[i] ELSE list[i + 1]
    <3>1. /\ Len(shorter) = (k - 1) + (n - k)
          /\ \A i \in 1..((k - 1) + (n - k)) : shorter[i] =
               IF i <= k - 1 THEN SubSeq(list, 1, k - 1)[i] ELSE SubSeq(list, k + 1, n)[i - (k - 1)]
      BY <2>4, <2>5, ConcatProperties DEF RemoveAt
    <3> QED
      BY <2>2, <2>3, <2>4, <2>5, <3>1
  <2> HIDE DEF shorter
  <2>7. Distinct(shorter)
    BY <2>2, <2>3, <2>6 DEF Distinct
  <2>8. ASSUME NEW u
        PROVE  Contains(shorter, u) <=> Contains(list, u) /\ u # t
    <3>1. Contains(shorter, u) => Contains(list, u) /\ u # t
      BY <2>2, <2>3, <2>6 DEF Contains, Distinct
    <3>2. ASSUME NEW i \in 1..n, list[i] = u, u # t
          PROVE  Contains(shorter, u)
      <4>1. CASE i < k
        <5>1. i \in 1..(n - 1) /\ shorter[i] = u
          BY <2>2, <2>3, <2>6, <3>2, <4>1
        <5> QED
          BY <2>6, <5>1 DEF Contains
      <4>2. CASE ~(i < k)
        <5>1. i - 1 \in 1..(n - 1) /\ shorter[i - 1] = u
          BY <2>2, <2>3, <2>6, <3>2, <4>2
        <5> QED
          BY <2>6, <5>1 DEF Contains
      <4> QED
        BY <4>1, <4>2
    <3> QED
      BY <3>1, <3>2 DEF Contains
  <2> QED
    BY <2>1, <2>7, <2>8
<1> QED
  BY <1>1, <1>2

----------------------------------------------------------------------------
(* The peer is told what the application holds. *)

TopicFrame(frame, t) ==
  frame.method \in {"subscribe", "unsubscribe"} /\ TopicMember(frame.params) = topicToString(t)

\* Frames added to a log change what it announces of t if they are about t: the
\* last of them decides.
LEMMA AnnouncedConcat ==
  ASSUME NEW S, NEW old \in Seq(S), NEW new \in Seq(S), NEW t
  PROVE  /\ TopicFrames(new, t) = {} => (Announced(old \o new, t) <=> Announced(old, t))
         /\ \A k : TopicFrames(new, t) = {k} =>
              (Announced(old \o new, t) <=> new[k].method = "subscribe")
<1> DEFINE m == Len(old)
           both == old \o new
<1>1. /\ m \in Nat /\ Len(new) \in Nat
      /\ Len(both) = m + Len(new)
      /\ \A i \in 1..(m + Len(new)) : both[i] = IF i <= m THEN old[i] ELSE new[i - m]
  BY ConcatProperties, LenProperties
<1> HIDE DEF both, m
<1>2. /\ \A i \in 1..m : i \in 1..Len(both) /\ both[i] = old[i]
      /\ \A k \in 1..Len(new) : m + k \in 1..Len(both) /\ both[m + k] = new[k]
      /\ \A i \in 1..Len(both) : i \in 1..m \/ \E k \in 1..Len(new) : i = m + k
  <2>1. \A i \in 1..m : i \in 1..Len(both) /\ both[i] = old[i]
    BY <1>1
  <2>2. ASSUME NEW k \in 1..Len(new)
        PROVE  m + k \in 1..Len(both) /\ both[m + k] = new[k]
    <3>1. m + k \in 1..(m + Len(new)) /\ ~(m + k <= m) /\ m + k - m = k
      BY <1>1
    <3> QED
      BY <1>1, <3>1
  <2>3. ASSUME NEW i \in 1..Len(both)
        PROVE  i \in 1..m \/ \E k \in 1..Len(new) : i = m + k
    <3>1. i \in 1..m \/ (i - m \in 1..Len(new) /\ i = m + (i - m))
      BY <1>1
    <3> QED
      BY <3>1
  <2> QED
    BY <2>1, <2>2, <2>3
<1>3. \A frames, i : i \in TopicFrames(frames, t) <=> i \in 1..Len(frames) /\ TopicFrame(frames[i], t)
  BY DEF TopicFrames, TopicFrame
<1>4. ASSUME TopicFrames(new, t) = {}
      PROVE  Announced(both, t) <=> Announced(old, t)
  <2>1. TopicFrames(both, t) = TopicFrames(old, t)
    BY <1>2, <1>3, <1>4, m = Len(old) DEF m
  <2>2. \A i \in TopicFrames(old, t) : both[i] = old[i]
    BY <1>2, <1>3 DEF m
  <2> QED
    BY <2>1, <2>2 DEF Announced
<1>5. ASSUME NEW k, TopicFrames(new, t) = {k}
      PROVE  Announced(both, t) <=> new[k].method = "subscribe"
  <2>1. k \in 1..Len(new) /\ TopicFrame(new[k], t)
    BY <1>3, <1>5
  <2>2. m + k \in TopicFrames(both, t) /\ both[m + k] = new[k]
    BY <1>2, <1>3, <2>1
  <2>3. \A i \in TopicFrames(both, t) : i \in 1..m \/ i = m + k
    BY <1>2, <1>3, <1>5
  <2>4. \A i \in TopicFrames(both, t) : i <= m + k
    BY <1>1, <2>1, <2>3
  <2>5. \A i \in TopicFrames(both, t) : m + k <= i => i = m + k
    BY <1>1, <2>1, <2>3
  <2> QED
    BY <2>2, <2>4, <2>5 DEF Announced
<1> QED
  BY <1>4, <1>5 DEF both

\* While the handlers of connectedChanged run, the peer has been told no more than
\* the application holds; then exactly that.
SubscriptionsTold ==
  \A t \in Topics :
    /\ Announced(wire[conn], t) => Contains(m_subscribedTopics, t)
    /\ ~inOnConnected /\ Contains(m_subscribedTopics, t) => Announced(wire[conn], t)

WireInv ==
  /\ Distinct(m_subscribedTopics)
  /\ \A n \in Connections : n > conn => wire[n] = <<>>
  /\ socket = "connected" => m_connected /\ control \in {"idle", "crashed"}
  /\ socket = "connected" => SubscriptionsTold

\* A step that sends nothing and leaves the list alone, on a connection that stays
\* up or goes down.
LEMMA UntouchedStep ==
  ASSUME TypeInv, WireInv, UNCHANGED <<wire, conn, m_subscribedTopics, inOnConnected>>,
         socket' = "connected" => /\ socket = "connected" /\ UNCHANGED m_connected
                                  /\ control' \in {control, "crashed"}
  PROVE  WireInv'
<1>1. socket' = "connected" => SubscriptionsTold'
  BY DEF WireInv, SubscriptionsTold
<1> QED
  BY <1>1 DEF WireInv

\* A step that sends frames: of each topic, nothing when the list holds it as before, or
\* one frame that says whether the list holds it now.
LEMMA SendingKeepsTold ==
  ASSUME TypeInv, WireInv, NEW frames \in Seq(Frames(Payloads, ErrorTexts)), Transmit(frames),
         UNCHANGED <<socket, conn, control, m_connected>>,
         Distinct(m_subscribedTopics'),
         \A t \in Topics :
           \/ /\ TopicFrames(frames, t) = {}
              /\ Contains(m_subscribedTopics', t) <=> Contains(m_subscribedTopics, t)
              /\ UNCHANGED inOnConnected \/ ~Contains(m_subscribedTopics, t)
           \/ \E k : /\ TopicFrames(frames, t) = {k}
                     /\ Contains(m_subscribedTopics', t) <=> frames[k].method = "subscribe"
  PROVE  WireInv'
<1>1. wire \in [Connections -> Seq(Frames(Payloads, ErrorTexts))]
  BY DEF TypeInv, TypeOK
<1>2. CASE socket # "connected"
  BY <1>2 DEF WireInv, Transmit
<1>3. CASE socket = "connected"
  <2>1. conn \in Connections /\ conn \in Nat
    BY <1>3 DEF TypeInv, TypeOK, StackSound, Connections
  <2>2. /\ wire'[conn] = wire[conn] \o frames
        /\ \A n \in Connections : n > conn => wire'[n] = wire[n]
    BY <1>1, <1>3, <2>1 DEF Transmit
  <2>3. SubscriptionsTold
    BY <1>3 DEF WireInv
  <2>4. ASSUME NEW t \in Topics
        PROVE  /\ Announced(wire'[conn], t) => Contains(m_subscribedTopics', t)
               /\ ~inOnConnected' /\ Contains(m_subscribedTopics', t) => Announced(wire'[conn], t)
    <3>1. wire[conn] \in Seq(Frames(Payloads, ErrorTexts))
      BY <1>1, <2>1
    <3>2. CASE TopicFrames(frames, t) = {}
      <4>1. Announced(wire'[conn], t) <=> Announced(wire[conn], t)
        BY <2>2, <3>1, <3>2, AnnouncedConcat
      <4>2. /\ Contains(m_subscribedTopics', t) <=> Contains(m_subscribedTopics, t)
            /\ UNCHANGED inOnConnected \/ ~Contains(m_subscribedTopics, t)
        BY <3>2
      <4> QED
        BY <2>3, <4>1, <4>2 DEF SubscriptionsTold
    <3>3. CASE TopicFrames(frames, t) # {}
      <4>1. PICK k : /\ TopicFrames(frames, t) = {k}
                     /\ Contains(m_subscribedTopics', t) <=> frames[k].method = "subscribe"
        BY <3>3
      <4>2. Announced(wire'[conn], t) <=> frames[k].method = "subscribe"
        BY <2>2, <3>1, <4>1, AnnouncedConcat
      <4> QED
        BY <4>1, <4>2
    <3> QED
      BY <3>2, <3>3
  <2>5. SubscriptionsTold'
    BY <2>4 DEF SubscriptionsTold
  <2> QED
    BY <2>2, <2>5 DEF WireInv
<1> QED
  BY <1>2, <1>3

\* Requests that are about no topic.
LEMMA OtherRequestsSent ==
  ASSUME TypeInv, WireInv, NEW method \in Methods, NEW params \in Payloads,
         params.member # "topic",
         NEW callback, SendRequests(<<[method |-> method, params |-> params]>>, callback),
         UNCHANGED <<m_subscribedTopics, socket, conn, control, inOnConnected>>
  PROVE  WireInv'
<1> DEFINE frame == buildRequest(NumberId(m_nextRequestId + 1 - 1), method, params)
<1>1. Transmit(<<frame>>) /\ UNCHANGED m_connected
  <2>1. Len(<<[method |-> method, params |-> params]>>) = 1
    OBVIOUS
  <2>2. Transmit([i \in 1..1 |-> buildRequest(NumberId(m_nextRequestId + i - 1),
                    <<[method |-> method, params |-> params]>>[i].method,
                    <<[method |-> method, params |-> params]>>[i].params)])
    BY <2>1 DEF SendRequests
  <2>3. [i \in 1..1 |-> buildRequest(NumberId(m_nextRequestId + i - 1),
           <<[method |-> method, params |-> params]>>[i].method,
           <<[method |-> method, params |-> params]>>[i].params)] = <<frame>>
    OBVIOUS
  <2> QED
    BY <2>2, <2>3 DEF SendRequests
<1>2. frame \in Frames(Payloads, ErrorTexts)
  <2>1. m_nextRequestId + 1 - 1 \in Nat
    BY DEF TypeInv, TypeOK
  <2> QED
    BY <2>1, VocabularyAssumption, RequestTyped
<1>3. \A t \in Topics : ~TopicFrame(frame, t)
  BY VocabularyAssumption, TopicNamesDiffer, FrameFields DEF TopicFrame, TopicMember
<1> HIDE DEF frame
<1>4. <<frame>> \in Seq(Frames(Payloads, ErrorTexts)) /\ Len(<<frame>>) = 1 /\ <<frame>>[1] = frame
  BY <1>2
<1>5. \A t \in Topics : TopicFrames(<<frame>>, t) = {}
  BY <1>3, <1>4 DEF TopicFrames, TopicFrame
<1> QED
  BY <1>1, <1>4, <1>5, SendingKeepsTold DEF WireInv

\* The request that follows a change of the list.
LEMMA TopicRequestSent ==
  ASSUME TypeInv, WireInv, NEW t \in Topics, NEW method \in {"Subscribe", "Unsubscribe"},
         SendTopicRequest(method, t),
         Distinct(m_subscribedTopics'),
         Contains(m_subscribedTopics', t) <=> method = "Subscribe",
         \A u \in Topics \ {t} : Contains(m_subscribedTopics', u) <=> Contains(m_subscribedTopics, u),
         UNCHANGED <<socket, conn, control, inOnConnected>>
  PROVE  WireInv'
<1>1. CASE ~m_connected
  <2>1. socket # "connected"
    BY <1>1 DEF WireInv
  <2> QED
    BY <1>1, <2>1 DEF SendTopicRequest, serviceVars, WireInv
<1>2. CASE m_connected
  <2> DEFINE frame == buildRequest(NumberId(m_nextRequestId + 1 - 1), method,
                                   TextObject("topic", topicToString(t)))
  <2>1. Transmit(<<frame>>) /\ UNCHANGED m_connected
    <3>1. Len(<<TopicRequest(method, t)>>) = 1
      OBVIOUS
    <3>2. Transmit([i \in 1..1 |-> buildRequest(NumberId(m_nextRequestId + i - 1),
                      <<TopicRequest(method, t)>>[i].method, <<TopicRequest(method, t)>>[i].params)])
      BY <1>2, <3>1 DEF SendTopicRequest, SendRequests
    <3>3. [i \in 1..1 |-> buildRequest(NumberId(m_nextRequestId + i - 1),
             <<TopicRequest(method, t)>>[i].method, <<TopicRequest(method, t)>>[i].params)] = <<frame>>
      BY DEF TopicRequest
    <3> QED
      BY <1>2, <3>2, <3>3 DEF SendTopicRequest, SendRequests
  <2>2. frame \in Frames(Payloads, ErrorTexts)
    <3>1. m_nextRequestId + 1 - 1 \in Nat
      BY DEF TypeInv, TypeOK
    <3> QED
      BY <3>1, ObjectsTyped, SubscriptionMethods, RequestTyped
  <2>3. /\ frame.method = IF method = "Subscribe" THEN "subscribe" ELSE "unsubscribe"
        /\ TopicMember(frame.params) = topicToString(t)
    BY FrameFields, MethodNamesDiffer DEF TopicMember, TextObject
  <2>4. \A u \in Topics : TopicFrame(frame, u) <=> u = t
    BY <2>3, VocabularyAssumption, TopicNamesDiffer DEF TopicFrame
  <2> HIDE DEF frame
  <2>5. <<frame>> \in Seq(Frames(Payloads, ErrorTexts)) /\ Len(<<frame>>) = 1 /\ <<frame>>[1] = frame
    BY <2>2
  <2>6. \A u \in Topics : TopicFrames(<<frame>>, u) = IF u = t THEN {1} ELSE {}
    BY <2>4, <2>5 DEF TopicFrames, TopicFrame
  <2>7. Contains(m_subscribedTopics', t) <=> <<frame>>[1].method = "subscribe"
    BY <2>3, <2>5
  <2> QED
    BY <2>1, <2>5, <2>6, <2>7, SendingKeepsTold
<1> QED
  BY <1>1, <1>2

\* What the application does to its topics, the peer is told.
LEMMA AppKeepsTold ==
  ASSUME TypeInv, WireInv, AppStep
  PROVE  WireInv'
<1> USE DEF serviceVars, stackVars, callVars
<1>a. m_subscribedTopics \in Seq(Topics) /\ Distinct(m_subscribedTopics)
  BY DEF TypeInv, TypeOK, WireInv
<1>1. ASSUME NEW url \in ServerUrls, setServerUrl(url)
      PROVE  WireInv'
  BY <1>1, UntouchedStep DEF setServerUrl
<1>2. CASE connectToSocket
  BY <1>2, UntouchedStep DEF connectToSocket
<1>3. CASE disconnectFromSocket
  BY <1>3, UntouchedStep DEF disconnectFromSocket, BeginDrain
<1>4. ASSUME NEW method \in Methods, request(method)
      PROVE  WireInv'
  <2>1. CASE ~m_connected
    BY <1>4, <2>1, UntouchedStep DEF request
  <2>2. CASE m_connected
    <3>1. AppObject(calls + 1) \in Payloads /\ AppObject(calls + 1).member = "app"
      <4>1. calls + 1 \in 0..MaxCalls
        BY <1>4, BoundsAssumption DEF request, Calls
      <4> QED
        BY <4>1, ObjectsTyped DEF AppObject
    <3> QED
      BY <1>4, <2>2, <3>1, OtherRequestsSent DEF request
  <2> QED
    BY <2>1, <2>2
<1>5. ASSUME NEW method \in Methods, requestNoCallback(method)
      PROVE  WireInv'
  <2>1. EmptyObject.member = "none"
    BY DEF EmptyObject
  <2> QED
    BY <1>5, <2>1, ObjectsTyped, OtherRequestsSent DEF requestNoCallback
<1>6. ASSUME NEW t \in Topics, subscribe(t)
      PROVE  WireInv'
  BY <1>a, <1>6, WithTopicHolds, TopicRequestSent DEF subscribe
<1>7. ASSUME NEW t \in Topics, unsubscribe(t)
      PROVE  WireInv'
  BY <1>a, <1>7, WithoutTopicHolds, TopicRequestSent DEF unsubscribe
<1>8. ASSUME NEW t \in Topics, publish(t)
      PROVE  WireInv'
  <2> DEFINE frame == buildPublish(t, EmptyObject)
  <2>1. frame \in Frames(Payloads, ErrorTexts) /\ frame.method = NoText
    BY VocabularyAssumption, PublishTyped, FrameFields
  <2>2. NoText \notin {"subscribe", "unsubscribe"}
    BY Zenon DEF NoText
  <2>3. Transmit(<<frame>>) /\ UNCHANGED <<m_subscribedTopics, socket, conn, control, m_connected,
                                             inOnConnected>>
    BY <1>8 DEF publish
  <2> HIDE DEF frame
  <2>4. <<frame>> \in Seq(Frames(Payloads, ErrorTexts)) /\ Len(<<frame>>) = 1 /\ <<frame>>[1] = frame
    BY <2>1
  <2>5. \A u \in Topics : TopicFrames(<<frame>>, u) = {}
    BY <2>1, <2>2, <2>4 DEF TopicFrames
  <2> QED
    BY <1>a, <2>3, <2>4, <2>5, SendingKeepsTold
<1> QED
  BY <1>1, <1>2, <1>3, <1>4, <1>5, <1>6, <1>7, <1>8 DEF AppStep

\* The list is announced, topic by topic, on a connection whose handlers announced
\* no topic that the list no longer holds.
LEMMA ResubscriptionTells ==
  ASSUME TypeInv, WireInv, resubscribeAll
  PROVE  WireInv'
<1> DEFINE list == m_subscribedTopics
           n == Len(list)
           requests == [i \in 1..n |-> TopicRequest("Subscribe", list[i])]
<1>a. UNCHANGED <<m_subscribedTopics, socket, conn, control>> /\ control = "idle" /\ ~inOnConnected'
  BY DEF resubscribeAll
<1>1. CASE ~m_connected
  <2>1. socket # "connected"
    BY <1>1 DEF WireInv
  <2> QED
    BY <1>1, <1>a, <2>1 DEF resubscribeAll, serviceVars, WireInv
<1>2. CASE m_connected
  <2> DEFINE frames == [i \in 1..Len(requests) |->
               buildRequest(NumberId(m_nextRequestId + i - 1), requests[i].method, requests[i].params)]
  <2>1. Transmit(frames) /\ UNCHANGED m_connected
    BY <1>2 DEF resubscribeAll, SendRequests
  <2>2. n \in Nat /\ \A i \in 1..n : list[i] \in Topics
    BY DEF TypeInv, TypeOK
  <2>3. Len(requests) = n
    <3>1. DOMAIN requests = 1..n
      OBVIOUS
    <3> HIDE DEF requests, n
    <3> QED
      BY ONLY <2>2, <3>1
  <2>4. \A i \in 1..n : /\ requests[i].method = "Subscribe"
                        /\ requests[i].params = TextObject("topic", topicToString(list[i]))
    BY DEF TopicRequest
  <2> HIDE DEF requests
  <2>5. ASSUME NEW i \in 1..n
        PROVE  /\ frames[i] \in Frames(Payloads, ErrorTexts)
               /\ frames[i].method = "subscribe"
               /\ \A t \in Topics : TopicFrame(frames[i], t) <=> t = list[i]
    <3>1. m_nextRequestId + i - 1 \in Nat
      BY <2>2 DEF TypeInv, TypeOK
    <3>2. frames[i] = buildRequest(NumberId(m_nextRequestId + i - 1), "Subscribe",
                                   TextObject("topic", topicToString(list[i])))
      BY <2>3, <2>4
    <3>3. list[i] \in Topics
      BY <2>2
    <3> HIDE DEF frames
    <3>4. frames[i].method = "subscribe" /\ TopicMember(frames[i].params) = topicToString(list[i])
      BY <3>2, FrameFields, MethodNamesDiffer DEF TopicMember, TextObject
    <3>5. frames[i] \in Frames(Payloads, ErrorTexts)
      BY <3>1, <3>2, <3>3, ObjectsTyped, SubscriptionMethods, RequestTyped
    <3> QED
      BY <3>3, <3>4, <3>5, VocabularyAssumption, TopicNamesDiffer DEF TopicFrame
  <2>6. DOMAIN frames = 1..n
    BY <2>3
  <2>7. frames \in Seq(Frames(Payloads, ErrorTexts)) /\ Len(frames) = n
    <3> HIDE DEF frames
    <3>1. frames = [i \in 1..n |-> frames[i]]
      BY <2>3, <2>6 DEF frames
    <3>2. Len(frames) = n
      <4> HIDE DEF n
      <4> QED
        BY ONLY <2>2, <2>6
    <3> QED
      BY <2>2, <2>5, <3>1, <3>2
  <2> HIDE DEF frames
  <2>8. \A i, j \in 1..n : list[i] = list[j] => i = j
    BY DEF WireInv, Distinct
  <2>9. ASSUME NEW t \in Topics
        PROVE  \/ TopicFrames(frames, t) = {} /\ ~Contains(list, t)
               \/ \E k : /\ TopicFrames(frames, t) = {k}
                         /\ Contains(list, t) /\ frames[k].method = "subscribe"
    <3>1. \A i : i \in TopicFrames(frames, t) <=> i \in 1..n /\ list[i] = t
      BY <2>5, <2>7 DEF TopicFrames, TopicFrame
    <3>2. CASE ~Contains(list, t)
      BY <3>1, <3>2 DEF Contains
    <3>3. CASE Contains(list, t)
      <4>1. PICK k \in 1..n : list[k] = t
        BY <3>3 DEF Contains
      <4>2. TopicFrames(frames, t) = {k}
        BY <2>8, <3>1, <4>1
      <4> QED
        BY <2>5, <3>3, <4>1, <4>2
    <3> QED
      BY <3>2, <3>3
  <2>10. Distinct(m_subscribedTopics')
    BY <1>a DEF WireInv
  <2> QED
    BY <1>a, <2>1, <2>7, <2>9, <2>10, SendingKeepsTold
<1> QED
  BY <1>1, <1>2

\* A step keeps the subscriptions told those that are held.
LEMMA WireStep == TypeInv /\ WireInv /\ [Next]_vars => WireInv'
<1> USE DEF serviceVars, callVars
<1> SUFFICES ASSUME TypeInv, WireInv, [Next]_vars
             PROVE  WireInv'
  OBVIOUS
<1>1. CASE AppStep
  BY <1>1, AppKeepsTold
<1>2. CASE resubscribeAll
  BY <1>2, ResubscriptionTells
<1>3. CASE failNext \/ finishDisconnect
  <2>1. socket # "connected"
    BY <1>3 DEF failNext, finishDisconnect, WireInv
  <2> QED
    BY <1>3, <2>1, UntouchedStep DEF failNext, finishDisconnect
<1>4. CASE onDisconnected
  BY <1>4, UntouchedStep DEF onDisconnected, BeginDrain
<1>5. CASE onConnected
  <2>1. conn' = conn + 1 /\ conn \in Nat /\ conn' \in Connections
    BY <1>5, BoundsAssumption DEF onConnected, TypeInv, TypeOK, StackSound, Connections
  <2>2. wire' = wire /\ wire[conn'] = <<>>
    BY <1>5, <2>1 DEF onConnected, WireInv
  <2>3. \A t : ~Announced(wire[conn'], t)
    BY <2>2 DEF Announced, TopicFrames
  <2>4. SubscriptionsTold'
    BY <1>5, <2>2, <2>3 DEF onConnected, SubscriptionsTold
  <2>5. \A n \in Connections : n > conn' => wire'[n] = <<>>
    BY <2>1, <2>2 DEF WireInv, Connections
  <2> QED
    BY <1>5, <2>4, <2>5 DEF onConnected, EventLoop, WireInv
<1>6. ASSUME NEW message, dispatchMessage(message)
      PROVE  WireInv'
  <2>1. control' \in {control, "crashed"}
    BY <1>6 DEF dispatchMessage, TakeResponse, Ignore
  <2> QED
    BY <1>6, <2>1, UntouchedStep DEF dispatchMessage
<1>7. CASE UNCHANGED vars
  BY <1>7, UntouchedStep DEF vars
<1> QED
  BY <1>1, <1>2, <1>3, <1>4, <1>5, <1>6, <1>7 DEF Next, LoopStep, SocketStep

\* And so they are in every state.
LEMMA WireInvInductive ==
  /\ Init => TypeInv /\ WireInv
  /\ TypeInv /\ WireInv /\ [Next]_vars => (TypeInv /\ WireInv)'
<1>1. ASSUME Init PROVE WireInv
  BY <1>1, EmptySeq DEF Init, WireInv, Distinct
<1> QED
  BY <1>1, InitTypeInv, TypeInvStep, WireStep

\* Whenever no code of the service runs and the socket is up, the peer has been told
\* exactly the subscriptions the application holds, on this connection: for any
\* topics, and any order of subscribe, unsubscribe, handlers and reconnects.
THEOREM WireAgreesHolds == Spec => []WireAgrees
<1>1. TypeInv /\ WireInv => WireAgrees
  BY DEF WireInv, SubscriptionsTold, WireAgrees, EventLoop
<1> QED
  BY <1>1, WireInvInductive, PTL DEF Spec

----------------------------------------------------------------------------
(* What the frames on the wire are, and that a call has one frame at most. *)

CallFrame(frame) ==
  \E k \in 1..(m_nextRequestId - 1), m \in Methods :
    \/ frame = buildRequest(NumberId(k), m, EmptyObject)
    \/ \E c \in 1..calls : frame = buildRequest(NumberId(k), m, AppObject(c))

SubscriptionFrame(frame) ==
  \E k \in 1..(m_nextRequestId - 1), m \in {"Subscribe", "Unsubscribe"}, t \in Topics :
    frame = buildRequest(NumberId(k), m, TextObject("topic", topicToString(t)))

WireFrame(frame) ==
  CallFrame(frame) \/ SubscriptionFrame(frame) \/ \E t \in Topics : frame = buildPublish(t, EmptyObject)

FramesSound == \A n \in Connections : \A i \in 1..Len(wire[n]) : WireFrame(wire[n][i])

OneFramePerCall ==
  \A n, m \in Connections : \A i \in 1..Len(wire[n]), j \in 1..Len(wire[m]) : \A c \in Calls :
    wire[n][i].params = AppObject(c) /\ wire[m][j].params = AppObject(c) => wire[n][i] = wire[m][j]

CallsInv == FramesSound /\ OneFramePerCall

\* The parameters of calls differ from each other and from those of the service's own requests.
LEMMA ObjectsDiffer ==
  /\ \A c : EmptyObject # AppObject(c)
  /\ \A c, text : TextObject("topic", text) # AppObject(c)
  /\ \A c, d : AppObject(c) = AppObject(d) => c = d
<1>1. EmptyObject.member = "none" /\ \A text : TextObject("topic", text).member = "topic"
  BY DEF EmptyObject, TextObject
<1>2. \A c : AppObject(c).member = "app" /\ AppObject(c).value = c
  BY DEF AppObject
<1> QED
  BY <1>1, <1>2

\* Frames are of the kinds the service makes, one for each call, in every state.
LEMMA CallsInvInductive ==
  /\ Init => CallsInv
  /\ TypeInv /\ CallsInv /\ [Next]_vars => CallsInv'
<1>1. ASSUME Init PROVE CallsInv
  <2>1. \A n \in Connections : Len(wire[n]) = 0
    BY <1>1 DEF Init
  <2> QED
    BY <2>1 DEF CallsInv, FramesSound, OneFramePerCall
<1>2. ASSUME TypeInv, CallsInv, [Next]_vars PROVE CallsInv'
  <2>a. FramesEffect /\ TypeInv'
    BY <1>2, NextFrames, TypeInvStep
  <2>b. /\ m_nextRequestId \in Nat \ {0} /\ m_nextRequestId' \in Nat
        /\ m_nextRequestId <= m_nextRequestId'
        /\ calls \in Nat /\ calls' \in Nat /\ calls <= calls'
    BY <1>2, <2>a DEF TypeInv, TypeOK, FramesEffect, EntriesKept
  <2>c. /\ \A k \in 1..(m_nextRequestId - 1) : k \in 1..(m_nextRequestId' - 1)
        /\ \A k \in m_nextRequestId..(m_nextRequestId' - 1) : k \in 1..(m_nextRequestId' - 1)
        /\ \A c \in 1..calls : c \in 1..calls'
    <3>1. \A c \in 1..calls : c \in 1..calls'
      BY ONLY <2>b
    <3> QED
      BY <2>b, <3>1, WiderRange
  <2>1. ASSUME NEW frame, WireFrame(frame)
        PROVE  WireFrame(frame)'
    BY <2>1, <2>c DEF WireFrame, CallFrame, SubscriptionFrame
  <2>2. ASSUME NEW m \in Methods, NEW frame, AppFrame(m, frame)
        PROVE  WireFrame(frame)' /\ frame.params = AppObject(calls + 1)
    <3>1. /\ frame = buildRequest(NumberId(m_nextRequestId), m, AppObject(calls'))
          /\ m_nextRequestId < m_nextRequestId' /\ calls' = calls + 1
      BY <2>2 DEF AppFrame
    <3>2. m_nextRequestId \in 1..(m_nextRequestId' - 1) /\ calls' \in 1..calls'
      <4>1. /\ \A a \in Nat \ {0}, b \in Nat : a < b => a \in 1..(b - 1)
            /\ \A a \in Nat : a + 1 \in 1..(a + 1)
        OBVIOUS
      <4> QED
        BY ONLY <2>b, <3>1, <4>1
    <3> QED
      BY <3>1, <3>2, FrameFields DEF WireFrame, CallFrame
  <2>3. ASSUME NEW frame, OwnFrame(frame)
        PROVE  WireFrame(frame)' /\ \A c : frame.params # AppObject(c)
    <3>1. CASE OwnRequest(frame)
      <4>1. frame.params = EmptyObject \/ \E t \in Topics : frame.params = TextObject("topic", topicToString(t))
        BY <3>1, FrameFields DEF OwnRequest
      <4>2. WireFrame(frame)'
        BY <2>c, <3>1 DEF OwnRequest, WireFrame, CallFrame, SubscriptionFrame
      <4> QED
        BY <4>1, <4>2, ObjectsDiffer
    <3>2. CASE \E t \in Topics : frame = buildPublish(t, EmptyObject)
      BY <3>2, FrameFields, ObjectsDiffer DEF WireFrame
    <3> QED
      BY <2>3, <3>1, <3>2 DEF OwnFrame
  <2>4. FramesSound'
    <3> SUFFICES ASSUME NEW n \in Connections, NEW i \in 1..Len(wire'[n])
                 PROVE  WireFrame(wire[n][i])'
      BY DEF FramesSound
    <3>1. CASE i \in 1..Len(wire[n]) /\ wire'[n][i] = wire[n][i]
      <4>1. WireFrame(wire[n][i])
        BY <1>2, <3>1 DEF CallsInv, FramesSound
      <4> QED
        BY <2>c, <3>1, <4>1 DEF WireFrame, CallFrame, SubscriptionFrame
    <3>2. CASE \E m \in Methods : AppFrame(m, wire'[n][i])
      BY <2>2, <3>2 DEF WireFrame, CallFrame, SubscriptionFrame
    <3>3. CASE OwnFrame(wire'[n][i])
      BY <2>3, <3>3 DEF WireFrame, CallFrame, SubscriptionFrame
    <3> QED
      BY <1>2, <2>a, <3>1, <3>2, <3>3, FrameCases
  <2>5. ASSUME NEW frame, WireFrame(frame)
        PROVE  frame.params # AppObject(calls + 1)
    <3>1. CASE CallFrame(frame)
      <4>1. frame.params = EmptyObject \/ \E c \in 1..calls : frame.params = AppObject(c)
        BY <3>1, FrameFields DEF CallFrame
      <4>2. \A c \in 1..calls : c # calls + 1
        BY ONLY <2>b
      <4> QED
        BY <4>1, <4>2, ObjectsDiffer
    <3>2. CASE ~CallFrame(frame)
      BY <2>5, <3>2, FrameFields, ObjectsDiffer DEF WireFrame, SubscriptionFrame
    <3> QED
      BY <3>1, <3>2
  <2>6. OneFramePerCall'
    <3> SUFFICES ASSUME NEW n \in Connections, NEW m \in Connections,
                        NEW i \in 1..Len(wire'[n]), NEW j \in 1..Len(wire'[m]), NEW c \in Calls,
                        wire'[n][i].params = AppObject(c), wire'[m][j].params = AppObject(c)
                 PROVE  wire'[n][i] = wire'[m][j]
      BY DEF OneFramePerCall
    <3> DEFINE Old(x, y) == y \in 1..Len(wire[x]) /\ wire'[x][y] = wire[x][y]
    <3>0. Len(wire[n]) \in Nat /\ Len(wire[m]) \in Nat
      BY <1>2, LenProperties DEF TypeInv, TypeOK
    <3>1. /\ Old(n, i) \/ NewFrame(n, i)
          /\ Old(m, j) \/ NewFrame(m, j)
      BY <2>a, <3>0 DEF NewFrame, FramesEffect, FramesKept
    <3>2. CASE Old(n, i) /\ Old(m, j)
      BY <1>2, <3>2 DEF CallsInv, OneFramePerCall
    <3>3. CASE \E q \in Methods : \A x \in Connections : \A y : NewFrame(x, y) => AppFrame(q, wire'[x][y])
      <4>1. PICK q \in Methods : \A x \in Connections : \A y : NewFrame(x, y) => AppFrame(q, wire'[x][y])
        BY <3>3
      <4>2. NewFrame(n, i) => /\ c = calls + 1
                              /\ wire'[n][i] = buildRequest(NumberId(m_nextRequestId), q, AppObject(c))
        BY <2>2, <4>1, ObjectsDiffer DEF AppFrame
      <4>3. NewFrame(m, j) => /\ c = calls + 1
                              /\ wire'[m][j] = buildRequest(NumberId(m_nextRequestId), q, AppObject(c))
        BY <2>2, <4>1, ObjectsDiffer DEF AppFrame
      <4>4. (Old(n, i) \/ Old(m, j)) => c # calls + 1
        BY <1>2, <2>5 DEF CallsInv, FramesSound
      <4> QED
        BY <3>1, <3>2, <4>2, <4>3, <4>4
    <3>4. CASE \A x \in Connections : \A y : NewFrame(x, y) => OwnFrame(wire'[x][y])
      BY <2>3, <3>1, <3>2, <3>4
    <3> QED
      BY <2>a, <3>3, <3>4 DEF FramesEffect
  <2> QED
    BY <2>4, <2>6 DEF CallsInv
<1> QED
  BY <1>1, <1>2

----------------------------------------------------------------------------
(* A call that left is not forgotten.                                      *)

\* The entry of a call, ahead of the iterator of onDisconnected.
Waiting(c) ==
  \E id \in DOMAIN m_pendingRequests : m_pendingRequests[id] = AppCallback(c) /\ ~Passed(id)

\* Stronger than SentAreKept: clear() only meets entries that have been passed.
SentWait == \A c \in Calls : WasSent(c) => Completed(c) \/ Waiting(c)

SentInv == OnceInv /\ WireInv /\ SentWait

\* What is sent on a socket that is not connected is dropped.
LEMMA NothingLeaves ==
  ASSUME [Next]_vars, socket # "connected"
  PROVE  wire' = wire
<1> USE DEF serviceVars
<1>1. ASSUME NEW requests, NEW callback, SendRequests(requests, callback)
      PROVE  wire' = wire
  BY <1>1 DEF SendRequests, Transmit
<1>2. CASE AppStep
  <2>1. ASSUME NEW method, request(method) \/ requestNoCallback(method)
        PROVE  wire' = wire
    BY <1>1, <2>1 DEF request, requestNoCallback
  <2>2. ASSUME NEW t, subscribe(t) \/ unsubscribe(t) \/ publish(t)
        PROVE  wire' = wire
    BY <1>1, <2>2 DEF subscribe, unsubscribe, publish, SendTopicRequest, Transmit
  <2> QED
    BY <1>2, <2>1, <2>2 DEF AppStep, setServerUrl, connectToSocket, disconnectFromSocket, BeginDrain
<1>3. CASE LoopStep \/ SocketStep
  BY <1>1, <1>3 DEF LoopStep, SocketStep, resubscribeAll, failNext, finishDisconnect, onConnected,
                    onDisconnected, BeginDrain
<1>4. ASSUME NEW message, dispatchMessage(message)
      PROVE  wire' = wire
  BY <1>4 DEF dispatchMessage
<1>5. CASE UNCHANGED vars
  BY <1>5 DEF vars
<1> QED
  BY <1>2, <1>3, <1>4, <1>5 DEF Next

\* A call that gets an answer has one.
LEMMA AnswerCompletes ==
  ASSUME OnceInv, [Next]_vars, NEW c \in Calls, NEW outcome \in Outcomes, Answer(c, outcome)
  PROVE  Completed(c)'
<1>1. TypeInv /\ AnsweredOnce
  BY DEF OnceInv
<1>2. CASE Completed(c)
  BY <1>1, <1>2, AnswersStay
<1>3. CASE ~Completed(c)
  <2>1. completions'[c] = <<outcome>>
    BY <1>1, <1>3, FirstAnswer
  <2> QED
    BY <2>1 DEF Completed
<1> QED
  BY <1>2, <1>3

\* An entry ahead of the iterator stays there until its callback runs.
LEMMA WaitingStep ==
  ASSUME OnceInv, [Next]_vars, NEW c \in Calls, Waiting(c)
  PROVE  Completed(c)' \/ Waiting(c)'
<1>1. PICK e \in DOMAIN m_pendingRequests : m_pendingRequests[e] = AppCallback(c) /\ ~Passed(e)
  BY DEF Waiting
<1>2. m_pendingRequests[e].kind = "app" /\ m_pendingRequests[e].call = c
  BY <1>1 DEF AppCallback
<1>3. TypeInv /\ StepEffect
  BY NextEffect DEF OnceInv
<1>4. Disconnected \in Outcomes
  BY DEF Outcomes
<1>5. CASE TableUntouched
  BY <1>1, <1>5 DEF TableUntouched, tableVars, Waiting, Passed
<1>6. CASE DrainBegins
  BY <1>1, <1>6 DEF DrainBegins, Waiting, Passed
<1>7. CASE Refusal
  BY <1>1, <1>7 DEF Refusal, Waiting, Passed
<1>8. ASSUME NEW ids, NEW callback, EntriesAdded(ids, callback)
      PROVE  Waiting(c)'
  BY <1>1, <1>8 DEF EntriesAdded, Waiting, Passed
<1>9. ASSUME NEW id, EntryFailed(id)
      PROVE  Completed(c)' \/ Waiting(c)'
  <2>1. CASE id = e
    BY <1>2, <1>4, <1>9, <2>1, AnswerCompletes DEF EntryFailed
  <2>2. CASE id # e
    BY <1>1, <1>9, <2>2 DEF EntryFailed, Waiting, Passed
  <2> QED
    BY <2>1, <2>2
<1>10. CASE DrainEnds
  BY <1>1, <1>10 DEF DrainEnds, Passed
<1>11. ASSUME NEW id, NEW outcome, EntryTaken(id, outcome)
       PROVE  Completed(c)' \/ Waiting(c)'
  <2>1. CASE id = e
    BY <1>2, <1>11, <2>1, AnswerCompletes DEF EntryTaken
  <2>2. CASE id # e
    BY <1>1, <1>11, <2>2 DEF EntryTaken, Waiting, Passed
  <2> QED
    BY <2>1, <2>2
<1> QED
  BY <1>3, <1>5, <1>6, <1>7, <1>8, <1>9, <1>10, <1>11 DEF StepEffect, Acceptance, OwnRequests

\* A call leaves only while the iterator is not at work, with its entry in the table.
LEMMA SentWaitStep ==
  ASSUME SentInv, [Next]_vars
  PROVE  SentWait'
<1>a. OnceInv /\ TypeInv /\ WireInv /\ SentWait
  BY DEF SentInv, OnceInv
<1>b. FramesEffect /\ StepEffect
  BY <1>a, NextFrames, NextEffect
<1>1. ASSUME NEW c \in Calls, WasSent(c)
      PROVE  Completed(c)' \/ Waiting(c)'
  BY <1>a, <1>1, AnswersStay, WaitingStep DEF SentWait
<1>2. ASSUME NEW c \in Calls, NEW m, NEW frame, AppFrame(m, frame), frame.params = AppObject(c),
             socket = "connected"
      PROVE  Completed(c)' \/ Waiting(c)'
  <2>1. c = calls + 1 /\ calls' = calls + 1
    BY <1>2, FrameFields, ObjectsDiffer DEF AppFrame
  <2>2. calls + 1 # calls
    BY <1>a DEF TypeInv, TypeOK
  <2>3. control \notin {"draining", "callback"}
    BY <1>a, <1>2 DEF WireInv
  <2>4. CASE Refusal
    <3>1. Disconnected \in Outcomes
      BY DEF Outcomes
    <3> QED
      BY <1>a, <2>1, <2>4, <3>1, AnswerCompletes DEF Refusal
  <2>5. ASSUME NEW id, Acceptance(id)
        PROVE  Waiting(c)'
    BY <2>1, <2>3, <2>5 DEF Acceptance, EntriesAdded, Waiting, Passed
  <2> QED
    BY <1>b, <2>1, <2>2, <2>4, <2>5
       DEF StepEffect, TableUntouched, tableVars, DrainBegins, OwnRequests, EntryFailed, DrainEnds, EntryTaken
<1>3. ASSUME NEW frame, OwnFrame(frame), NEW c
      PROVE  frame.params # AppObject(c)
  BY <1>3, FrameFields, ObjectsDiffer DEF OwnFrame, OwnRequest
<1>4. ASSUME NEW c \in Calls, WasSent(c)'
      PROVE  Completed(c)' \/ Waiting(c)'
  <2>1. PICK n \in Connections : \E i \in 1..Len(wire'[n]) : wire'[n][i].params = AppObject(c)
    BY <1>4 DEF WasSent
  <2>2. PICK i \in 1..Len(wire'[n]) : wire'[n][i].params = AppObject(c)
    BY <2>1
  <2>3. CASE socket # "connected"
    BY <1>1, <2>2, <2>3, NothingLeaves DEF WasSent
  <2>4. CASE i \in 1..Len(wire[n]) /\ wire'[n][i] = wire[n][i]
    BY <1>1, <2>2, <2>4 DEF WasSent
  <2> QED
    BY <1>a, <1>b, <1>2, <1>3, <2>2, <2>3, <2>4, FrameCases
<1> QED
  BY <1>4 DEF SentWait

\* A call whose request was put on a connection is answered or still waits in the
\* table, whatever the application does in its callbacks: onDisconnected forgets no
\* call but those made while it walks the table, and these never left the process.
THEOREM SentAreKeptHolds == Spec => []SentAreKept
<1>1. Init => SentInv
  <2> SUFFICES ASSUME Init PROVE SentInv
    OBVIOUS
  <2>1. \A n \in Connections : Len(wire[n]) = 0
    BY DEF Init
  <2>2. SentWait
    BY <2>1 DEF SentWait, WasSent
  <2> QED
    BY <2>2, OnceInvInductive, WireInvInductive DEF SentInv
<1>2. SentInv /\ [Next]_vars => SentInv'
  BY OnceInvInductive, WireInvInductive, SentWaitStep DEF SentInv, OnceInv
<1>3. SentInv => SentAreKept
  BY DEF SentInv, SentWait, Waiting, SentAreKept, Held
<1> QED
  BY <1>1, <1>2, <1>3, PTL DEF Spec
=============================================================================
