----------------------- MODULE WebSocketClientProofs -----------------------
(***************************************************************************)
(* Theorems about WebSocketClient, for every value of its constants.       *)
(*                                                                         *)
(* The invariant is built in layers, each inductive relative to the ones   *)
(* before it: the types with StackSound (TypeInv), the empty table of a    *)
(* service that is down, then the pending entries (EntriesAnswerable,      *)
(* AnsweredOnce), and last, for an application that makes no request while *)
(* it is told of a failure, the entries onDisconnected has passed          *)
(* (PassedAreAnswered, NoCallbackLost).                                    *)
(***************************************************************************)
EXTENDS WebSocketClient, SequenceTheorems, TLAPS

TypeInv == TypeOK /\ StackSound

----------------------------------------------------------------------------
(* The wire vocabulary. *)

LEMMA WireTypes ==
  /\ DOMAIN MessageTypeNames = {"Request", "Response", "Publish"}
  /\ messageTypeToString("Request") = "request"
  /\ messageTypeToString("Response") = "response"
  /\ messageTypeToString("Publish") = "publish"
BY DEF messageTypeToString, ToWire, MessageTypeNames

LEMMA ObjectsTyped ==
  /\ EmptyObject \in Payloads
  /\ \A c \in 0..MaxCalls : AppObject(c) \in Payloads
  /\ \A t \in Topics : TextObject("topic", topicToString(t)) \in Payloads
BY BoundsAssumption DEF EmptyObject, AppObject, TextObject, Payloads, Objects

\* The result of a request is a payload, and that of a call has its number.
LEMMA ResultsTyped ==
  /\ \A params \in Payloads : ResultOf(params) \in Payloads
  /\ \A c : ResultOf(AppObject(c)) = AppObject(c)
<1>1. AppObject(0) \in Payloads
  BY ObjectsTyped, BoundsAssumption
<1>2. EmptyObject.member = "none" /\ \A c : AppObject(c).member = "app"
  BY DEF EmptyObject, AppObject
<1>3. \A c : AppObject(c) # EmptyObject
  BY <1>2
<1> QED
  BY <1>1, <1>3 DEF ResultOf

LEMMA RequestTyped ==
  ASSUME NEW n \in Nat, NEW m \in allMethods, NEW params \in Payloads
  PROVE  buildRequest(NumberId(n), m, params) \in Frames(Payloads, ErrorTexts)
<1>1. messageTypeToString("Request") \in {messageTypeToString(t) : t \in DOMAIN MessageTypeNames}
  BY WireTypes
<1>2. methodToString(m) \in {methodToString(x) : x \in allMethods} \cup {NoText}
  OBVIOUS
<1>3. NumberId(n) \in IdValues
  BY DEF NumberId, IdValues
<1> QED
  BY ONLY ObjectsTyped, <1>1, <1>2, <1>3, params \in Payloads DEF buildRequest, Frames

LEMMA PublishTyped ==
  ASSUME NEW t \in allTopics
  PROVE  buildPublish(t, EmptyObject) \in Frames(Payloads, ErrorTexts)
<1>1. messageTypeToString("Publish") \in {messageTypeToString(x) : x \in DOMAIN MessageTypeNames}
  BY WireTypes
<1>2. topicToString(t) \in {topicToString(x) : x \in allTopics} \cup {NoText}
  OBVIOUS
<1>3. NoId \in IdValues
  BY DEF NoId, IdValues
<1> QED
  BY ObjectsTyped, <1>1, <1>2, <1>3 DEF buildPublish, Frames

LEMMA SubscriptionMethods == {"Subscribe", "Unsubscribe"} \subseteq allMethods
BY DEF allMethods, MethodNames

----------------------------------------------------------------------------
(* The list of topics. *)

LEMMA WithTopicTyped ==
  ASSUME m_subscribedTopics \in Seq(Topics), NEW t \in Topics
  PROVE  WithTopic(t) \in Seq(Topics) /\ WithoutTopic(t) \in Seq(Topics)
<1> DEFINE n == Len(m_subscribedTopics)
           i == CHOOSE j \in 1..n : m_subscribedTopics[j] = t
<1>1. WithTopic(t) \in Seq(Topics)
  BY DEF WithTopic
<1>2. ASSUME Contains(m_subscribedTopics, t)
      PROVE  RemoveAt(m_subscribedTopics, i) \in Seq(Topics)
  <2>1. i \in 1..n
    BY <1>2 DEF Contains
  <2>2. \A j \in 1..n : m_subscribedTopics[j] \in Topics
    OBVIOUS
  <2> HIDE DEF i
  <2>3. SubSeq(m_subscribedTopics, 1, i - 1) \in Seq(Topics)
    <3>1. \A j \in 1..(i - 1) : m_subscribedTopics[j] \in Topics
      BY <2>1, <2>2
    <3> QED
      BY <2>1, <3>1, SubSeqProperties
  <2>4. SubSeq(m_subscribedTopics, i + 1, n) \in Seq(Topics)
    <3>1. \A j \in (i + 1)..n : m_subscribedTopics[j] \in Topics
      BY <2>1, <2>2
    <3> QED
      BY <2>1, <3>1, SubSeqProperties
  <2> QED
    BY <2>3, <2>4, ConcatProperties DEF RemoveAt
<1> QED
  BY <1>1, <1>2 DEF WithoutTopic

----------------------------------------------------------------------------
(* Sending. *)

Requests == [method : allMethods, params : Payloads]

LEMMA TransmitTyped ==
  ASSUME TypeInv, NEW frames \in Seq(Frames(Payloads, ErrorTexts)), Transmit(frames)
  PROVE  wire' \in [Connections -> Seq(Frames(Payloads, ErrorTexts))]
<1>1. CASE socket = "connected"
  <2>1. conn \in Connections
    BY <1>1 DEF TypeInv, TypeOK, StackSound, Connections
  <2>2. wire[conn] \o frames \in Seq(Frames(Payloads, ErrorTexts))
    BY <2>1, ConcatProperties DEF TypeInv, TypeOK
  <2> QED
    BY <1>1, <2>1, <2>2 DEF TypeInv, TypeOK, Transmit
<1>2. CASE socket # "connected"
  BY <1>2 DEF TypeInv, TypeOK, Transmit
<1> QED
  BY <1>1, <1>2

FreshIds(requests) == m_nextRequestId..(m_nextRequestId + Len(requests) - 1)

\* What request() and resubscribeAll leave behind.
LEMMA SendRequestsEffect ==
  ASSUME TypeInv, NEW requests \in Seq(Requests), NEW callback \in Callbacks,
         SendRequests(requests, callback)
  PROVE  /\ m_nextRequestId' = m_nextRequestId + Len(requests)
         /\ m_nextRequestId' \in Nat \ {0}
         /\ DOMAIN m_pendingRequests' = DOMAIN m_pendingRequests \cup FreshIds(requests)
         /\ DOMAIN m_pendingRequests' \subseteq 1..(m_nextRequestId' - 1)
         /\ DOMAIN m_pendingRequests \cap FreshIds(requests) = {}
         /\ \A id \in FreshIds(requests) : m_pendingRequests'[id] = callback
         /\ \A id \in DOMAIN m_pendingRequests : m_pendingRequests'[id] = m_pendingRequests[id]
         /\ wire' \in [Connections -> Seq(Frames(Payloads, ErrorTexts))]
         /\ UNCHANGED m_connected
<1> DEFINE n == Len(requests)
           ids == m_nextRequestId..(m_nextRequestId + n - 1)
           frames == [i \in 1..n |->
             buildRequest(NumberId(m_nextRequestId + i - 1), requests[i].method, requests[i].params)]
<1>1. n \in Nat /\ m_nextRequestId \in Nat \ {0}
  BY DEF TypeInv, TypeOK
<1>2. m_nextRequestId' = m_nextRequestId + n
  BY DEF SendRequests, IdAfter
<1>3. m_pendingRequests' = PutAll(m_pendingRequests, ids, callback)
  BY DEF SendRequests
<1>4. DOMAIN m_pendingRequests \subseteq 1..(m_nextRequestId - 1)
  BY DEF TypeInv, TypeOK
<1>5. frames \in Seq(Frames(Payloads, ErrorTexts))
  <2>1. ASSUME NEW i \in 1..n
        PROVE  frames[i] \in Frames(Payloads, ErrorTexts)
    <3>1. requests[i] \in Requests
      BY <1>1, ElementOfSeq
    <3>2. m_nextRequestId + i - 1 \in Nat
      BY <1>1
    <3> QED
      BY <3>1, <3>2, RequestTyped DEF Requests
  <2> HIDE DEF frames
  <2>2. frames \in [1..n -> Frames(Payloads, ErrorTexts)]
    BY <2>1 DEF frames
  <2> QED
    BY <1>1, <2>2
<1>6. wire' \in [Connections -> Seq(Frames(Payloads, ErrorTexts))]
  <2>1. Transmit(frames)
    BY DEF SendRequests
  <2> QED
    BY <1>5, <2>1, TransmitTyped
<1>7. DOMAIN m_pendingRequests \cap ids = {}
  BY <1>1, <1>4
<1> QED
  BY <1>1, <1>2, <1>3, <1>4, <1>6, <1>7 DEF PutAll, SendRequests, FreshIds

LEMMA AppRequestTyped ==
  ASSUME NEW method \in Methods, NEW params \in Payloads
  PROVE  <<[method |-> method, params |-> params]>> \in Seq(Requests)
<1> DEFINE r == [method |-> method, params |-> params]
<1>1. r \in Requests
  BY VocabularyAssumption DEF Requests
<1> HIDE DEF r
<1>2. <<r>> \in Seq(Requests)
  BY <1>1
<1> QED
  BY <1>2 DEF r

LEMMA TopicRequestTyped ==
  ASSUME NEW method \in {"Subscribe", "Unsubscribe"}, NEW t \in Topics
  PROVE  TopicRequest(method, t) \in Requests
BY ObjectsTyped, SubscriptionMethods, VocabularyAssumption DEF TopicRequest, Requests

LEMMA ResubscriptionsTyped ==
  ASSUME TypeInv
  PROVE  [i \in 1..Len(m_subscribedTopics) |->
            TopicRequest("Subscribe", m_subscribedTopics[i])] \in Seq(Requests)
<1>1. \A i \in 1..Len(m_subscribedTopics) :
        TopicRequest("Subscribe", m_subscribedTopics[i]) \in Requests
  BY TopicRequestTyped, ElementOfSeq DEF TypeInv, TypeOK
<1> QED
  BY <1>1 DEF TypeInv, TypeOK

LEMMA CallbacksTyped ==
  /\ LogCallback \in Callbacks
  /\ EmptyCallback \in Callbacks
  /\ \A c \in Calls : AppCallback(c) \in Callbacks
BY BoundsAssumption DEF LogCallback, EmptyCallback, AppCallback, Callbacks, Calls

LEMMA AnswerTyped ==
  ASSUME TypeInv, NEW c \in Calls, NEW outcome \in Outcomes, Answer(c, outcome)
  PROVE  completions' \in [Calls -> Seq(Outcomes)]
BY AppendProperties DEF TypeInv, TypeOK, Answer

----------------------------------------------------------------------------
(* Type correctness. *)

LEMMA InitTypeInv == Init => TypeInv
<1> SUFFICES ASSUME Init PROVE TypeInv
  OBVIOUS
<1>1. DOMAIN m_pendingRequests = {}
  BY DEF Init, NoEntries
<1>2. m_subscribedTopics \in Seq(Topics)
  BY EmptySeq DEF Init
<1>3. wire \in [Connections -> Seq(Frames(Payloads, ErrorTexts))]
  BY EmptySeq DEF Init
<1>4. completions \in [Calls -> Seq(Outcomes)]
  BY EmptySeq DEF Init
<1>5. /\ m_serverUrl \in ServerUrls
      /\ m_connected = FALSE /\ inOnConnected = FALSE
      /\ m_nextRequestId = 1 /\ conn = 0 /\ calls = 0
      /\ socket = "unconnected" /\ control = "idle" /\ visit = {}
  BY DEF Init
<1>6. /\ DOMAIN m_pendingRequests \subseteq 1..(m_nextRequestId - 1)
      /\ \A id \in DOMAIN m_pendingRequests : m_pendingRequests[id] \in Callbacks
      /\ visit \subseteq DOMAIN m_pendingRequests
  BY <1>1, <1>5
<1>7. conn \in 0..MaxConnections /\ calls \in 0..MaxCalls /\ m_nextRequestId \in Nat \ {0}
  BY BoundsAssumption, <1>5
<1> QED
  BY <1>2, <1>3, <1>4, <1>5, <1>6, <1>7 DEF TypeInv, TypeOK, StackSound, SocketStates

\* A step that sends requests for the application or for resubscribeAll.
LEMMA SendingStep ==
  ASSUME TypeInv, NEW requests \in Seq(Requests), NEW callback \in Callbacks,
         SendRequests(requests, callback),
         \/ UNCHANGED visit
         \/ requests # <<>> /\ VisitMayGrow({m_nextRequestId}),
         UNCHANGED <<m_serverUrl, socket, conn, control>>,
         inOnConnected' \in BOOLEAN,
         m_subscribedTopics' \in Seq(Topics),
         calls' \in 0..MaxCalls,
         completions' \in [Calls -> Seq(Outcomes)]
  PROVE  TypeInv'
<1>1. visit' \subseteq DOMAIN m_pendingRequests'
  <2>1. visit \subseteq DOMAIN m_pendingRequests
    BY DEF TypeInv, TypeOK
  <2>2. CASE UNCHANGED visit
    BY <2>1, <2>2, SendRequestsEffect
  <2>3. CASE requests # <<>> /\ VisitMayGrow({m_nextRequestId})
    <3>1. Len(requests) \in Nat \ {0}
      BY <2>3, EmptySeq
    <3>2. m_nextRequestId \in DOMAIN m_pendingRequests'
      <4>1. m_nextRequestId \in FreshIds(requests)
        BY <3>1 DEF FreshIds, TypeInv, TypeOK
      <4> QED
        BY <4>1, SendRequestsEffect
    <3> QED
      BY <2>1, <2>3, <3>2, SendRequestsEffect DEF VisitMayGrow
  <2> QED
    BY <2>2, <2>3
<1>2. control \notin {"draining", "callback"} => visit' = {}
  BY DEF TypeInv, StackSound, VisitMayGrow
<1>3. \A id \in DOMAIN m_pendingRequests' : m_pendingRequests'[id] \in Callbacks
  <2>1. \A id \in DOMAIN m_pendingRequests : m_pendingRequests[id] \in Callbacks
    BY DEF TypeInv, TypeOK
  <2> QED
    BY <2>1, SendRequestsEffect
<1> QED
  BY <1>1, <1>2, <1>3, SendRequestsEffect DEF TypeInv, TypeOK, StackSound

LEMMA AppStepTypeInv ==
  ASSUME TypeInv, AppStep
  PROVE  TypeInv'
<1> USE DEF serviceVars, stackVars, callVars
<1>1. ASSUME NEW url \in ServerUrls, setServerUrl(url)
      PROVE  TypeInv'
  BY <1>1 DEF setServerUrl, TypeInv, TypeOK, StackSound
<1>2. CASE connectToSocket
  BY <1>2 DEF connectToSocket, TypeInv, TypeOK, StackSound, SocketStates
<1>3. CASE disconnectFromSocket
  BY <1>3 DEF disconnectFromSocket, BeginDrain, EntriesToFail, EventLoop,
              TypeInv, TypeOK, StackSound, SocketStates
<1>4. ASSUME NEW method \in Methods, request(method)
      PROVE  TypeInv'
  <2> DEFINE c == calls + 1
  <2>1. c \in Calls /\ AppObject(c) \in Payloads /\ calls' = c /\ calls' \in 0..MaxCalls
    <3>1. c \in Calls /\ calls' = c
      BY <1>4 DEF request
    <3> QED
      BY <3>1, BoundsAssumption, ObjectsTyped DEF Calls
  <2>2. CASE ~m_connected
    <3>1. completions' \in [Calls -> Seq(Outcomes)]
      BY <1>4, <2>1, <2>2, AnswerTyped DEF request, Outcomes
    <3> QED
      BY <1>4, <2>1, <2>2, <3>1 DEF request, TypeInv, TypeOK, StackSound
  <2>3. CASE m_connected
    <3> DEFINE requests == <<[method |-> method, params |-> AppObject(c)]>>
    <3>1. /\ SendRequests(requests, AppCallback(c))
          /\ VisitMayGrow({m_nextRequestId})
          /\ UNCHANGED <<completions, m_serverUrl, m_subscribedTopics, socket, conn,
                         control, inOnConnected>>
      BY <1>4, <2>3 DEF request
    <3>2. requests \in Seq(Requests) /\ requests # <<>>
      BY <2>1, AppRequestTyped
    <3>3. AppCallback(c) \in Callbacks
      BY <2>1, CallbacksTyped
    <3> HIDE DEF requests, c
    <3> QED
      BY <2>1, <3>1, <3>2, <3>3, SendingStep DEF TypeInv, TypeOK
  <2> QED
    BY <2>2, <2>3
<1>5. ASSUME NEW method \in Methods, requestNoCallback(method)
      PROVE  TypeInv'
  <2> DEFINE requests == <<[method |-> method, params |-> EmptyObject]>>
  <2>1. /\ SendRequests(requests, EmptyCallback)
        /\ VisitMayGrow({m_nextRequestId})
        /\ UNCHANGED <<m_serverUrl, m_subscribedTopics, socket, conn, control, inOnConnected,
                       calls, completions>>
    BY <1>5 DEF requestNoCallback
  <2>2. requests \in Seq(Requests) /\ requests # <<>>
    BY ObjectsTyped, AppRequestTyped
  <2> HIDE DEF requests
  <2> QED
    BY <2>1, <2>2, CallbacksTyped, SendingStep DEF TypeInv, TypeOK
<1>6. ASSUME NEW t \in Topics, NEW method \in {"Subscribe", "Unsubscribe"},
             m_subscribedTopics' \in Seq(Topics), SendTopicRequest(method, t),
             UNCHANGED <<m_serverUrl, socket, conn, stackVars, callVars>>
      PROVE  TypeInv'
  <2>1. CASE ~m_connected
    BY <1>6, <2>1 DEF SendTopicRequest, TypeInv, TypeOK, StackSound
  <2>2. CASE m_connected
    <3>1. <<TopicRequest(method, t)>> \in Seq(Requests) /\ <<TopicRequest(method, t)>> # <<>>
      BY <1>6, TopicRequestTyped
    <3>2. /\ SendRequests(<<TopicRequest(method, t)>>, LogCallback)
          /\ VisitMayGrow({m_nextRequestId})
      BY <1>6, <2>2 DEF SendTopicRequest
    <3> QED
      BY <1>6, <3>1, <3>2, CallbacksTyped, SendingStep DEF TypeInv, TypeOK
  <2> QED
    BY <2>1, <2>2
<1>7. ASSUME NEW t \in Topics, subscribe(t)
      PROVE  TypeInv'
  BY <1>6, <1>7, WithTopicTyped DEF subscribe, TypeInv, TypeOK
<1>8. ASSUME NEW t \in Topics, unsubscribe(t)
      PROVE  TypeInv'
  BY <1>6, <1>8, WithTopicTyped DEF unsubscribe, TypeInv, TypeOK
<1>9. ASSUME NEW t \in Topics, publish(t)
      PROVE  TypeInv'
  <2>1. <<buildPublish(t, EmptyObject)>> \in Seq(Frames(Payloads, ErrorTexts))
    <3>1. buildPublish(t, EmptyObject) \in Frames(Payloads, ErrorTexts)
      BY VocabularyAssumption, PublishTyped
    <3> QED
      BY <3>1
  <2>2. wire' \in [Connections -> Seq(Frames(Payloads, ErrorTexts))]
    BY <1>9, <2>1, TransmitTyped DEF publish
  <2> QED
    BY <1>9, <2>2 DEF publish, TypeInv, TypeOK, StackSound
<1> QED
  BY <1>1, <1>2, <1>3, <1>4, <1>5, <1>7, <1>8, <1>9 DEF AppStep

LEMMA LoopStepTypeInv ==
  ASSUME TypeInv, LoopStep
  PROVE  TypeInv'
<1> USE DEF serviceVars, callVars
<1>1. CASE resubscribeAll
  <2>1. CASE m_connected
    <3> DEFINE requests == [i \in 1..Len(m_subscribedTopics) |->
                              TopicRequest("Subscribe", m_subscribedTopics[i])]
    <3>1. SendRequests(requests, LogCallback)
      BY <1>1, <2>1 DEF resubscribeAll
    <3>2. requests \in Seq(Requests)
      BY ResubscriptionsTyped
    <3> HIDE DEF requests
    <3> QED
      BY <1>1, <3>1, <3>2, CallbacksTyped, SendingStep DEF resubscribeAll, TypeInv, TypeOK
  <2>2. CASE ~m_connected
    BY <1>1, <2>2 DEF resubscribeAll, TypeInv, TypeOK, StackSound
  <2> QED
    BY <2>1, <2>2
<1>2. CASE failNext
  <2> PICK id \in visit :
        LET callback == m_pendingRequests[id] IN
        /\ visit' = visit \ {id}
        /\ \/ /\ callback.kind = "app"
              /\ Answer(callback.call, Disconnected)
              /\ control' = "callback"
           \/ /\ callback.kind # "app"
              /\ control' = "draining"
              /\ UNCHANGED completions
    BY <1>2 DEF failNext
  <2>1. Disconnected \in Outcomes
    BY DEF Outcomes
  <2>3. /\ visit' = visit \ {id}
        /\ control' \in {"callback", "draining"}
    OBVIOUS
  <2>2. completions' \in [Calls -> Seq(Outcomes)]
    <3>1. m_pendingRequests[id] \in Callbacks
      BY DEF TypeInv, TypeOK
    <3>2. CASE m_pendingRequests[id].call \in Calls
      BY <2>1, <3>2, AnswerTyped DEF TypeInv, TypeOK
    <3>3. CASE m_pendingRequests[id].call \notin Calls
      BY <3>3 DEF Answer, TypeInv, TypeOK
    <3> QED
      BY <3>2, <3>3
  <2> QED
    BY <1>2, <2>2, <2>3 DEF failNext, TypeInv, TypeOK, StackSound
<1>3. CASE finishDisconnect
  <2>1. DOMAIN m_pendingRequests' = {}
    BY <1>3 DEF finishDisconnect, MarkDown, NoEntries
  <2> QED
    BY <1>3, <2>1 DEF finishDisconnect, MarkDown, TypeInv, TypeOK, StackSound
<1> QED
  BY <1>1, <1>2, <1>3 DEF LoopStep

LEMMA SocketStepTypeInv ==
  ASSUME TypeInv, SocketStep
  PROVE  TypeInv'
<1>1. CASE onConnected
  BY <1>1, BoundsAssumption
     DEF onConnected, EventLoop, callVars, TypeInv, TypeOK, StackSound, SocketStates
<1>2. CASE onDisconnected
  BY <1>2 DEF onDisconnected, EventLoop, BeginDrain, EntriesToFail, serviceVars, callVars,
              TypeInv, TypeOK, StackSound, SocketStates
<1> QED
  BY <1>1, <1>2 DEF SocketStep

LEMMA PeerFramesTyped ==
  ASSUME TypeInv, conn > 0, NEW message \in PeerFrames
  PROVE  Outcome(message) \in Outcomes
<1> DEFINE requests == {m \in ToSet(wire[conn]) : isRequest(m)}
<1>1. \A r \in requests : PeerResult(r) \in Payloads
  <2>1. conn \in Connections
    BY DEF TypeInv, TypeOK, Connections
  <2>2. wire[conn] \in Seq(Frames(Payloads, ErrorTexts))
    BY <2>1 DEF TypeInv, TypeOK
  <2>3. \A r \in ToSet(wire[conn]) : r \in Frames(Payloads, ErrorTexts)
    BY <2>2 DEF ToSet
  <2>4. ASSUME NEW r \in requests
        PROVE  r.params \in Payloads /\ ResultOf(r.params) \in Payloads
    BY <2>3, <2>4, ResultsTyped DEF Frames
  <2>5. ASSUME NEW r \in requests
        PROVE  /\ TextObject("subscribed", TopicMember(r.params)) \in Payloads
               /\ TextObject("unsubscribed", TopicMember(r.params)) \in Payloads
    BY <2>4, <2>5, BoundsAssumption DEF Payloads, Objects, TextObject, TopicMember
  <2> QED
    BY <2>4, <2>5 DEF PeerResult
<1>2. /\ message.result \in Payloads
      /\ message.error \in ErrorTexts \cup {NoText}
  <2> DEFINE answers == {buildResponse(r.id, PeerResult(r)) : r \in requests}
                          \cup {buildErrorResponse(r.id, e) : r \in requests, e \in ErrorTexts}
  <2>1. ASSUME NEW a \in answers
        PROVE  a.result \in Payloads /\ a.error \in ErrorTexts \cup {NoText}
    BY <1>1, <2>1, ObjectsTyped DEF buildResponse, buildErrorResponse
  <2>2. CASE message \in answers
    BY <2>1, <2>2
  <2>3. ASSUME NEW a \in answers, message = [a EXCEPT !.id.kind = "string"]
        PROVE  message.result = a.result /\ message.error = a.error
    BY <2>3 DEF buildResponse, buildErrorResponse
  <2>4. CASE message \in {[a EXCEPT !.id.kind = "string"] : a \in answers}
    BY <2>1, <2>3, <2>4
  <2>5. CASE message \in {buildErrorResponse(NoId, e) : e \in ErrorTexts}
    BY <2>5, ObjectsTyped DEF buildErrorResponse
  <2>6. CASE message \in {buildPublish(t, EmptyObject) : t \in Topics}
    BY <2>6, ObjectsTyped DEF buildPublish
  <2>7. CASE message = [buildResponse(NoId, EmptyObject) EXCEPT !.type = "unknown"]
    BY <2>7, ObjectsTyped DEF buildResponse
  <2> QED
    BY <2>2, <2>4, <2>5, <2>6, <2>7 DEF PeerFrames
<1> QED
  BY <1>2 DEF Outcome, Outcomes, parseErrorMessage, parseResult

LEMMA DispatchTypeInv ==
  ASSUME TypeInv, conn > 0, NEW message \in PeerFrames, dispatchMessage(message)
  PROVE  TypeInv'
<1>1. /\ visit = {} /\ UNCHANGED <<m_serverUrl, m_connected, m_nextRequestId,
         m_subscribedTopics, socket, conn, wire, inOnConnected, visit, calls>>
      /\ control = "idle"
  BY DEF dispatchMessage, EventLoop, TypeInv, StackSound
<1>2. CASE Ignore(message)
  BY <1>1, <1>2 DEF Ignore, TypeInv, TypeOK, StackSound
<1>3. CASE TakeResponse(message)
  <2> DEFINE id == ResponseKey(message)
  <2>1. /\ id \in DOMAIN m_pendingRequests
        /\ TakeEntry(id)
        /\ control' \in {control, "crashed"}
        /\ \/ UNCHANGED completions
           \/ Answer(m_pendingRequests[id].call, Outcome(message))
    BY <1>3 DEF TakeResponse
  <2> HIDE DEF id
  <2>2. /\ DOMAIN m_pendingRequests' \subseteq DOMAIN m_pendingRequests
        /\ \A i \in DOMAIN m_pendingRequests' : m_pendingRequests'[i] = m_pendingRequests[i]
    BY <2>1 DEF TakeEntry, Restrict
  <2>3. completions' \in [Calls -> Seq(Outcomes)]
    <3>1. CASE UNCHANGED completions
      BY <3>1 DEF TypeInv, TypeOK
    <3>2. CASE Answer(m_pendingRequests[id].call, Outcome(message))
      <4>1. CASE m_pendingRequests[id].call \in Calls
        BY <3>2, <4>1, PeerFramesTyped, AnswerTyped
      <4>2. CASE m_pendingRequests[id].call \notin Calls
        BY <3>2, <4>2 DEF Answer, TypeInv, TypeOK
      <4> QED
        BY <4>1, <4>2
    <3> QED
      BY <2>1, <3>1, <3>2
  <2> QED
    BY <1>1, <2>1, <2>2, <2>3 DEF TypeInv, TypeOK, StackSound
<1> QED
  BY <1>2, <1>3 DEF dispatchMessage

LEMMA TypeInvStep == TypeInv /\ [Next]_vars => TypeInv'
<1> SUFFICES ASSUME TypeInv, [Next]_vars
             PROVE  TypeInv'
  OBVIOUS
<1>1. CASE AppStep
  BY <1>1, AppStepTypeInv
<1>2. CASE LoopStep
  BY <1>2, LoopStepTypeInv
<1>3. CASE SocketStep
  BY <1>3, SocketStepTypeInv
<1>4. CASE conn > 0 /\ \E message \in PeerFrames : dispatchMessage(message)
  BY <1>4, DispatchTypeInv
<1>5. CASE UNCHANGED vars
  BY <1>5 DEF vars, TypeInv, TypeOK, StackSound
<1> QED
  BY <1>1, <1>2, <1>3, <1>4, <1>5 DEF Next

\* Every variable has its type in every reachable state, and the socket's state
\* agrees with the call stack and the connection number.
THEOREM TypeCorrect == Spec => []TypeOK
<1>1. Init => TypeInv
  BY InitTypeInv
<1>2. TypeInv /\ [Next]_vars => TypeInv'
  BY TypeInvStep
<1>3. TypeInv => TypeOK
  BY DEF TypeInv
<1> QED
  BY <1>1, <1>2, <1>3, PTL DEF Spec

----------------------------------------------------------------------------
(* What a step does to the pending table, the iterator and the answers.    *)
(* Every invariant below is proved over these seven effects.               *)

tableVars == <<m_pendingRequests, visit, control, calls, completions>>

TableUntouched == UNCHANGED tableVars /\ (m_connected => m_connected')

DrainBegins ==
  /\ control = "idle" /\ control' = "draining"
  /\ visit' = DOMAIN m_pendingRequests
  /\ UNCHANGED <<m_pendingRequests, m_connected, calls, completions>>

Refusal ==
  /\ ~m_connected
  /\ calls + 1 \in Calls /\ calls' = calls + 1
  /\ Answer(calls + 1, Disconnected)
  /\ UNCHANGED <<m_pendingRequests, m_connected, visit, control>>

EntriesAdded(ids, callback) ==
  /\ m_connected
  /\ DOMAIN m_pendingRequests' = DOMAIN m_pendingRequests \cup ids
  /\ DOMAIN m_pendingRequests \cap ids = {}
  /\ \A id \in ids : m_pendingRequests'[id] = callback
  /\ \A id \in DOMAIN m_pendingRequests : m_pendingRequests'[id] = m_pendingRequests[id]
  /\ visit' = visit \/ visit' = visit \cup ids
  /\ UNCHANGED <<m_connected, control>>

Acceptance(id) ==
  /\ EntriesAdded({id}, AppCallback(calls + 1))
  /\ control = "callback" => "retryOnFailure" \in Usage
  /\ control \in {"idle", "callback"}
  /\ calls + 1 \in Calls /\ calls' = calls + 1
  /\ UNCHANGED completions

OwnRequests(ids, callback) ==
  /\ callback.kind # "app"
  /\ EntriesAdded(ids, callback)
  /\ UNCHANGED <<calls, completions>>

EntryFailed(id) ==
  /\ control \in {"draining", "callback"} /\ control' \in {"draining", "callback"}
  /\ id \in visit /\ visit' = visit \ {id}
  /\ \/ m_pendingRequests[id].kind = "app" /\ Answer(m_pendingRequests[id].call, Disconnected)
     \/ m_pendingRequests[id].kind # "app" /\ UNCHANGED completions
  /\ UNCHANGED <<m_pendingRequests, m_connected, calls>>

DrainEnds ==
  /\ control \in {"draining", "callback"} /\ control' = "idle"
  /\ visit = {} /\ visit' = {}
  /\ DOMAIN m_pendingRequests' = {} /\ ~m_connected'
  /\ UNCHANGED <<calls, completions>>

EntryTaken(id, outcome) ==
  /\ control = "idle" /\ control' \in {"idle", "crashed"}
  /\ id \in DOMAIN m_pendingRequests
  /\ DOMAIN m_pendingRequests' = DOMAIN m_pendingRequests \ {id}
  /\ \A i \in DOMAIN m_pendingRequests' : m_pendingRequests'[i] = m_pendingRequests[i]
  /\ outcome \in Outcomes
  /\ \/ m_pendingRequests[id].kind = "app" /\ Answer(m_pendingRequests[id].call, outcome)
     \/ m_pendingRequests[id].kind # "app" /\ UNCHANGED completions
  /\ UNCHANGED <<m_connected, visit, calls>>

StepEffect ==
  \/ TableUntouched
  \/ DrainBegins
  \/ Refusal
  \/ \E id : Acceptance(id)
  \/ \E ids, callback : OwnRequests(ids, callback)
  \/ \E id : EntryFailed(id)
  \/ DrainEnds
  \/ \E id, outcome : EntryTaken(id, outcome)

LEMMA SendingEffect ==
  ASSUME TypeInv, m_connected, NEW requests \in Seq(Requests), NEW callback \in Callbacks,
         SendRequests(requests, callback), UNCHANGED control,
         \/ UNCHANGED visit
         \/ FreshIds(requests) = {m_nextRequestId} /\ VisitMayGrow({m_nextRequestId})
  PROVE  EntriesAdded(FreshIds(requests), callback)
<1>1. visit' = visit \/ visit' = visit \cup FreshIds(requests)
  BY DEF VisitMayGrow
<1> QED
  BY <1>1, SendRequestsEffect DEF EntriesAdded

LEMMA OneFreshId ==
  ASSUME TypeInv, NEW r
  PROVE  FreshIds(<<r>>) = {m_nextRequestId}
BY DEF FreshIds, TypeInv, TypeOK

LEMMA TopicRequestEffect ==
  ASSUME TypeInv, NEW t \in Topics, NEW method \in {"Subscribe", "Unsubscribe"},
         SendTopicRequest(method, t), UNCHANGED <<control, calls, completions>>
  PROVE  StepEffect
<1>1. CASE ~m_connected
  BY <1>1 DEF SendTopicRequest, serviceVars, StepEffect, TableUntouched, tableVars
<1>2. CASE m_connected
  <2> DEFINE requests == <<TopicRequest(method, t)>>
  <2>1. requests \in Seq(Requests)
    BY TopicRequestTyped
  <2>2. SendRequests(requests, LogCallback) /\ VisitMayGrow({m_nextRequestId})
    BY <1>2 DEF SendTopicRequest
  <2>3. FreshIds(requests) = {m_nextRequestId}
    BY OneFreshId
  <2> HIDE DEF requests
  <2>4. EntriesAdded(FreshIds(requests), LogCallback)
    BY <1>2, <2>1, <2>2, <2>3, SendingEffect, CallbacksTyped
  <2>5. OwnRequests(FreshIds(requests), LogCallback)
    BY <2>4 DEF OwnRequests, LogCallback
  <2> QED
    BY <2>5 DEF StepEffect
<1> QED
  BY <1>1, <1>2

LEMMA AppStepEffect ==
  ASSUME TypeInv, AppStep
  PROVE  StepEffect
<1> USE DEF serviceVars, stackVars, callVars
<1>1. ASSUME NEW url \in ServerUrls, setServerUrl(url)
      PROVE  StepEffect
  BY <1>1 DEF setServerUrl, StepEffect, TableUntouched, tableVars
<1>2. CASE connectToSocket
  BY <1>2 DEF connectToSocket, StepEffect, TableUntouched, tableVars
<1>3. CASE disconnectFromSocket
  <2>1. CASE BeginDrain
    BY <1>3, <2>1 DEF disconnectFromSocket, BeginDrain, EntriesToFail, EventLoop,
                      StepEffect, DrainBegins, TableUntouched, tableVars
  <2>2. CASE ~BeginDrain
    BY <1>3, <2>2 DEF disconnectFromSocket, StepEffect, TableUntouched, tableVars
  <2> QED
    BY <2>1, <2>2
<1>4. ASSUME NEW method \in Methods, request(method)
      PROVE  StepEffect
  <2>1. /\ calls + 1 \in Calls /\ calls' = calls + 1
        /\ control = "callback" => "retryOnFailure" \in Usage
        /\ control \in {"idle", "callback"} /\ UNCHANGED control
    BY <1>4 DEF request, AppRunning
  <2>2. CASE ~m_connected
    <3>1. Refusal
      BY <1>4, <2>1, <2>2 DEF request, Refusal
    <3> QED
      BY <3>1 DEF StepEffect
  <2>3. CASE m_connected
    <3> DEFINE requests == <<[method |-> method, params |-> AppObject(calls + 1)]>>
               callback == AppCallback(calls + 1)
    <3>1. SendRequests(requests, callback) /\ VisitMayGrow({m_nextRequestId})
          /\ UNCHANGED completions
      BY <1>4, <2>3 DEF request
    <3>2. requests \in Seq(Requests)
      <4>1. AppObject(calls + 1) \in Payloads
        BY <2>1, BoundsAssumption, ObjectsTyped DEF Calls
      <4> QED
        BY <4>1, AppRequestTyped
    <3>3. callback \in Callbacks
      BY <2>1, CallbacksTyped
    <3>4. FreshIds(requests) = {m_nextRequestId}
      BY OneFreshId
    <3> HIDE DEF requests
    <3>5. EntriesAdded({m_nextRequestId}, callback)
      BY <2>1, <2>3, <3>1, <3>2, <3>3, <3>4, SendingEffect
    <3>6. Acceptance(m_nextRequestId)
      BY <2>1, <3>1, <3>5 DEF Acceptance
    <3> QED
      BY <3>6 DEF StepEffect
  <2> QED
    BY <2>2, <2>3
<1>5. ASSUME NEW method \in Methods, requestNoCallback(method)
      PROVE  StepEffect
  <2> DEFINE requests == <<[method |-> method, params |-> EmptyObject]>>
  <2>1. /\ SendRequests(requests, EmptyCallback) /\ VisitMayGrow({m_nextRequestId})
        /\ m_connected /\ UNCHANGED <<control, calls, completions>>
    BY <1>5 DEF requestNoCallback
  <2>2. requests \in Seq(Requests)
    BY ObjectsTyped, AppRequestTyped
  <2>3. FreshIds(requests) = {m_nextRequestId}
    BY OneFreshId
  <2> HIDE DEF requests
  <2>4. EntriesAdded(FreshIds(requests), EmptyCallback)
    BY <2>1, <2>2, <2>3, SendingEffect, CallbacksTyped
  <2>5. OwnRequests(FreshIds(requests), EmptyCallback)
    BY <2>1, <2>4 DEF OwnRequests, EmptyCallback
  <2> QED
    BY <2>5 DEF StepEffect
<1>6. ASSUME NEW t \in Topics, subscribe(t)
      PROVE  StepEffect
  BY <1>6, TopicRequestEffect DEF subscribe
<1>7. ASSUME NEW t \in Topics, unsubscribe(t)
      PROVE  StepEffect
  BY <1>7, TopicRequestEffect DEF unsubscribe
<1>8. ASSUME NEW t \in Topics, publish(t)
      PROVE  StepEffect
  BY <1>8 DEF publish, StepEffect, TableUntouched, tableVars
<1> QED
  BY <1>1, <1>2, <1>3, <1>4, <1>5, <1>6, <1>7, <1>8 DEF AppStep

LEMMA OtherStepEffect ==
  ASSUME TypeInv, [Next]_vars, ~AppStep
  PROVE  StepEffect
<1> USE DEF serviceVars, stackVars, callVars
<1>1. CASE resubscribeAll
  <2>1. CASE m_connected
    <3> DEFINE requests == [i \in 1..Len(m_subscribedTopics) |->
                              TopicRequest("Subscribe", m_subscribedTopics[i])]
    <3>1. SendRequests(requests, LogCallback) /\ UNCHANGED <<control, visit, calls, completions>>
      BY <1>1, <2>1 DEF resubscribeAll
    <3>2. requests \in Seq(Requests)
      BY ResubscriptionsTyped
    <3> HIDE DEF requests
    <3>3. EntriesAdded(FreshIds(requests), LogCallback)
      BY <2>1, <3>1, <3>2, SendingEffect, CallbacksTyped
    <3>4. OwnRequests(FreshIds(requests), LogCallback)
      BY <3>1, <3>3 DEF OwnRequests, LogCallback
    <3> QED
      BY <3>4 DEF StepEffect
  <2>2. CASE ~m_connected
    BY <1>1, <2>2 DEF resubscribeAll, StepEffect, TableUntouched, tableVars
  <2> QED
    BY <2>1, <2>2
<1>2. CASE failNext
  <2>1. \E id : EntryFailed(id)
    BY <1>2 DEF failNext, EntryFailed
  <2> QED
    BY <2>1 DEF StepEffect
<1>3. CASE finishDisconnect
  <2>1. DOMAIN m_pendingRequests' = {} /\ ~m_connected'
    BY <1>3 DEF finishDisconnect, MarkDown, NoEntries
  <2>2. DrainEnds
    BY <1>3, <2>1 DEF finishDisconnect, DrainEnds
  <2> QED
    BY <2>2 DEF StepEffect
<1>4. CASE onConnected
  BY <1>4 DEF onConnected, StepEffect, TableUntouched, tableVars
<1>5. CASE onDisconnected
  BY <1>5 DEF onDisconnected, BeginDrain, EntriesToFail, EventLoop, StepEffect, DrainBegins
<1>6. ASSUME conn > 0, NEW message \in PeerFrames, dispatchMessage(message)
      PROVE  StepEffect
  <2>1. CASE Ignore(message)
    BY <1>6, <2>1 DEF dispatchMessage, Ignore, StepEffect, TableUntouched, tableVars
  <2>2. CASE TakeResponse(message)
    <3> DEFINE id == ResponseKey(message)
    <3>1. /\ id \in DOMAIN m_pendingRequests /\ TakeEntry(id)
          /\ control = "idle" /\ control' \in {"idle", "crashed"}
          /\ \/ m_pendingRequests[id].kind = "app"
                /\ Answer(m_pendingRequests[id].call, Outcome(message))
             \/ m_pendingRequests[id].kind # "app" /\ UNCHANGED completions
          /\ UNCHANGED <<m_connected, visit, calls>>
      BY <1>6, <2>2 DEF dispatchMessage, EventLoop, TakeResponse
    <3> HIDE DEF id
    <3>2. EntryTaken(id, Outcome(message))
      BY <1>6, <3>1, PeerFramesTyped DEF EntryTaken, TakeEntry, Restrict
    <3> QED
      BY <3>2 DEF StepEffect
  <2> QED
    BY <1>6, <2>1, <2>2 DEF dispatchMessage
<1>7. CASE UNCHANGED vars
  BY <1>7 DEF vars, StepEffect, TableUntouched, tableVars
<1> QED
  BY <1>1, <1>2, <1>3, <1>4, <1>5, <1>6, <1>7 DEF Next, LoopStep, SocketStep

LEMMA NextEffect == TypeInv /\ [Next]_vars => StepEffect
BY AppStepEffect, OtherStepEffect

----------------------------------------------------------------------------
(* The table of a service that is down is empty. *)

EmptyWhenDown == ~m_connected => DOMAIN m_pendingRequests = {}

LEMMA EmptyWhenDownStep == TypeInv /\ EmptyWhenDown /\ [Next]_vars => EmptyWhenDown'
<1> SUFFICES ASSUME TypeInv, EmptyWhenDown, [Next]_vars
             PROVE  EmptyWhenDown'
  OBVIOUS
<1>1. StepEffect
  BY NextEffect
<1>2. CASE TableUntouched
  BY <1>2 DEF TableUntouched, tableVars, EmptyWhenDown, TypeInv, TypeOK
<1>3. CASE DrainBegins
  BY <1>3 DEF DrainBegins, EmptyWhenDown
<1>4. CASE Refusal
  BY <1>4 DEF Refusal, EmptyWhenDown
<1>5. ASSUME NEW id, Acceptance(id)
      PROVE  EmptyWhenDown'
  BY <1>5 DEF Acceptance, EntriesAdded, EmptyWhenDown
<1>6. ASSUME NEW ids, NEW callback, OwnRequests(ids, callback)
      PROVE  EmptyWhenDown'
  BY <1>6 DEF OwnRequests, EntriesAdded, EmptyWhenDown
<1>7. ASSUME NEW id, EntryFailed(id)
      PROVE  EmptyWhenDown'
  BY <1>7 DEF EntryFailed, EmptyWhenDown
<1>8. CASE DrainEnds
  BY <1>8 DEF DrainEnds, EmptyWhenDown
<1>9. ASSUME NEW id, NEW outcome, EntryTaken(id, outcome)
      PROVE  EmptyWhenDown'
  BY <1>9 DEF EntryTaken, EmptyWhenDown
<1> QED
  BY <1>1, <1>2, <1>3, <1>4, <1>5, <1>6, <1>7, <1>8, <1>9 DEF StepEffect

----------------------------------------------------------------------------
(* No callback runs twice. *)

OnceInv == TypeInv /\ EmptyWhenDown /\ EntriesAnswerable /\ AnsweredOnce

LEMMA SameCallSameEntry ==
  ASSUME TypeInv, EntriesAnswerable,
         NEW i \in DOMAIN m_pendingRequests, NEW j \in DOMAIN m_pendingRequests,
         m_pendingRequests[i].kind = "app", m_pendingRequests[j].kind = "app",
         m_pendingRequests[i].call = m_pendingRequests[j].call
  PROVE  i = j
<1>1. m_pendingRequests[i] \in Callbacks /\ m_pendingRequests[j] \in Callbacks
  BY DEF TypeInv, TypeOK
<1>2. m_pendingRequests[i] = m_pendingRequests[j]
  BY <1>1 DEF Callbacks
<1> QED
  BY <1>2 DEF EntriesAnswerable

\* A call that is answered for the first time.
LEMMA FirstAnswer ==
  ASSUME TypeInv, AnsweredOnce, NEW c \in Calls, ~Completed(c), NEW outcome \in Outcomes,
         Answer(c, outcome)
  PROVE  /\ completions'[c] = <<outcome>>
         /\ \A d \in Calls \ {c} : completions'[d] = completions[d]
         /\ AnsweredOnce'
<1>1. completions \in [Calls -> Seq(Outcomes)]
  BY DEF TypeInv, TypeOK
<1>2. completions' = [completions EXCEPT ![c] = Append(completions[c], outcome)]
  BY DEF Answer
<1>3. completions'[c] = Append(<<>>, outcome)
  BY <1>1, <1>2 DEF Completed
<1>4. completions'[c] = <<outcome>>
  BY <1>3
<1>5. \A d \in Calls \ {c} : completions'[d] = completions[d]
  BY <1>1, <1>2
<1>6. ASSUME NEW d \in Calls
      PROVE  Len(completions'[d]) <= 1
  <2>1. CASE d = c
    <3>1. Len(<<outcome>>) = 1
      OBVIOUS
    <3>2. completions'[d] = <<outcome>>
      BY <1>4, <2>1
    <3> QED
      BY <3>1, <3>2
  <2>2. CASE d # c
    <3>1. completions'[d] = completions[d]
      BY <1>5, <2>2
    <3>2. Len(completions[d]) <= 1
      BY DEF AnsweredOnce
    <3> QED
      BY <3>1, <3>2
  <2> QED
    BY <2>1, <2>2
<1> QED
  BY <1>4, <1>5, <1>6 DEF AnsweredOnce

LEMMA OnceStep == OnceInv /\ [Next]_vars => EntriesAnswerable' /\ AnsweredOnce'
<1> SUFFICES ASSUME OnceInv, [Next]_vars
             PROVE  EntriesAnswerable' /\ AnsweredOnce'
  OBVIOUS
<1>a. TypeInv /\ EmptyWhenDown /\ EntriesAnswerable /\ AnsweredOnce
  BY DEF OnceInv
<1>b. 1..calls \subseteq Calls /\ calls \in Nat
  BY <1>a, BoundsAssumption DEF TypeInv, TypeOK, Calls
<1>c. \A id \in DOMAIN m_pendingRequests : m_pendingRequests[id] \in Callbacks
  BY <1>a DEF TypeInv, TypeOK
<1>d. Disconnected \in Outcomes
  BY DEF Outcomes
<1>1. StepEffect
  BY <1>a, NextEffect
<1>2. CASE TableUntouched
  BY <1>a, <1>2 DEF TableUntouched, tableVars, EntriesAnswerable, AnsweredOnce, Completed, Passed
<1>3. CASE DrainBegins
  BY <1>a, <1>3 DEF DrainBegins, EntriesAnswerable, AnsweredOnce, Completed, Passed
<1>4. CASE Refusal
  <2>1. DOMAIN m_pendingRequests' = {}
    BY <1>a, <1>4 DEF Refusal, EmptyWhenDown
  <2>2. ~Completed(calls + 1)
    BY <1>a, <1>b, <1>4 DEF Refusal, EntriesAnswerable
  <2>3. /\ completions'[calls + 1] = <<Disconnected>>
        /\ AnsweredOnce'
        /\ \A d \in Calls \ {calls + 1} : completions'[d] = completions[d]
    BY <1>a, <1>d, <1>4, <2>2, FirstAnswer DEF Refusal
  <2>5. \A c \in Calls : c > calls' => ~Completed(c)'
    BY <1>a, <1>b, <1>4, <2>3 DEF Refusal, EntriesAnswerable, Completed, Calls
  <2> QED
    BY <2>1, <2>3, <2>5 DEF EntriesAnswerable
<1>5. ASSUME NEW id, Acceptance(id)
      PROVE  EntriesAnswerable' /\ AnsweredOnce'
  <2>1. completions'[calls + 1] = <<>>
    <3>1. calls + 1 \in Calls /\ calls + 1 > calls
      BY <1>b, <1>5 DEF Acceptance
    <3>2. ~Completed(calls + 1)
      BY <1>a, <3>1 DEF EntriesAnswerable
    <3> QED
      BY <1>5, <3>2 DEF Acceptance, Completed
  <2>2. AnsweredOnce'
    BY <1>a, <1>5 DEF Acceptance, AnsweredOnce
  <2>3. \A c \in Calls : c > calls' => ~Completed(c)'
    BY <1>a, <1>b, <1>5 DEF Acceptance, EntriesAnswerable, Completed, Calls
  <2>4. ASSUME NEW i \in DOMAIN m_pendingRequests', m_pendingRequests'[i].kind = "app"
        PROVE  /\ m_pendingRequests'[i].call \in 1..calls'
               /\ Completed(m_pendingRequests[i].call)' => Passed(i)'
               /\ \A other \in DOMAIN m_pendingRequests' :
                    m_pendingRequests'[other] = m_pendingRequests'[i] => other = i
    <3>1. CASE i = id
      <4>1. m_pendingRequests'[i] = AppCallback(calls + 1)
        BY <1>5, <3>1 DEF Acceptance, EntriesAdded
      <4>2. m_pendingRequests'[i].call = calls + 1
        BY <4>1 DEF AppCallback
      <4>3. ASSUME NEW other \in DOMAIN m_pendingRequests, m_pendingRequests'[other] = m_pendingRequests'[i]
            PROVE  FALSE
        <5>1. m_pendingRequests[other] = AppCallback(calls + 1)
          BY <1>5, <4>1, <4>3 DEF Acceptance, EntriesAdded
        <5>2. m_pendingRequests[other].kind = "app" /\ m_pendingRequests[other].call = calls + 1
          BY <5>1 DEF AppCallback
        <5> QED
          BY <1>a, <1>b, <5>2 DEF EntriesAnswerable
      <4>4. m_pendingRequests'[i].call \in 1..calls'
        BY <1>b, <1>5, <4>2 DEF Acceptance
      <4>5. ~Completed(m_pendingRequests[i].call)'
        BY <2>1, <4>2 DEF Completed
      <4>6. \A other \in DOMAIN m_pendingRequests' : other = i \/ other \in DOMAIN m_pendingRequests
        BY <1>5, <3>1 DEF Acceptance, EntriesAdded
      <4> QED
        BY <4>3, <4>4, <4>5, <4>6
    <3>2. CASE i # id
      <4>1. i \in DOMAIN m_pendingRequests /\ m_pendingRequests'[i] = m_pendingRequests[i]
        BY <1>5, <2>4, <3>2 DEF Acceptance, EntriesAdded
      <4>2. m_pendingRequests[i].call \in 1..calls
        BY <1>a, <2>4, <4>1 DEF EntriesAnswerable
      <4>3. Completed(m_pendingRequests[i].call)' => Passed(i)'
        BY <1>a, <1>5, <2>4, <3>2, <4>1
           DEF Acceptance, EntriesAdded, EntriesAnswerable, Completed, Passed
      <4>4. ASSUME NEW other \in DOMAIN m_pendingRequests', m_pendingRequests'[other] = m_pendingRequests'[i]
            PROVE  other = i
        <5>1. CASE other = id
          <6>1. m_pendingRequests[i] = AppCallback(calls + 1)
            BY <1>5, <4>1, <4>4, <5>1 DEF Acceptance, EntriesAdded
          <6> QED
            BY <1>b, <4>2, <6>1 DEF AppCallback
        <5>2. CASE other # id
          BY <1>a, <1>5, <2>4, <4>1, <4>4, <5>2 DEF Acceptance, EntriesAdded, EntriesAnswerable
        <5> QED
          BY <5>1, <5>2
      <4> QED
        BY <1>b, <1>5, <4>1, <4>2, <4>3, <4>4 DEF Acceptance
    <3> QED
      BY <3>1, <3>2
  <2> QED
    BY <2>2, <2>3, <2>4 DEF EntriesAnswerable
<1>6. ASSUME NEW ids, NEW callback, OwnRequests(ids, callback)
      PROVE  EntriesAnswerable' /\ AnsweredOnce'
  <2>1. \A i \in DOMAIN m_pendingRequests' : m_pendingRequests'[i].kind = "app" =>
          i \in DOMAIN m_pendingRequests /\ i \notin ids /\ m_pendingRequests'[i] = m_pendingRequests[i]
    BY <1>6 DEF OwnRequests, EntriesAdded
  <2> QED
    BY <1>a, <1>6, <2>1
       DEF OwnRequests, EntriesAdded, EntriesAnswerable, AnsweredOnce, Completed, Passed
<1>7. ASSUME NEW id, EntryFailed(id)
      PROVE  EntriesAnswerable' /\ AnsweredOnce'
  <2> DEFINE c == m_pendingRequests[id].call
  <2>1. id \in DOMAIN m_pendingRequests /\ ~Passed(id)
    BY <1>a, <1>7 DEF EntryFailed, Passed, TypeInv, TypeOK
  <2>2. \A i \in DOMAIN m_pendingRequests : Passed(i)' <=> Passed(i) \/ i = id
    BY <1>7 DEF EntryFailed, Passed
  <2>3. CASE m_pendingRequests[id].kind = "app"
    <3>1. c \in Calls /\ c \in 1..calls /\ ~Completed(c)
      BY <1>a, <1>b, <2>1, <2>3 DEF EntriesAnswerable
    <3>2. /\ AnsweredOnce'
          /\ \A d \in Calls \ {c} : completions'[d] = completions[d]
      BY <1>a, <1>d, <1>7, <2>3, <3>1, FirstAnswer DEF EntryFailed
    <3>3. \A i \in DOMAIN m_pendingRequests :
            m_pendingRequests[i].kind = "app" /\ i # id => m_pendingRequests[i].call # c
      BY <1>a, <2>1, <2>3, SameCallSameEntry
    <3> HIDE DEF c
    <3>5. \A d \in Calls : d > calls' => ~Completed(d)'
      BY <1>a, <1>b, <1>7, <3>1, <3>2 DEF EntryFailed, EntriesAnswerable, Completed
    <3>6. \A i \in DOMAIN m_pendingRequests : m_pendingRequests[i].kind = "app" =>
            (Completed(m_pendingRequests[i].call)' => Passed(i)')
      BY <1>a, <1>b, <1>7, <2>2, <3>2, <3>3 DEF EntryFailed, EntriesAnswerable, Completed
    <3> QED
      BY <1>a, <1>7, <3>2, <3>5, <3>6 DEF EntryFailed, EntriesAnswerable, Completed
  <2>4. CASE m_pendingRequests[id].kind # "app"
    BY <1>a, <1>7, <2>2, <2>4 DEF EntryFailed, EntriesAnswerable, AnsweredOnce, Completed
  <2> QED
    BY <2>3, <2>4
<1>8. CASE DrainEnds
  BY <1>a, <1>8 DEF DrainEnds, EntriesAnswerable, AnsweredOnce, Completed
<1>9. ASSUME NEW id, NEW outcome, EntryTaken(id, outcome)
      PROVE  EntriesAnswerable' /\ AnsweredOnce'
  <2> DEFINE c == m_pendingRequests[id].call
  <2>1. \A i \in DOMAIN m_pendingRequests : ~Passed(i)
    BY <1>9 DEF EntryTaken, Passed
  <2>2. \A i \in DOMAIN m_pendingRequests' :
          /\ i \in DOMAIN m_pendingRequests /\ i # id
          /\ m_pendingRequests'[i] = m_pendingRequests[i]
    BY <1>9 DEF EntryTaken
  <2>3. CASE m_pendingRequests[id].kind = "app"
    <3>1. c \in Calls /\ c \in 1..calls /\ ~Completed(c)
      BY <1>a, <1>b, <1>9, <2>1, <2>3 DEF EntryTaken, EntriesAnswerable
    <3>2. /\ AnsweredOnce'
          /\ \A d \in Calls \ {c} : completions'[d] = completions[d]
      BY <1>a, <1>9, <2>3, <3>1, FirstAnswer DEF EntryTaken
    <3>3. \A i \in DOMAIN m_pendingRequests' :
            m_pendingRequests[i].kind = "app" => m_pendingRequests[i].call # c
      BY <1>a, <1>9, <2>2, <2>3, SameCallSameEntry DEF EntryTaken
    <3> HIDE DEF c
    <3>5. \A d \in Calls : d > calls' => ~Completed(d)'
      BY <1>a, <1>b, <1>9, <3>1, <3>2 DEF EntryTaken, EntriesAnswerable, Completed
    <3>6. \A i \in DOMAIN m_pendingRequests' : m_pendingRequests'[i].kind = "app" =>
            ~Completed(m_pendingRequests[i].call)'
      BY <1>a, <1>b, <2>1, <2>2, <3>2, <3>3 DEF EntriesAnswerable, Completed
    <3> QED
      BY <1>a, <1>9, <2>2, <3>2, <3>5, <3>6 DEF EntryTaken, EntriesAnswerable, Completed
  <2>4. CASE m_pendingRequests[id].kind # "app"
    BY <1>a, <1>9, <2>1, <2>2, <2>4 DEF EntryTaken, EntriesAnswerable, AnsweredOnce, Completed
  <2> QED
    BY <2>3, <2>4
<1> QED
  BY <1>1, <1>2, <1>3, <1>4, <1>5, <1>6, <1>7, <1>8, <1>9 DEF StepEffect

LEMMA OnceInvInductive ==
  /\ Init => OnceInv
  /\ OnceInv /\ [Next]_vars => OnceInv'
<1>1. ASSUME Init PROVE OnceInv
  <2>1. DOMAIN m_pendingRequests = {}
    BY <1>1 DEF Init, NoEntries
  <2>2. \A c \in Calls : completions[c] = <<>>
    BY <1>1 DEF Init
  <2>3. \A c \in Calls : Len(completions[c]) = 0
    BY <2>2
  <2> QED
    BY <1>1, <2>1, <2>2, <2>3, InitTypeInv
       DEF OnceInv, EmptyWhenDown, EntriesAnswerable, AnsweredOnce, Completed
<1>2. OnceInv /\ [Next]_vars => OnceInv'
  BY TypeInvStep, EmptyWhenDownStep, OnceStep DEF OnceInv
<1> QED
  BY <1>1, <1>2

\* Whatever the application does in its callbacks, and whatever a peer sends, no
\* callback of request() runs twice.
THEOREM AnsweredOnceHolds == Spec => []AnsweredOnce
<1>1. OnceInv => AnsweredOnce
  BY DEF OnceInv
<1> QED
  BY <1>1, OnceInvInductive, PTL DEF Spec

\* A pending request of the application stands for one call, which no other entry
\* stands for, and which is unanswered until onDisconnected has passed the entry.
THEOREM EntriesAnswerableHolds == Spec => []EntriesAnswerable
<1>1. OnceInv => EntriesAnswerable
  BY DEF OnceInv
<1> QED
  BY <1>1, OnceInvInductive, PTL DEF Spec

----------------------------------------------------------------------------
(* No callback is lost, unless the application makes requests from the     *)
(* callbacks that onDisconnected runs.                                     *)

KeptInv == OnceInv /\ PassedAreAnswered /\ NoCallbackLost

LEMMA HeldEntry ==
  ASSUME NEW c, Held(c)
  PROVE  \E id \in DOMAIN m_pendingRequests :
           m_pendingRequests[id].kind = "app" /\ m_pendingRequests[id].call = c
BY DEF Held, AppCallback

LEMMA EntryHeld ==
  ASSUME TypeInv, NEW id \in DOMAIN m_pendingRequests, m_pendingRequests[id].kind = "app"
  PROVE  Held(m_pendingRequests[id].call)
<1>1. m_pendingRequests[id] \in Callbacks
  BY DEF TypeInv, TypeOK
<1> QED
  BY <1>1 DEF Callbacks, AppCallback, Held

LEMMA AnswersStay ==
  ASSUME TypeInv, [Next]_vars, NEW c \in Calls, Completed(c)
  PROVE  Completed(c)'
<1>1. StepEffect
  BY NextEffect
<1>2. completions \in [Calls -> Seq(Outcomes)]
  BY DEF TypeInv, TypeOK
<1>3. ASSUME NEW d, NEW outcome \in Outcomes, Answer(d, outcome)
      PROVE  Completed(c)'
  <2>1. completions' = [completions EXCEPT ![d] = Append(completions[d], outcome)]
    BY <1>3 DEF Answer
  <2>2. CASE d = c
    <3>1. completions'[c] = Append(completions[c], outcome)
      BY <1>2, <2>1, <2>2
    <3>2. completions[c] \in Seq(Outcomes)
      BY <1>2
    <3>3. Append(completions[c], outcome) # <<>>
      BY <3>2, AppendProperties
    <3> QED
      BY <3>1, <3>3 DEF Completed
  <2>3. CASE d # c
    BY <1>2, <2>1, <2>3 DEF Completed
  <2> QED
    BY <2>2, <2>3
<1>4. Disconnected \in Outcomes
  BY DEF Outcomes
<1>5. CASE UNCHANGED completions
  BY <1>5 DEF Completed
<1>6. CASE Refusal
  BY <1>3, <1>4, <1>6 DEF Refusal
<1>7. ASSUME NEW id, EntryFailed(id)
      PROVE  Completed(c)'
  BY <1>3, <1>4, <1>5, <1>7 DEF EntryFailed
<1>8. ASSUME NEW id, NEW outcome, EntryTaken(id, outcome)
      PROVE  Completed(c)'
  BY <1>3, <1>5, <1>8 DEF EntryTaken
<1> QED
  BY <1>1, <1>5, <1>6, <1>7, <1>8
     DEF StepEffect, TableUntouched, tableVars, DrainBegins, Acceptance, OwnRequests, DrainEnds

LEMMA KeptStep ==
  ASSUME "retryOnFailure" \notin Usage, KeptInv, [Next]_vars
  PROVE  PassedAreAnswered' /\ NoCallbackLost'
<1>a. TypeInv /\ EntriesAnswerable /\ AnsweredOnce /\ PassedAreAnswered /\ NoCallbackLost
  BY DEF KeptInv, OnceInv
<1>b. 1..calls \subseteq Calls /\ calls \in Nat
  BY <1>a, BoundsAssumption DEF TypeInv, TypeOK, Calls
<1>c. \A c \in Calls : Completed(c) => Completed(c)'
  BY <1>a, AnswersStay
<1>d. Disconnected \in Outcomes
  BY DEF Outcomes
<1>1. StepEffect
  BY <1>a, NextEffect
<1>2. CASE TableUntouched
  BY <1>a, <1>2 DEF TableUntouched, tableVars, PassedAreAnswered, NoCallbackLost, Passed, Held, Completed
<1>3. CASE DrainBegins
  BY <1>a, <1>3 DEF DrainBegins, PassedAreAnswered, NoCallbackLost, Passed, Held, Completed
<1>4. CASE Refusal
  <2>1. PassedAreAnswered'
    BY <1>a, <1>b, <1>c, <1>4 DEF Refusal, PassedAreAnswered, EntriesAnswerable, Passed
  <2>2. completions'[calls + 1] = <<Disconnected>>
    <3>1. ~Completed(calls + 1)
      BY <1>a, <1>b, <1>4 DEF Refusal, EntriesAnswerable
    <3> QED
      BY <1>a, <1>d, <1>4, <3>1, FirstAnswer DEF Refusal
  <2>3. completions'[calls'] # <<>>
    BY <1>4, <2>2 DEF Refusal
  <2>4. ASSUME NEW c \in 1..calls'
        PROVE  Completed(c)' \/ Held(c)'
    <3>1. CASE c = calls'
      BY <2>3, <3>1 DEF Completed
    <3>2. CASE c # calls'
      <4>1. c \in 1..calls
        BY <1>b, <1>4, <3>2 DEF Refusal
      <4> QED
        BY <1>a, <1>b, <1>c, <1>4, <4>1 DEF Refusal, NoCallbackLost, Held
    <3> QED
      BY <3>1, <3>2
  <2> QED
    BY <2>1, <2>4 DEF NoCallbackLost
<1>5. ASSUME NEW id, Acceptance(id)
      PROVE  PassedAreAnswered' /\ NoCallbackLost'
  <2>1. control' = "idle"
    BY <1>5 DEF Acceptance, EntriesAdded
  <2>2. PassedAreAnswered'
    BY <2>1 DEF PassedAreAnswered, Passed
  <2>3. ASSUME NEW c \in 1..calls'
        PROVE  Completed(c)' \/ Held(c)'
    <3>1. CASE c = calls + 1
      BY <1>5, <3>1 DEF Acceptance, EntriesAdded, Held
    <3>2. CASE c # calls + 1
      <4>1. c \in 1..calls
        BY <1>b, <1>5, <3>2 DEF Acceptance
      <4>2. CASE Completed(c)
        BY <1>b, <1>c, <4>1, <4>2
      <4>3. CASE Held(c)
        BY <1>5, <4>3 DEF Acceptance, EntriesAdded, Held
      <4> QED
        BY <1>a, <4>1, <4>2, <4>3 DEF NoCallbackLost
    <3> QED
      BY <3>1, <3>2
  <2> QED
    BY <2>2, <2>3 DEF NoCallbackLost
<1>6. ASSUME NEW ids, NEW callback, OwnRequests(ids, callback)
      PROVE  PassedAreAnswered' /\ NoCallbackLost'
  <2>1. \A i \in DOMAIN m_pendingRequests' : m_pendingRequests'[i].kind = "app" =>
          i \in DOMAIN m_pendingRequests /\ i \notin ids /\ m_pendingRequests'[i] = m_pendingRequests[i]
    BY <1>6 DEF OwnRequests, EntriesAdded
  <2>2. PassedAreAnswered'
    BY <1>a, <1>6, <2>1 DEF OwnRequests, EntriesAdded, PassedAreAnswered, Passed, Completed
  <2>3. NoCallbackLost'
    BY <1>a, <1>6 DEF OwnRequests, EntriesAdded, NoCallbackLost, Held, Completed
  <2> QED
    BY <2>2, <2>3
<1>7. ASSUME NEW id, EntryFailed(id)
      PROVE  PassedAreAnswered' /\ NoCallbackLost'
  <2>1. id \in DOMAIN m_pendingRequests /\ ~Passed(id)
    BY <1>a, <1>7 DEF EntryFailed, Passed, TypeInv, TypeOK
  <2>2. NoCallbackLost'
    BY <1>a, <1>b, <1>c, <1>7 DEF EntryFailed, NoCallbackLost, Held
  <2>3. m_pendingRequests[id].kind = "app" => Completed(m_pendingRequests[id].call)'
    <3> SUFFICES ASSUME m_pendingRequests[id].kind = "app"
                 PROVE  Completed(m_pendingRequests[id].call)'
      BY <1>7 DEF EntryFailed
    <3> DEFINE c == m_pendingRequests[id].call
    <3>1. c \in Calls /\ ~Completed(c)
      BY <1>a, <1>b, <2>1 DEF EntriesAnswerable
    <3>2. completions'[c] = <<Disconnected>>
      BY <1>a, <1>d, <1>7, <3>1, FirstAnswer DEF EntryFailed
    <3> QED
      BY <1>7, <3>2 DEF Completed, EntryFailed
  <2>4. PassedAreAnswered'
    BY <1>a, <1>b, <1>c, <1>7, <2>3
       DEF EntryFailed, PassedAreAnswered, EntriesAnswerable, Passed
  <2> QED
    BY <2>2, <2>4
<1>8. CASE DrainEnds
  <2>1. \A id \in DOMAIN m_pendingRequests :
          m_pendingRequests[id].kind = "app" => Completed(m_pendingRequests[id].call)
    BY <1>a, <1>8 DEF DrainEnds, PassedAreAnswered, Passed
  <2>2. \A c \in 1..calls : Completed(c)
    BY <1>a, <2>1, HeldEntry DEF NoCallbackLost
  <2> QED
    BY <1>b, <1>c, <1>8, <2>2 DEF DrainEnds, PassedAreAnswered, NoCallbackLost
<1>9. ASSUME NEW id, NEW outcome, EntryTaken(id, outcome)
      PROVE  PassedAreAnswered' /\ NoCallbackLost'
  <2>1. PassedAreAnswered'
    BY <1>9 DEF EntryTaken, PassedAreAnswered, Passed
  <2>2. ASSUME NEW c \in 1..calls, ~Completed(c)
        PROVE  Completed(c)' \/ Held(c)'
    <3>1. Held(c)
      BY <1>a, <2>2 DEF NoCallbackLost
    <3>2. PICK i \in DOMAIN m_pendingRequests : m_pendingRequests[i] = AppCallback(c)
      BY <3>1 DEF Held
    <3>3. CASE i # id
      BY <1>9, <3>2, <3>3 DEF EntryTaken, Held
    <3>4. CASE i = id
      <4>1. Answer(c, outcome) /\ outcome \in Outcomes
        BY <1>9, <3>2, <3>4 DEF EntryTaken, AppCallback
      <4>2. completions'[c] = <<outcome>>
        BY <1>a, <1>b, <2>2, <4>1, FirstAnswer
      <4> QED
        BY <4>2 DEF Completed
    <3> QED
      BY <3>3, <3>4
  <2> QED
    BY <1>b, <1>c, <1>9, <2>1, <2>2 DEF EntryTaken, NoCallbackLost
<1> QED
  BY <1>1, <1>2, <1>3, <1>4, <1>5, <1>6, <1>7, <1>8, <1>9 DEF StepEffect

LEMMA KeptInvInductive ==
  ASSUME "retryOnFailure" \notin Usage
  PROVE  /\ Init => KeptInv
         /\ KeptInv /\ [Next]_vars => KeptInv'
<1>1. ASSUME Init PROVE KeptInv
  <2>1. DOMAIN m_pendingRequests = {} /\ calls = 0
    BY <1>1 DEF Init, NoEntries
  <2> QED
    BY <1>1, <2>1, OnceInvInductive DEF KeptInv, PassedAreAnswered, NoCallbackLost
<1>2. ASSUME KeptInv, [Next]_vars PROVE KeptInv'
  BY <1>2, KeptStep, OnceInvInductive DEF KeptInv
<1> QED
  BY <1>1, <1>2

\* Every call of an application that makes no request while it is told of a
\* failure is answered or still in the table.
THEOREM NoCallbackLostHolds ==
  ASSUME "retryOnFailure" \notin Usage
  PROVE  Spec => []NoCallbackLost
<1>1. KeptInv => NoCallbackLost
  BY DEF KeptInv
<1> QED
  BY <1>1, KeptInvInductive, PTL DEF Spec

\* For the same applications, an entry that onDisconnected has passed has had its
\* callback, so that clearing the table at the end of the walk loses nothing.
THEOREM PassedAreAnsweredHolds ==
  ASSUME "retryOnFailure" \notin Usage
  PROVE  Spec => []PassedAreAnswered
<1>1. KeptInv => PassedAreAnswered
  BY DEF KeptInv
<1> QED
  BY <1>1, KeptInvInductive, PTL DEF Spec

----------------------------------------------------------------------------
(* The connected flag and the socket.                                      *)

\* An operation of the application keeps the flag and the socket in agreement, as
\* long as it does not reopen a socket that is closing.
LEMMA AppKeepsConnectedOpen ==
  ASSUME "reopenWhileClosing" \notin Usage, TypeInv, ConnectedMeansOpen, AppStep
  PROVE  ConnectedMeansOpen'
<1> USE DEF serviceVars, stackVars
<1>1. ASSUME UNCHANGED <<m_connected, control, socket>>
      PROVE  ConnectedMeansOpen'
  BY <1>1 DEF ConnectedMeansOpen
<1>2. ASSUME NEW url \in ServerUrls, setServerUrl(url)
      PROVE  ConnectedMeansOpen'
  BY <1>1, <1>2 DEF setServerUrl
<1>3. CASE connectToSocket
  <2>1. socket = "unconnected" /\ UNCHANGED <<m_connected, control>>
    BY <1>3 DEF connectToSocket
  <2> QED
    BY <2>1 DEF ConnectedMeansOpen
<1>4. CASE disconnectFromSocket
  <2>1. CASE BeginDrain
    BY <2>1 DEF BeginDrain, ConnectedMeansOpen
  <2>2. CASE ~BeginDrain
    BY <1>4, <2>2 DEF disconnectFromSocket, ConnectedMeansOpen
  <2> QED
    BY <2>1, <2>2
<1>5. ASSUME NEW method \in Methods, request(method) \/ requestNoCallback(method)
      PROVE  ConnectedMeansOpen'
  BY <1>1, <1>5 DEF request, requestNoCallback, SendRequests
<1>6. ASSUME NEW t \in Topics, subscribe(t) \/ unsubscribe(t) \/ publish(t)
      PROVE  ConnectedMeansOpen'
  BY <1>1, <1>6 DEF subscribe, unsubscribe, publish, SendTopicRequest, SendRequests
<1> QED
  BY <1>2, <1>3, <1>4, <1>5, <1>6 DEF AppStep

\* So does every other step.
LEMMA OthersKeepConnectedOpen ==
  ASSUME TypeInv, ConnectedMeansOpen, [Next]_vars, ~AppStep
  PROVE  ConnectedMeansOpen'
<1> USE DEF ConnectedMeansOpen, serviceVars
<1>1. CASE resubscribeAll
  BY <1>1 DEF resubscribeAll, SendRequests
<1>2. CASE failNext
  BY <1>2 DEF failNext
<1>3. CASE finishDisconnect
  BY <1>3 DEF finishDisconnect, MarkDown
<1>4. CASE onConnected
  BY <1>4 DEF onConnected
<1>5. CASE onDisconnected
  BY <1>5 DEF onDisconnected, BeginDrain
<1>6. ASSUME NEW message, dispatchMessage(message)
      PROVE  ConnectedMeansOpen'
  BY <1>6 DEF dispatchMessage
<1>7. CASE UNCHANGED vars
  BY <1>7 DEF vars
<1> QED
  BY <1>1, <1>2, <1>3, <1>4, <1>5, <1>6, <1>7 DEF Next, LoopStep, SocketStep

\* connected() is true only over a socket that is up or shutting down, for an
\* application that does not reopen one that is.
THEOREM ConnectedMeansOpenHolds ==
  ASSUME "reopenWhileClosing" \notin Usage
  PROVE  Spec => []ConnectedMeansOpen
<1>1. Init => TypeInv /\ ConnectedMeansOpen
  BY InitTypeInv DEF Init, ConnectedMeansOpen
<1>2. TypeInv /\ ConnectedMeansOpen /\ [Next]_vars => (TypeInv /\ ConnectedMeansOpen)'
  BY TypeInvStep, AppKeepsConnectedOpen, OthersKeepConnectedOpen
<1> QED
  BY <1>1, <1>2, PTL DEF Spec

----------------------------------------------------------------------------
(* Callbacks that can be called.                                           *)

AllCallable == \A id \in DOMAIN m_pendingRequests : m_pendingRequests[id].kind # "empty"

CallableInv == TypeInv /\ AllCallable /\ NoCrash

\* The requests that are sent with a callback leave a table of callbacks.
LEMMA SendingKeepsCallable ==
  ASSUME AllCallable, NEW requests, NEW callback, callback.kind # "empty",
         SendRequests(requests, callback)
  PROVE  AllCallable'
BY DEF AllCallable, SendRequests, PutAll

\* An operation of an application that passes no empty callback keeps the table so,
\* and runs no callback of the table.
LEMMA AppKeepsCallable ==
  ASSUME "emptyCallback" \notin Usage, CallableInv, AppStep
  PROVE  AllCallable' /\ NoCrash'
<1> USE DEF serviceVars, stackVars, NoCrash
<1>a. AllCallable /\ NoCrash
  BY DEF CallableInv
<1>b. LogCallback.kind # "empty" /\ \A c : AppCallback(c).kind # "empty"
  BY DEF LogCallback, AppCallback
<1>1. ASSUME UNCHANGED <<m_pendingRequests, control>>
      PROVE  AllCallable' /\ NoCrash'
  BY <1>a, <1>1 DEF AllCallable
<1>2. ASSUME NEW url \in ServerUrls, setServerUrl(url)
      PROVE  AllCallable' /\ NoCrash'
  BY <1>1, <1>2 DEF setServerUrl
<1>3. CASE connectToSocket
  BY <1>1, <1>3 DEF connectToSocket
<1>4. CASE disconnectFromSocket
  <2>1. UNCHANGED m_pendingRequests /\ (UNCHANGED control \/ control' = "draining")
    BY <1>4 DEF disconnectFromSocket, BeginDrain
  <2> QED
    BY <1>a, <2>1 DEF AllCallable
<1>5. ASSUME NEW method \in Methods, request(method)
      PROVE  AllCallable' /\ NoCrash'
  <2>1. UNCHANGED control
    BY <1>5 DEF request
  <2>2. CASE ~m_connected
    BY <1>1, <1>5, <2>1, <2>2 DEF request
  <2>3. CASE m_connected
    BY <1>a, <1>b, <1>5, <2>1, <2>3, SendingKeepsCallable DEF request
  <2> QED
    BY <2>2, <2>3
<1>6. ASSUME NEW method \in Methods, requestNoCallback(method)
      PROVE  FALSE
  BY <1>6 DEF requestNoCallback
<1>7. ASSUME NEW t \in Topics, NEW method, SendTopicRequest(method, t), UNCHANGED control
      PROVE  AllCallable' /\ NoCrash'
  <2>1. CASE UNCHANGED serviceVars
    BY <1>1, <1>7, <2>1
  <2>2. CASE SendRequests(<<TopicRequest(method, t)>>, LogCallback)
    BY <1>a, <1>b, <1>7, <2>2, SendingKeepsCallable
  <2> QED
    BY <1>7, <2>1, <2>2 DEF SendTopicRequest
<1>8. ASSUME NEW t \in Topics, subscribe(t) \/ unsubscribe(t) \/ publish(t)
      PROVE  AllCallable' /\ NoCrash'
  BY <1>1, <1>7, <1>8 DEF subscribe, unsubscribe, publish
<1> QED
  BY <1>2, <1>3, <1>4, <1>5, <1>6, <1>8 DEF AppStep

\* So does every other step: a response finds a callback.
LEMMA OthersKeepCallable ==
  ASSUME CallableInv, [Next]_vars, ~AppStep
  PROVE  AllCallable' /\ NoCrash'
<1> USE DEF serviceVars, NoCrash
<1>a. AllCallable /\ NoCrash
  BY DEF CallableInv
<1>1. CASE resubscribeAll
  <2>1. UNCHANGED control
    BY <1>1 DEF resubscribeAll
  <2>2. CASE UNCHANGED serviceVars
    BY <1>a, <2>1, <2>2 DEF AllCallable
  <2>3. CASE ~UNCHANGED serviceVars
    <3>1. LogCallback.kind # "empty"
      BY DEF LogCallback
    <3> QED
      BY <1>a, <1>1, <2>1, <2>3, <3>1, SendingKeepsCallable DEF resubscribeAll
  <2> QED
    BY <2>2, <2>3
<1>2. CASE failNext
  <2>1. UNCHANGED m_pendingRequests /\ control' \in {"callback", "draining"}
    BY <1>2 DEF failNext
  <2> QED
    BY <1>a, <2>1 DEF AllCallable
<1>3. CASE finishDisconnect
  BY <1>3 DEF finishDisconnect, MarkDown, NoEntries, AllCallable
<1>4. CASE onConnected \/ onDisconnected
  <2>1. UNCHANGED m_pendingRequests /\ (UNCHANGED control \/ control' = "draining")
    BY <1>4 DEF onConnected, onDisconnected, BeginDrain
  <2> QED
    BY <1>a, <2>1 DEF AllCallable
<1>5. ASSUME NEW message, dispatchMessage(message)
      PROVE  AllCallable' /\ NoCrash'
  <2>1. CASE Ignore(message)
    BY <1>a, <2>1 DEF Ignore, AllCallable
  <2>2. CASE TakeResponse(message)
    <3> DEFINE id == ResponseKey(message)
    <3>1. id \in DOMAIN m_pendingRequests /\ m_pendingRequests[id].kind # "empty"
      BY <1>a, <2>2 DEF TakeResponse, AllCallable
    <3>2. UNCHANGED control
      BY <2>2, <3>1 DEF TakeResponse
    <3>3. TakeEntry(id)
      BY <2>2 DEF TakeResponse
    <3> HIDE DEF id
    <3>4. AllCallable'
      BY <1>a, <3>3 DEF TakeEntry, Restrict, AllCallable
    <3> QED
      BY <1>a, <3>2, <3>4
  <2> QED
    BY <1>5, <2>1, <2>2 DEF dispatchMessage
<1>6. CASE UNCHANGED vars
  BY <1>a, <1>6 DEF vars, AllCallable
<1> QED
  BY <1>1, <1>2, <1>3, <1>4, <1>5, <1>6 DEF Next, LoopStep, SocketStep

\* For an application that passes no empty callback, every response finds a callback
\* that can be called, those to the service's own subscriptions included.
THEOREM NoCrashHolds ==
  ASSUME "emptyCallback" \notin Usage
  PROVE  Spec => []NoCrash
<1>1. Init => CallableInv
  BY InitTypeInv DEF Init, NoEntries, CallableInv, AllCallable, NoCrash
<1>2. CallableInv /\ [Next]_vars => CallableInv'
  BY TypeInvStep, AppKeepsCallable, OthersKeepCallable DEF CallableInv
<1>3. CallableInv => NoCrash
  BY DEF CallableInv
<1> QED
  BY <1>1, <1>2, <1>3, PTL DEF Spec

----------------------------------------------------------------------------
(* The service implements the ledger. *)

Owed == {c \in 1..calls : ~Completed(c)}

LEMMA OwedIsOutstanding ==
  ASSUME KeptInv
  PROVE  {c \in Calls : Outstanding(c)} = Owed
<1>1. TypeInv /\ EntriesAnswerable /\ NoCallbackLost
  BY DEF KeptInv, OnceInv
<1>2. 1..calls \subseteq Calls
  BY <1>1, BoundsAssumption DEF TypeInv, TypeOK, Calls
<1>3. \A c : Held(c) => c \in 1..calls
  BY <1>1, HeldEntry DEF EntriesAnswerable
<1> QED
  BY <1>1, <1>2, <1>3 DEF Outstanding, Owed, NoCallbackLost

LEMMA OwedNextIsOutstanding ==
  ASSUME KeptInv'
  PROVE  {c \in Calls : Outstanding(c)}' = Owed'
<1>1. (KeptInv => {c \in Calls : Outstanding(c)} = Owed)'
  BY OwedIsOutstanding, PTL
<1> QED
  BY <1>1

LEMMA LedgerInit == Init => Ledger!Init
<1> SUFFICES ASSUME Init PROVE Ledger!Init
  OBVIOUS
<1>1. DOMAIN m_pendingRequests = {} /\ calls = 0
  BY DEF Init, NoEntries
<1>2. 1..calls = {} /\ {c \in Calls : Outstanding(c)} = {}
  BY <1>1 DEF Outstanding, Held
<1>3. completions = [c \in Calls |-> <<>>]
  BY DEF Init
<1> QED
  BY <1>2, <1>3 DEF Ledger!Init

\* A call is answered that was owed an answer.
LEMMA LedgerComplete ==
  ASSUME KeptInv, KeptInv', NEW c \in 1..calls, NEW outcome \in Outcomes,
         ~Completed(c), Answer(c, outcome), UNCHANGED calls
  PROVE  Ledger!Next
<1>1. TypeInv /\ AnsweredOnce
  BY DEF KeptInv, OnceInv
<1>2. c \in Calls
  BY <1>1, BoundsAssumption DEF TypeInv, TypeOK, Calls
<1>3. /\ completions'[c] = <<outcome>>
      /\ \A d \in Calls \ {c} : completions'[d] = completions[d]
  BY <1>1, <1>2, FirstAnswer
<1>4. 1..calls \subseteq Calls
  BY <1>1, BoundsAssumption DEF TypeInv, TypeOK, Calls
<1>5. Owed' = Owed \ {c}
  BY <1>3, <1>4 DEF Owed, Completed
<1>6. c \in Owed
  BY DEF Owed
<1>7. Ledger!Complete(c, outcome)
  BY <1>5, <1>6, OwedIsOutstanding, OwedNextIsOutstanding DEF Ledger!Complete, Answer
<1> QED
  BY <1>2, <1>7 DEF Ledger!Next

LEMMA LedgerStep ==
  ASSUME KeptInv, KeptInv', [Next]_vars
  PROVE  [Ledger!Next]_(Ledger!ledgerVars)
<1>a. TypeInv /\ EntriesAnswerable /\ AnsweredOnce
  BY DEF KeptInv, OnceInv
<1>b. 1..calls \subseteq Calls /\ calls \in Nat
  BY <1>a, BoundsAssumption DEF TypeInv, TypeOK, Calls
<1>c. Disconnected \in Outcomes
  BY DEF Outcomes
<1>d. {c \in Calls : Outstanding(c)} = Owed /\ {c \in Calls : Outstanding(c)}' = Owed'
  BY OwedIsOutstanding, OwedNextIsOutstanding
<1>1. StepEffect
  BY <1>a, NextEffect
<1>2. CASE UNCHANGED <<calls, completions>>
  <2>1. Owed' = Owed
    BY <1>2 DEF Owed, Completed
  <2> QED
    BY <1>2, <1>d, <2>1 DEF Ledger!ledgerVars
<1>3. CASE Refusal
  <2>1. calls + 1 \in Calls /\ ~Completed(calls + 1)
    BY <1>a, <1>b, <1>3 DEF Refusal, EntriesAnswerable
  <2>2. /\ completions'[calls + 1] = <<Disconnected>>
        /\ \A d \in Calls \ {calls + 1} : completions'[d] = completions[d]
    BY <1>a, <1>c, <1>3, <2>1, FirstAnswer DEF Refusal
  <2>3. 1..calls' = (1..calls) \cup {calls + 1} /\ calls + 1 \notin 1..calls
    BY <1>b, <1>3 DEF Refusal
  <2>4. \A d \in 1..calls : Completed(d)' <=> Completed(d)
    BY <1>b, <2>2, <2>3 DEF Completed
  <2>6. completions'[calls'] # <<>>
    BY <1>3, <2>2 DEF Refusal
  <2>7. Owed' = Owed
    BY <1>3, <2>3, <2>4, <2>6 DEF Refusal, Owed, Completed
  <2>8. completions' = [completions EXCEPT ![calls + 1] = <<Disconnected>>]
    BY <1>a, <2>1, <2>2, <1>3 DEF Refusal, Answer, TypeInv, TypeOK
  <2>9. Ledger!Refuse(calls + 1, Disconnected)
    BY <1>d, <2>1, <2>3, <2>7, <2>8 DEF Ledger!Refuse
  <2> QED
    BY <1>c, <2>1, <2>9 DEF Ledger!Next
<1>4. ASSUME NEW id, Acceptance(id)
      PROVE  Ledger!Next
  <2>1. calls + 1 \in Calls /\ ~Completed(calls + 1) /\ UNCHANGED completions
    BY <1>a, <1>b, <1>4 DEF Acceptance, EntriesAnswerable
  <2>2. 1..calls' = (1..calls) \cup {calls + 1} /\ calls + 1 \notin 1..calls
    BY <1>b, <1>4 DEF Acceptance
  <2>3. Owed' = Owed \cup {calls + 1}
    BY <2>1, <2>2 DEF Owed, Completed
  <2>4. Ledger!Accept(calls + 1)
    BY <1>d, <2>1, <2>2, <2>3 DEF Ledger!Accept
  <2> QED
    BY <2>1, <2>4 DEF Ledger!Next
<1>5. ASSUME NEW id, EntryFailed(id), ~UNCHANGED completions
      PROVE  Ledger!Next
  <2>1. /\ id \in DOMAIN m_pendingRequests /\ ~Passed(id)
        /\ m_pendingRequests[id].kind = "app"
        /\ Answer(m_pendingRequests[id].call, Disconnected) /\ UNCHANGED calls
    BY <1>a, <1>5 DEF EntryFailed, Passed, TypeInv, TypeOK
  <2>2. m_pendingRequests[id].call \in 1..calls /\ ~Completed(m_pendingRequests[id].call)
    BY <1>a, <2>1 DEF EntriesAnswerable
  <2> QED
    BY <1>c, <2>1, <2>2, LedgerComplete
<1>6. ASSUME NEW id, NEW outcome, EntryTaken(id, outcome), ~UNCHANGED completions
      PROVE  Ledger!Next
  <2>1. /\ id \in DOMAIN m_pendingRequests /\ ~Passed(id)
        /\ m_pendingRequests[id].kind = "app" /\ outcome \in Outcomes
        /\ Answer(m_pendingRequests[id].call, outcome) /\ UNCHANGED calls
    BY <1>6 DEF EntryTaken, Passed
  <2>2. m_pendingRequests[id].call \in 1..calls /\ ~Completed(m_pendingRequests[id].call)
    BY <1>a, <2>1 DEF EntriesAnswerable
  <2> QED
    BY <2>1, <2>2, LedgerComplete
<1> QED
  BY <1>1, <1>2, <1>3, <1>4, <1>5, <1>6
     DEF StepEffect, TableUntouched, tableVars, DrainBegins, OwnRequests, DrainEnds,
         EntryFailed, EntryTaken

\* The client service implements RequestLedger: each call is answered once or
\* refused at once, and leaves the table only by being answered.
THEOREM ImplementsLedger ==
  ASSUME "retryOnFailure" \notin Usage
  PROVE  Spec => LedgerSpec
<1>1. KeptInv /\ KeptInv' /\ [Next]_vars => [Ledger!Next]_(Ledger!ledgerVars)
  BY LedgerStep
<1> QED
  BY <1>1, KeptInvInductive, LedgerInit, PTL DEF Spec, LedgerSpec, Ledger!Spec
=============================================================================
