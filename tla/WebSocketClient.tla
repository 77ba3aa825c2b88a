-------------------------- MODULE WebSocketClient --------------------------
(***************************************************************************)
(* Client::Service (websocket/client/Service.cpp): a WebSocket client that *)
(* correlates responses with requests by id, fails what is pending when    *)
(* the socket goes down, and restores its subscriptions when it comes up.  *)
(*                                                                         *)
(* All code runs on one event loop.  An action is what runs between two    *)
(* points where code of the application may be called and call back into   *)
(* the service: the callbacks onDisconnected runs while it walks the       *)
(* pending table, and the connectedChanged handlers that run before        *)
(* resubscribeAll.  "control" and inOnConnected are that call stack.       *)
(*                                                                         *)
(* A definition X_Y is X with the mistake Y.  The specification uses none  *)
(* of them: each is what a property of the runs is shown to detect.        *)
(***************************************************************************)
EXTENDS Frame, SequencesExt

CONSTANTS
  ServerUrls,      \* urls the application configures, "" among them or not
  Methods,         \* methods the application requests
  Topics,          \* topics the application subscribes to and publishes
  ErrorTexts,      \* error messages the peer answers with
  Usage,           \* liberties the application takes, see UsageAssumption
  MaxCalls,        \* bound: request() calls with a callback
  MaxRequests,     \* bound: the application makes no request beyond this id
  MaxConnections,  \* bound: connections established
  MaxFrames        \* bound: publish() leaves a connection's log this short

ASSUME BoundsAssumption ==
  /\ MaxCalls \in Nat \ {0}
  /\ MaxRequests \in Nat
  /\ MaxConnections \in Nat \ {0}
  /\ MaxFrames \in Nat

ASSUME VocabularyAssumption ==
  /\ ServerUrls \subseteq STRING
  /\ Methods \subseteq allMethods
  /\ Topics \subseteq allTopics
  /\ ErrorTexts \subseteq STRING \ {NoText}

\* "retryOnFailure":      calls request() from a callback that onDisconnected runs
\* "reopenWhileClosing":  calls connectToSocket() while the closing handshake is under way
\* "emptyCallback":       passes an empty std::function to request()
ASSUME UsageAssumption ==
  Usage \subseteq {"retryOnFailure", "reopenWhileClosing", "emptyCallback"}

VARIABLES
  m_serverUrl,
  m_connected,
  m_nextRequestId,
  m_pendingRequests,   \* request id -> callback
  m_subscribedTopics,  \* list without duplicates
  socket,              \* state of m_webSocket
  conn,                \* number of the latest connection established
  wire,                \* for each connection, the frames the service sent on it
  control,             \* "idle", "draining" or "callback" in onDisconnected, "crashed"
  inOnConnected,       \* onConnected is on the stack, its handlers running
  visit,               \* ids onDisconnected's iterator has yet to reach
  calls,               \* request() calls made with a callback
  completions          \* for each call, the callbacks it has received, in order

vars == <<m_serverUrl, m_connected, m_nextRequestId, m_pendingRequests, m_subscribedTopics,
          socket, conn, wire, control, inOnConnected, visit, calls, completions>>

serviceVars == <<m_connected, m_nextRequestId, m_pendingRequests, wire>>
stackVars == <<control, inOnConnected>>
callVars == <<calls, completions>>

Calls == 1..MaxCalls
Connections == 1..MaxConnections

Callbacks == [kind : {"app", "log", "empty"}, call : 0..MaxCalls]
AppCallback(c) == [kind |-> "app", call |-> c]
LogCallback_Omitted == [kind |-> "empty", call |-> 0]
LogCallback == [kind |-> "log", call |-> 0]      \* subscribe's and unsubscribe's own
EmptyCallback == [kind |-> "empty", call |-> 0]

NoEntries == [id \in {} |-> LogCallback]

Payloads == Objects(Topics, 0..MaxCalls)   \* a call's params are its number
Success(value) == [ok |-> TRUE, result |-> value, error |-> NoText]
Failure(text) == [ok |-> FALSE, result |-> EmptyObject, error |-> text]
Disconnected == Failure("Disconnected")
Outcomes == {Success(v) : v \in Payloads} \cup {Failure(e) : e \in ErrorTexts} \cup {Disconnected}

SocketStates == {"unconnected", "connecting", "aborting", "connected", "closing"}

TypeOK ==
  /\ m_serverUrl \in ServerUrls
  /\ m_connected \in BOOLEAN
  /\ m_nextRequestId \in Nat \ {0}
  /\ DOMAIN m_pendingRequests \subseteq 1..(m_nextRequestId - 1)
  /\ \A id \in DOMAIN m_pendingRequests : m_pendingRequests[id] \in Callbacks
  /\ m_subscribedTopics \in Seq(Topics)
  /\ socket \in SocketStates
  /\ conn \in 0..MaxConnections
  /\ wire \in [Connections -> Seq(Frames(Payloads, ErrorTexts))]
  /\ control \in {"idle", "draining", "callback", "crashed"}
  /\ inOnConnected \in BOOLEAN
  /\ visit \subseteq DOMAIN m_pendingRequests
  /\ calls \in 0..MaxCalls
  /\ completions \in [Calls -> Seq(Outcomes)]

Init ==
  /\ m_serverUrl \in ServerUrls
  /\ m_connected = FALSE
  /\ m_nextRequestId = 1
  /\ m_pendingRequests = NoEntries
  /\ m_subscribedTopics = <<>>
  /\ socket = "unconnected"
  /\ conn = 0
  /\ wire = [n \in Connections |-> <<>>]
  /\ control = "idle"
  /\ inOnConnected = FALSE
  /\ visit = {}
  /\ calls = 0
  /\ completions = [c \in Calls |-> <<>>]

\* Code of the application runs: at top level, in a connectedChanged handler,
\* or in a callback of onDisconnected.
AppRunning == control \in {"idle", "callback"}

\* No code runs: the event loop may deliver the next event.
EventLoop == control = "idle" /\ ~inOnConnected

----------------------------------------------------------------------------
(* Sending.  QWebSocket drops what it is given while it is not connected.  *)

Transmit(frames) ==
  wire' = IF socket = "connected" THEN [wire EXCEPT ![conn] = @ \o frames] ELSE wire

PutAll(table, keys, value) ==
  [k \in DOMAIN table \cup keys |-> IF k \in keys THEN value ELSE table[k]]

IdAfter_NotAdvanced(n) == m_nextRequestId
IdAfter(n) == m_nextRequestId + n

\* The part of request() that a connected service runs, for a sequence of
\* requests that share a callback: ids from the counter, pending entries, frames.
SendRequests(requests, callback) ==
  LET n == Len(requests) IN
  /\ m_nextRequestId' = IdAfter(n)
  /\ m_pendingRequests' =
       PutAll(m_pendingRequests, m_nextRequestId..(m_nextRequestId + n - 1), callback)
  /\ Transmit([i \in 1..n |->
       buildRequest(NumberId(m_nextRequestId + i - 1), requests[i].method, requests[i].params)])
  /\ UNCHANGED m_connected

TopicRequest(method, t) ==
  [method |-> method, params |-> TextObject("topic", topicToString(t))]

\* An entry added while onDisconnected iterates lands before or after the
\* iterator: whether it will be visited depends on the hash.  (An insertion that
\* makes the table rehash could also move the old entries under the iterator; a
\* table of fewer than 64 entries does not rehash.)
VisitMayGrow(ids) ==
  visit' \in IF control = "callback" THEN {visit, visit \cup ids} ELSE {visit}

Answer(c, outcome) == completions' = [completions EXCEPT ![c] = Append(@, outcome)]

----------------------------------------------------------------------------
(* The interface of the service. *)

setServerUrl(url) ==
  /\ AppRunning
  /\ m_serverUrl # url
  /\ m_serverUrl' = url
  /\ UNCHANGED <<m_subscribedTopics, socket, conn, visit, serviceVars, stackVars, callVars>>

\* Only a Connected or Connecting socket is left alone; open() on a closing one
\* drops the old connection without a disconnected signal.
connectToSocket ==
  /\ AppRunning
  /\ m_serverUrl # ""
  /\ socket \in {"unconnected", "closing"}
  /\ socket = "closing" => "reopenWhileClosing" \in Usage
  /\ conn < MaxConnections
  /\ socket' = "connecting"
  /\ UNCHANGED <<m_serverUrl, m_subscribedTopics, conn, visit, serviceVars, stackVars, callVars>>

EntriesToFail_None == {}
EntriesToFail == DOMAIN m_pendingRequests

\* onDisconnected starts to walk the pending table.
BeginDrain ==
  /\ socket' = "unconnected"
  /\ control' = "draining"
  /\ visit' = EntriesToFail
  /\ UNCHANGED <<m_serverUrl, m_subscribedTopics, conn, inOnConnected, serviceVars, callVars>>

\* close(): the socket goes down at once and onDisconnected runs before close
\* returns, or the handshake waits for the write buffer, or, with no transport
\* yet, the connection attempt is left to die.
disconnectFromSocket ==
  /\ AppRunning
  /\ \/ /\ \/ control = "idle" /\ socket \in {"connected", "closing"}
           \/ EventLoop /\ socket = "connecting"
        /\ BeginDrain
     \/ /\ \/ socket = "connected" /\ socket' = "closing"
           \/ socket = "connecting" /\ socket' = "aborting"
        /\ UNCHANGED <<m_serverUrl, m_subscribedTopics, conn, visit, serviceVars, stackVars, callVars>>

request(method) ==
  LET c == calls + 1 IN
  /\ AppRunning
  /\ control = "callback" => "retryOnFailure" \in Usage
  /\ c \in Calls
  /\ calls' = c
  /\ \/ /\ ~m_connected
        /\ Answer(c, Disconnected)
        /\ UNCHANGED <<serviceVars, visit>>
     \/ /\ m_connected
        /\ m_nextRequestId <= MaxRequests
        /\ SendRequests(<<[method |-> method, params |-> AppObject(c)]>>, AppCallback(c))
        /\ VisitMayGrow({m_nextRequestId})
        /\ UNCHANGED completions
  /\ UNCHANGED <<m_serverUrl, m_subscribedTopics, socket, conn, stackVars>>

\* request() with an empty callback: refused silently when disconnected.
requestNoCallback(method) ==
  /\ "emptyCallback" \in Usage
  /\ AppRunning
  /\ m_connected
  /\ m_nextRequestId <= MaxRequests
  /\ SendRequests(<<[method |-> method, params |-> EmptyObject]>>, EmptyCallback)
  /\ VisitMayGrow({m_nextRequestId})
  /\ UNCHANGED <<m_serverUrl, m_subscribedTopics, socket, conn, stackVars, callVars>>

publish(t) ==
  /\ AppRunning
  /\ m_connected
  /\ conn > 0 /\ Len(wire[conn]) < MaxFrames
  /\ Transmit(<<buildPublish(t, EmptyObject)>>)
  /\ UNCHANGED <<m_serverUrl, m_subscribedTopics, socket, conn, visit, stackVars, callVars,
                 m_connected, m_nextRequestId, m_pendingRequests>>

\* What subscribe and unsubscribe send once the list is updated.
SendTopicRequest(method, t) ==
  \/ /\ ~m_connected
     /\ UNCHANGED <<serviceVars, visit>>
  \/ /\ m_connected
     /\ m_nextRequestId <= MaxRequests
     /\ SendRequests(<<TopicRequest(method, t)>>, LogCallback)
     /\ VisitMayGrow({m_nextRequestId})

WithTopic_OnlyWhenDown(t) ==
  IF m_connected \/ Contains(m_subscribedTopics, t)
  THEN m_subscribedTopics ELSE Append(m_subscribedTopics, t)

WithTopic(t) ==
  IF Contains(m_subscribedTopics, t)
  THEN m_subscribedTopics ELSE Append(m_subscribedTopics, t)

subscribe(t) ==
  /\ AppRunning
  /\ m_subscribedTopics' = WithTopic(t)
  /\ SendTopicRequest("Subscribe", t)
  /\ UNCHANGED <<m_serverUrl, socket, conn, stackVars, callVars>>

\* removeAll: the list holds a topic once.
WithoutTopic(t) ==
  IF Contains(m_subscribedTopics, t)
  THEN RemoveAt(m_subscribedTopics,
                CHOOSE i \in 1..Len(m_subscribedTopics) : m_subscribedTopics[i] = t)
  ELSE m_subscribedTopics

unsubscribe(t) ==
  /\ AppRunning
  /\ m_subscribedTopics' = WithoutTopic(t)
  /\ SendTopicRequest("Unsubscribe", t)
  /\ UNCHANGED <<m_serverUrl, socket, conn, stackVars, callVars>>

----------------------------------------------------------------------------
(* The socket comes up and goes down. *)

\* m_connected is set and connectedChanged emitted: its handlers start to run.
onConnected ==
  /\ EventLoop
  /\ socket = "connecting"
  /\ socket' = "connected"
  /\ conn' = conn + 1
  /\ m_connected' = TRUE
  /\ inOnConnected' = TRUE
  /\ UNCHANGED <<m_serverUrl, m_subscribedTopics, m_nextRequestId, m_pendingRequests, wire,
                 control, visit, callVars>>

\* The handlers have returned: a subscribe request for each topic of the list.
\* request() refuses them when a handler has brought the socket down.
resubscribeAll ==
  /\ control = "idle" /\ inOnConnected
  /\ inOnConnected' = FALSE
  /\ \/ m_connected /\ SendRequests([i \in 1..Len(m_subscribedTopics) |->
                                       TopicRequest("Subscribe", m_subscribedTopics[i])], LogCallback)
     \/ ~m_connected /\ UNCHANGED serviceVars
  /\ UNCHANGED <<m_serverUrl, m_subscribedTopics, socket, conn, control, visit, callVars>>

\* The socket goes down by itself: the peer or the network closed it, the
\* attempt failed, or the closing it was asked for completes.
onDisconnected ==
  /\ EventLoop
  /\ socket # "unconnected"
  /\ BeginDrain

\* The iterator reaches a pending entry and runs its callback, if there is one.
failNext ==
  /\ control \in {"draining", "callback"}
  /\ \E id \in visit :
       LET callback == m_pendingRequests[id] IN
       /\ visit' = visit \ {id}
       /\ \/ /\ callback.kind = "app"
             /\ Answer(callback.call, Disconnected)
             /\ control' = "callback"
          \/ /\ callback.kind # "app"
             /\ control' = "draining"
             /\ UNCHANGED completions
  /\ UNCHANGED <<m_serverUrl, m_subscribedTopics, socket, conn, inOnConnected, serviceVars, calls>>

MarkDown_StaysConnected == m_pendingRequests' = NoEntries /\ UNCHANGED m_connected
MarkDown == m_pendingRequests' = NoEntries /\ m_connected' = FALSE

\* The iterator is at the end: clear() and m_connected = false.  The handlers of
\* connectedChanged run last, so their calls are calls from the idle service.
finishDisconnect ==
  /\ control \in {"draining", "callback"}
  /\ visit = {}
  /\ MarkDown
  /\ control' = "idle"
  /\ UNCHANGED <<m_serverUrl, m_subscribedTopics, m_nextRequestId, socket, conn, wire,
                 inOnConnected, visit, callVars>>

----------------------------------------------------------------------------
(* A frame arrives. *)

Outcome(message) ==
  IF parseErrorMessage(message) # NoText THEN Failure(parseErrorMessage(message))
                                     ELSE Success(parseResult(message))

ResponseKey_OldestRequest(message) ==
  IF DOMAIN m_pendingRequests = {} THEN EmptyKey
  ELSE CHOOSE i \in DOMAIN m_pendingRequests : \A j \in DOMAIN m_pendingRequests : i <= j

ResponseKey(message) == requestIdKey(parseId(message))

TakeEntry_LeavesIt(id) == UNCHANGED m_pendingRequests
TakeEntry(id) ==
  m_pendingRequests' = Restrict(m_pendingRequests, DOMAIN m_pendingRequests \ {id})

\* The response of a pending request: taken from the table, then its callback
\* runs.  An empty callback throws.
TakeResponse(message) ==
  LET id == ResponseKey(message)
      callback == m_pendingRequests[id] IN
  /\ isResponse(message)
  /\ id # EmptyKey
  /\ id \in DOMAIN m_pendingRequests
  /\ TakeEntry(id)
  /\ \/ callback.kind = "app" /\ Answer(callback.call, Outcome(message)) /\ UNCHANGED control
     \/ callback.kind = "log" /\ UNCHANGED <<completions, control>>
     \/ callback.kind = "empty" /\ control' = "crashed" /\ UNCHANGED completions

\* Everything else changes no state of the service: a response with no id or
\* an unknown one, a publish (emitted as publishReceived), an unknown type.
Ignore(message) ==
  /\ \/ ~isResponse(message)
     \/ ResponseKey(message) \notin DOMAIN m_pendingRequests
  /\ UNCHANGED <<m_pendingRequests, completions, control>>

dispatchMessage(message) ==
  /\ EventLoop
  /\ socket = "connected"
  /\ TakeResponse(message) \/ Ignore(message)
  /\ UNCHANGED <<m_serverUrl, m_connected, m_nextRequestId, m_subscribedTopics, socket, conn,
                 wire, inOnConnected, visit, calls>>

\* A peer confirms subscribe and unsubscribe by the topic; the result of any
\* other request is numbered after its params.
PeerResult(message) ==
  IF message.method = methodToString("Subscribe")
  THEN TextObject("subscribed", TopicMember(message.params))
  ELSE IF message.method = methodToString("Unsubscribe")
       THEN TextObject("unsubscribed", TopicMember(message.params))
       ELSE ResultOf(message.params)

\* What a peer may send: an answer, or several, to any request on this
\* connection, its id echoed as a number or as a string; an error it could not
\* attribute; a publish; a frame of an unknown type.
PeerFrames ==
  LET requests == {message \in ToSet(wire[conn]) : isRequest(message)}
      answers == {buildResponse(r.id, PeerResult(r)) : r \in requests}
                   \cup {buildErrorResponse(r.id, e) : r \in requests, e \in ErrorTexts}
  IN answers
     \cup {[a EXCEPT !.id.kind = "string"] : a \in answers}
     \cup {buildErrorResponse(NoId, e) : e \in ErrorTexts}
     \cup {buildPublish(t, EmptyObject) : t \in Topics}
     \cup {[buildResponse(NoId, EmptyObject) EXCEPT !.type = "unknown"]}

----------------------------------------------------------------------------

AppStep ==
  \/ \E url \in ServerUrls : setServerUrl(url)
  \/ connectToSocket
  \/ disconnectFromSocket
  \/ \E method \in Methods : request(method) \/ requestNoCallback(method)
  \/ \E t \in Topics : subscribe(t) \/ unsubscribe(t) \/ publish(t)

LoopStep == resubscribeAll \/ failNext \/ finishDisconnect

SocketStep == onConnected \/ onDisconnected

Next ==
  \/ AppStep
  \/ LoopStep
  \/ SocketStep
  \/ conn > 0 /\ \E message \in PeerFrames : dispatchMessage(message)

Spec == Init /\ [][Next]_vars

\* Handlers and callbacks return, a connection attempt succeeds or fails, and
\* a socket that is closing goes down.
Fairness ==
  /\ WF_vars(LoopStep)
  /\ WF_vars(SocketStep /\ socket = "connecting")
  /\ WF_vars(onDisconnected /\ socket \in {"closing", "aborting"})

FairSpec == Spec /\ Fairness

----------------------------------------------------------------------------
(* Properties. *)

Completed(c) == completions[c] # <<>>
Held(c) == \E id \in DOMAIN m_pendingRequests : m_pendingRequests[id] = AppCallback(c)
Outstanding(c) == Held(c) /\ ~Completed(c)

\* Request correlation: every request() call is answered once and never
\* forgotten, through disconnects, reconnects and duplicate responses.
Ledger == INSTANCE RequestLedger WITH
  issued <- 1..calls,
  outstanding <- {c \in Calls : Outstanding(c)}

LedgerSpec == Ledger!Spec

\* A call that has not been answered is still in the pending table, where a
\* response or the next disconnect will find it.
NoCallbackLost == \A c \in 1..calls : Completed(c) \/ Held(c)

\* No callback runs twice: not for a response and then the disconnect, not for a
\* response sent twice, whatever the application does in its callbacks.
AnsweredOnce == \A c \in Calls : Len(completions[c]) <= 1

\* A call answered with success was answered with the result of its own
\* request: the id of a request is never reused while an answer may be on its way.
AnswersMatch ==
  \A c \in Calls : \A i \in 1..Len(completions[c]) :
    completions[c][i].ok => completions[c][i].result = AppObject(c)

\* The calls whose request the service has put on a connection.
WasSent(c) == \E n \in Connections : \E i \in 1..Len(wire[n]) : wire[n][i].params = AppObject(c)

\* A call whose request has left the process is answered or still in the table,
\* whatever the application does in its callbacks: the only calls onDisconnected
\* can forget are those made while it walks the table, and they never left.
SentAreKept == \A c \in Calls : WasSent(c) => Completed(c) \/ Held(c)

\* What the call stack and the connection number say of the socket.
StackSound ==
  /\ control \notin {"draining", "callback"} => visit = {}
  /\ socket = "connected" => conn > 0
  /\ socket = "connecting" => conn < MaxConnections

\* What NoCallbackLost rests on: a pending entry stands for one call, its own,
\* which has been answered exactly when onDisconnected has passed the entry.
Passed(id) == control \in {"draining", "callback"} /\ id \notin visit

EntriesAnswerable ==
  /\ \A id \in DOMAIN m_pendingRequests : m_pendingRequests[id].kind = "app" =>
       /\ m_pendingRequests[id].call \in 1..calls
       /\ Completed(m_pendingRequests[id].call) => Passed(id)
       /\ \A other \in DOMAIN m_pendingRequests :
            m_pendingRequests[other] = m_pendingRequests[id] => other = id
  /\ \A c \in Calls : c > calls => ~Completed(c)

PassedAreAnswered ==
  \A id \in DOMAIN m_pendingRequests :
    m_pendingRequests[id].kind = "app" /\ Passed(id) => Completed(m_pendingRequests[id].call)

TopicFrames(frames, t) ==
  {i \in 1..Len(frames) :
     /\ frames[i].method \in {"subscribe", "unsubscribe"}
     /\ TopicMember(frames[i].params) = topicToString(t)}

\* The last thing the peer was told of topic t on this connection.
Announced(frames, t) ==
  \E i \in TopicFrames(frames, t) :
    /\ frames[i].method = "subscribe"
    /\ \A j \in TopicFrames(frames, t) : j <= i

\* Whenever no code of the service runs and the socket is up, the peer has been
\* told exactly the subscriptions the application holds, on this connection,
\* whatever the order of subscribe, unsubscribe, handlers and reconnects.
WireAgrees ==
  EventLoop /\ m_connected /\ socket = "connected" =>
    \A t \in Topics : Contains(m_subscribedTopics, t) <=> Announced(wire[conn], t)

\* connected() does not outlive the connection: it is true only over a socket
\* that is up or still shutting down.
ConnectedMeansOpen == control = "idle" /\ m_connected => socket \in {"connected", "closing"}

\* The process is alive: every response finds a callback that can be called, those to
\* the subscriptions that resubscribeAll sends without the application included.
NoCrash == control # "crashed"

\* A call that is waiting when the socket is no longer up is answered: by
\* onDisconnected at the latest.
DownMeansAnswered ==
  \A c \in Calls : Outstanding(c) /\ socket # "connected" ~> Completed(c)
=============================================================================
