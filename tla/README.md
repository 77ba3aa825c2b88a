# Verification of the clock communication library

TLA+ models of `communication/`, the C++/Qt library that the clock application and its
backend share: a JSON-RPC contract, a WebSocket client and server that speak it, a helper
that starts subscriptions, a REST client and server, and the device configuration.
TLC checks the models on small instances; TLAPS proves the safety properties of every part, of
both sessions and of the two refinements for every instance. Liveness is TLC's alone.

## The system

| Component | State | Operations |
| --- | --- | --- |
| Wire contract (`websocket/Types.h`, `websocket/Frame.*`, `protocol/MethodCatalog.*`) | none | wire names of message types, methods and topics; build and parse request, response, error and publish frames; validity of ids; the catalogs |
| WebSocket client (`websocket/client/Service.*`) | url, connected flag, next request id, table of pending requests (id to callback), list of subscribed topics, a `QWebSocket` | setServerUrl, connectToSocket, disconnectFromSocket, request, publish, subscribe, unsubscribe; slots for connected, disconnected and a received frame |
| WebSocket server (`websocket/server/Service.*`) | listeners, clients, topics of each client, method handlers, publish handlers, periodic publishers with their timers | start, attachUpgradedSocket, three register operations, publish; slots for a new connection, a frame, a disconnect; timer handlers |
| `websocket/SubscriptionHelper.*` | topic, bootstrap method, handler, startup flag, timer, connection watcher | start, stop, timeout, bootstrap and its callback |
| REST client (`rest/client/Service.*`) | url, table of pending replies | get, post, put, deleteResource, download; one slot for a finished reply |
| REST server (`rest/server/Service.*`) | files in the media directory | route a request, upload a file, serve a file |
| `configuration/DeviceConfiguration.*` | application list, active application, timestamps | add, update, remove; to and from JSON |

The application calls the client and gets callbacks (`request`), signals (`connectedChanged`,
`publishReceived`) and nothing else. The helper sits between the two and uses only the client's
interface. Client and server exchange text frames over a WebSocket; the server's handlers are
functions of the backend that may call back into the service. Everything in a process runs on
one event loop, so no two pieces of code run at once: what makes the code hard is *re-entrance*
(a callback or a signal handler that calls the service in the middle of one of its operations),
the *network* (a connection ends at any time, and each end learns of it by itself), and *late
answers* (to a connection, a startup or an application that has moved on).

What makes each component correct:

- client: every `request()` is answered, once, with the answer to that request; what it
  has told the peer about topics is what the application asked for, through reconnects;
- server: each request is answered once, in order; a publication reaches the clients
  subscribed at that moment and no other; one timer per periodic topic;
- both together: the topics held at the two ends agree, and callbacks report what the backend did;
- helper: a startup completes or times out once, and data of one startup never reaches another;
- REST client: one callback per request; REST server: one response per request, a stored file
  for every upload reported as done;
- configuration: a round trip through JSON keeps it; update and remove agree about ids.

`PROJECT.json` lists the hazards line by line.

## Modules

| Module | What it is |
| --- | --- |
| `Frame` | the wire contract, as constant operators |
| `RequestLedger` | what both clients promise: a call is accepted and held, or refused; a held call is completed once |
| `WebSocketClient` | the client service and its properties; any peer |
| `WebSocketServer` | the server service and its properties; any clients |
| `WebSocketSession` | one client and the server over a network: extends `WebSocketClient`, instantiates `WebSocketServer` |
| `SubscriptionHelper` | several helpers on one client service, with what they see of it and of the backend |
| `RestClient` | the REST client service; implements `RequestLedger` too |
| `RestServer` | the REST server service, its multipart scanner included |
| `RestSession` | one REST client, the server, browsers that upload and a network: extends `RestClient`, instantiates `RestServer` |
| `DeviceConfiguration` | the configuration, its list operations and its JSON |
| `WebSocketClientProofs`, `WebSocketWireProofs` | theorems about the client: its calls; its frames |
| `WebSocketServerProofs`, `WebSocketSessionProofs` | theorems about the server, and about client and server together |
| `SubscriptionHelperProofs`, `SubscriptionCurrentProofs` | theorems about the helper: its startups; the data it shows |
| `RestProofs`, `DeviceConfigurationProofs` | theorems about the REST client, the scanner and the REST session; about the configuration |
| `MC...` | the vocabulary of the runs |

A definition named `X_Y` is `X` with a plausible mistake `Y` in it. No specification uses
one; each is there to show that a property notices that mistake.

### Frame

A frame is a record with the fields the services read. Enumerators, and their wire names, are
those of the source. The text of an id is a number (0 is the empty text), with the JSON kind
beside it, because `requestIdKey` maps the number 7 and the string "7" to one key. Objects in
`params` and `result` hold at most one member the services read (`topic`, `subscribed`,
`unsubscribed`) or a payload of the application, numbered, so that an answer can be told from
another. A field that is absent is `NoText` or `NoId`; error codes are not read by any code
and are left out.

### WebSocketClient

The variables with an `m_` name are the members of the class. `socket` is the state of the
`QWebSocket`, with the two ways of being closed told apart (`closing` after a connection,
`aborting` before one); `conn` numbers the connections; `wire` is what was sent on each.
`control`, `inOnConnected` and `visit` are the call stack: where `onDisconnected` is in its
walk of the pending table, and whether `onConnected` waits for the handlers of
`connectedChanged`. `calls` and `completions` record the `request()` calls and their callbacks.

A public operation is one action, and may run wherever the application's code may run: at top
level, in a handler of `connectedChanged`, in a callback that `onDisconnected` runs.
`onDisconnected` is split at those callbacks (`BeginDrain`, `failNext`, `finishDisconnect`)
and `onConnected` at its signal (`onConnected`, `resubscribeAll`). A callback of
`dispatchMessage` runs last in it, so what it calls is a call from the idle service; the same
holds for the handlers at the end of `onDisconnected`. `QWebSocket::close` may complete at once,
with `onDisconnected` inside the call, or later: both are modelled. `connectToSocket` on a
closing socket drops the connection without a signal.

The peer (`PeerFrames`) answers any request of the current connection any number of times, in any
order, with success or an error and the id as a number or a string; it also sends
errors without an id, publications and frames of an unknown type.

`Usage` lists the liberties an application takes: calling `request()` from a callback that
reports a disconnect, reopening a closing socket, passing an empty callback. A property that
needs an application without one of them says so by its run or by the theorem's assumption.

Left out: an insertion during the walk of the pending table that makes the hash rehash (64
entries or more), the overflow of the id counter, invalid JSON (ignored by the code), logging.

### WebSocketServer

`m_clients` and `m_subscriptions` are as in the class, a socket being an element of `Sockets`
used for one connection. Handlers and publishers are named by what they do: answer, publish and
then answer, refuse with or without a message, pass a client's publication on, or be an empty
function. `received` and `sent` are the frames of each socket; `published` records each
publication, its topic and its place in the log of each client. A request whose handler
publishes is one action: the publication and the answer are sent in that order.
`timers` is the set of running `QTimer`s, which know their topic and not their registration.

`restart` is the destructor followed by a new service: sockets, listeners, timers and handlers
are gone, and what clients were sent stays in their logs. `processRequestForTest` calls a handler
for a request that comes from no socket; what it can change is what the handler publishes. An
accepting handler answers with `ResultOf` the request's parameters: a payload even when there are
none, so that an answer can be told from a refusal without a text.

Left out: the order in which the destructor closes the sockets (what a socket it skips would still
do, its service being gone); a handler that registers a handler, which would destroy the function
that is running; a `"method"` member that is the empty string.

### WebSocketSession

Connection `n` of the client is socket `n` of the server. The server reads the client's `wire`
in order; the client reads the server's `sent` in order, counted by `delivered`. Either end may
lose a connection at any moment and learns of it by itself, so the server may read connection 1
while the client is on connection 2. The backend's handlers are chosen at the start. The upgrade
is one step at both ends: between the server's acceptance and the client's signal the server has
nothing to send on that socket.

### SubscriptionHelper

`helper` holds the members of each object; a handler and a watcher are named by the `start()` that
made them, so that the model can tell whom an answer reaches from whom it was meant for.
`watchers` are the live connections to `connectedChanged`: `start()` made twice while the client is
down overwrites `m_connectionWatcher`, and the first connection stays. `start`, `stop`, `timeout`,
`connectedChanged`, `bootstrapAnswered` and `publishReceived` are the helper's code, with
`performBootstrap` and `completeStartup` in full.

The client service is the part of `WebSocketClient` that a helper depends on: the connected flag,
the list of topics, what it sends, and `onConnected`, which emits `connectedChanged` before
`resubscribeAll`. `start`, `stop` and a disconnect may come between two slots of that emission, as
they may in the code. `up` and `down` are the frames under way; a disconnect drops them, which is
what the callbacks of a bootstrap (a failure, logged and ignored) and the server see of it. The
answers to Subscribe and Unsubscribe have no callback in a helper and are left out. The backend
reads requests in order, answers or refuses a bootstrap with the topic's data of that moment, and
publishes each change to whoever is subscribed. `inUse`, `shown` and `outcomes` record what the
application asked for and got.

Left out: the length of the timeout (the timer may fire at any time while it runs); a `start()` with an
empty handler, which the two places that run a handler skip; a helper
destroyed with a bootstrap under way, and a data handler that starts or stops its own helper, which
are undefined behaviour in the code and occur nowhere in the repository.

### RestClient, RestServer, RestSession

A reply is the number of the call that made it. `createRequest` is the joining of url and endpoint:
a slash is added when neither side has one and none removed when both have. `handleResponse` takes
the entry from the table and runs one callback, with an outcome that depends on the error, the kind
of request and whether the body is an object. A reply may finish again, as after a timeout that
races the data: the second finds no entry.

A body is a sequence of tokens: delimiters, dashes, line ends, part headers and payload. The
multipart scanner is translated with its cursor, its cut of one line end and its early returns, and
compared with `FileParts`, which reads the file off the form and not off the body. A form is
`WellMade`: no payload contains the delimiter, which browsers choose so, and a header is not a line
end. The scanner looks for `name="file"` anywhere in the headers of a part, and `filename="file"` has
it too: a file called `file` in another field is taken for the field `file` (`NamesFile`), and
`rest_media` has a form with both.
`handleHttpRequest` is one action, from the route to the response: a part is refused, a directory cannot be made, a file cannot be opened, or
a write may store less than it was given when the disk is full (the code does not read the result).
Another request of the client or of a browser is another socket. `NetworkFails` stands for a
request refused, lost, or given up after the transfer timeout, whatever the server makes of it.

Left out: content types, the header text of a response, the `mediaUploaded` signal (emitted once
the file is closed, before the response; nothing in the repository connects to it), the null-socket guard
of `sendResponse`, a delimiter inside a payload (browsers
choose boundaries that do not occur in the data), and HTTP parsing, which is not in this repository.

### DeviceConfiguration

An application is an id and a content, the content being the time it was written. A JSON object is a
function on the keys it has, and `toJson` leaves out what the code leaves out. `load` reads what
was saved as it is, inside a frame, without a date, with one that cannot be parsed, or with a value
that is no application among the others. Time counts half seconds: the text of a date has whole ones.
`written` and `duplicate` record what the application did with each id.

## Runs

`CHECK_DEADLOCK FALSE` is set where the model may stop: in `client_liberties` the process may end
(an empty callback throws), in `device_configuration` the clock reaches its bound.

| Run | Instance | Shows |
| --- | --- | --- |
| `client_ledger` | 2 calls, 3 requests, 2 connections, 2 urls, 1 topic, fairness | `TypeOK`; `NoCallbackLost`: a call not answered is in the pending table; `EntriesAnswerable`, `PassedAreAnswered`: the invariant it rests on; `AnswersMatch`: success carries the result of that request; `ConnectedMeansOpen`; `NoCrash`; `LedgerSpec`: the client implements `RequestLedger`; `DownMeansAnswered`: a call waiting when the socket is not up is answered |
| `client_liberties` | 2 calls, 2 requests, 2 connections, 2 topics, all liberties | `AnsweredOnce`; `WireAgrees`: the peer was told exactly the subscriptions the application holds; `SentAreKept`: a call whose request has left the process is answered or still in the table |
| `client_retry` | retrying application | violated `NoCallbackLost` (below) |
| `client_reopen` | reopening application, fairness | violated `DownMeansAnswered` (below) |
| `server_requests` | 1 socket, 2 frames of 10 kinds, all handlers, 2 ports, restarts | `TypeOK`; `RepliesMatchRequests`: one answer per request, in order, with its id; `RefusalsNameAnError`: no refusal reads as success at the client |
| `server_topics` | 2 interchangeable sockets, 2 frames each, 2 topics, 2 registrations of a timer, 1 publication, restarts | `PublishesReachSubscribers`: exactly the clients told so get a publication, at its place in their log; `OneTimerPerTopic` |
| `session_calls` | 2 calls, 2 connections, every handler, fairness | `OutcomesAreTrue`: a callback reports what the backend did; `CallsAnswered`: every call is answered |
| `session_topics` | 1 call, 2 requests, 1 topic, 2 connections, 1 publication | `SubscriptionsAgree`: with nothing under way, the server's topics for the connection are the client's; `ClientSpec`: the session implements `WebSocketClient`'s `Spec`, so what is shown there for any peer holds here |
| `helper_startup` | 2 helpers, 2 topics (one shared), 2 starts, 2 connections, 1 change per topic, fairness | `TypeOK`; `OneOutcome`: a startup reports once; `OnlyUsersAreServed`: nothing reaches a handler that is out of use; `OwnTopicOnly`, `CompletedHasData`: data of one startup never stands for another's; `UpToDate`: after a startup on the live connection the handler has the current data; `StartupEnds` |
| `helper_stale` | 1 helper, 1 start, 1 change | violated `AlwaysUpToDate` (below) |
| `rest_media` | 1 call of 5 kinds, 2 uploads of 8 forms, 2 urls, fairness | `TypeOK`; `ReportedIsKept`: what an upload reported as done is what is kept, or a beginning of it if the disk was full; `DownloadsAreTrue`: a download that succeeds is such a file; `RefusalsAreRight`: a form is refused as bad exactly when no whole part names `file` and gives a file name; `LedgerSpec`; `CallsAnswered` |
| `device_configuration` | 2 ids (one empty), 6 operations | `RoundTrip`: JSON loses nothing but the fraction of a second; `LastWriteWins`: an id finds what was last written under it |

Why these bounds: the client's faults need one call in flight and one more event around it;
two calls tell an answer from another's, a third request leaves one for a subscription beside
them, and two connections make old and new meet. A subscription needs two frames to come
and go, and a second client to be wrongly served or missed; a publication's place in the logs is
wrong or right the first time, and the theorem covers any number. Two registrations of a timer
replace one, on the same topic or on another. Two starts are a start and the one that overlaps it;
two connections, the one a helper waited for and the one after it. Two uploads under one name
overwrite. Interleavings of several replies of the REST client are not reached with one call: those
rest on `RestProofs`. `MaxRequests` stops the application from making requests, never
`resubscribeAll`; `MaxFrames`, `MaxPublications` and `MaxChanges` stop publications.

Server runs that must not stop keep one operation that is always possible (registering a
handler, closing the listeners): no deadlock is excused there.

### What the three violated runs show

- `client_retry`: `onDisconnected` runs the callbacks while `m_connected` is still true, then
  clears the table. A request made by such a callback, a retry, is accepted and thrown
  away: its callback never runs, against the README's "request correlation".
- `client_reopen`: `connectToSocket` on a closing socket drops the old connection without
  `onDisconnected`; calls pending on it stay in the table, beyond any answer, and
  `m_connected` stays true until the next disconnect.
- `helper_stale`: a helper started while the client is down bootstraps from its
  `connectedChanged` slot, before `resubscribeAll` has sent its Subscribe. A change made after
  the bootstrap was answered and before the Subscribe is read is in neither: the startup completes
  with old data, until the topic changes again. On a live connection the order is the safe one.

Conditions that properties carry, because without them the code does otherwise:

- `NoCrash` excepts applications that pass an empty callback: `request()` and `onDisconnected`
  test for one, `dispatchMessage` does not, and the answer throws `std::bad_function_call`.
- `OwnTopicOnly` and `CompletedHasData` are about starts that found no earlier bootstrap of the
  helper waiting: otherwise its answer is handed to the new handler and completes the new startup.
- `UpToDate` is about the only user of a topic: the client counts no subscriptions, and another
  helper that stops ends this one's.
- `ReportedIsKept` and `DownloadsAreTrue` allow an upload to a full disk to leave a beginning of its
  file, since it is reported as done all the same; never parts of two files.
- `RefusalsAreRight` takes `file` as the code reads it: the field's name, or the name of the file.

## Fairness

`FairSpec` assumes that code that has started returns (`LoopStep`), that a connection attempt
ends in one way or the other, and that a socket being closed goes down: Qt's event loop and its
connect and close timeouts provide all three. It does not assume that the peer answers or that
a connection lasts. `FairSessionSpec` also assumes that frames on a live connection are read at
both ends, which the event loops do, and that the client notices, in the end, that the server's
side of its connection is gone.

For a helper, `Fairness` says that the slots of a signal run and that a timer which is not stopped
fires; not that there is a connection, or an answer. For the REST session it says that a
reply which is not answered ends by the transfer timeout that `createRequest` sets; not that the
server answers.

## Proofs

No theorem bounds anything: vocabularies, helpers, sockets, calls and connections are any sets and
numbers that satisfy the modules' assumptions.

`WebSocketClientProofs`:

- `TypeCorrect`: `Spec => []TypeOK`. Inductive with `StackSound`: `visit` is empty outside the
  walk, and a socket that is up has a connection number. Without the first, an entry could be
  visited after it left the table.
- `AnsweredOnceHolds`: `Spec => []AnsweredOnce`, for any application. The inductive invariant says
  that a pending entry stands for a call of its own that has no callback yet, or one that the
  walk has passed; an answer removes the entry and the walk passes it, so neither can come twice.
- `EntriesAnswerableHolds`, `PassedAreAnsweredHolds`: the two parts of that argument as
  properties of their own.
- `ConnectedMeansOpenHolds`: inductive with the types, if the application does not reopen a closing
  socket.
- `NoCrashHolds`: if the application passes no empty callback, none is in the table, those of
  `resubscribeAll` included.
- `NoCallbackLostHolds`: `Spec => []NoCallbackLost` if the application does not retry from a
  callback that reports the disconnect. The invariant adds `PassedAreAnswered`: an entry the
  walk has passed is answered, so `clear()` discards nothing that is owed. A retry breaks
  exactly that; `client_retry` shows it.
- `ImplementsLedger`: `Spec => LedgerSpec` under the same assumption. Each step maps to
  Accept, Refuse, Complete or a stutter; the walk passing an entry and the answer taking
  one are both Complete.

The step lemmas do not go through the actions one by one for each invariant: `NextEffect` says once
that a step has one of eight effects on the table, the walk and the calls, and the invariants are
shown to survive each effect.

`WebSocketWireProofs` says once what a step adds to the wire (`FramesEffect`: nothing is taken back,
and the new frames are one call of the application or requests and publishes of the service, each
under ids never used before). From it:

- `AnswersMatchHolds`: `Spec => []AnswersMatch`. The invariant says that a frame with the id of a
  pending entry is the request of that entry, and that no two frames share an id. So an answer that
  echoes an id reaches the callback of the request it answers. Assumption `PlainMethods`: the
  application calls `subscribe()` and `unsubscribe()`, not `request()` with those methods, whose
  answers the peer makes from the topic.
- `WireAgreesHolds`: `Spec => []WireAgrees`, for any application. The invariant (`WireInv`) holds
  during the service's code as well. While the socket is up, a topic whose last frame on the
  connection is a subscribe is in `m_subscribedTopics`; and once `onConnected` is through, every
  topic of the list was last announced so. Until then the connection may lag behind the list, never
  run ahead of it. The list has no duplicates, and no frame is on a connection to come.
- `SentAreKeptHolds`: `Spec => []SentAreKept`, for any application. The invariant (`SentInv`) says that
  a call that has left the process and is not answered is in the table at an entry the walk of
  `onDisconnected` has not passed, so `clear()` cannot discard it. What `clear()` can discard was
  entered during the walk, when the socket is not up and nothing leaves (`NothingLeaves`).

`RestProofs`:

- `TypeCorrect`: with the types, a call in the table has had no callback. The invariant adds that a
  call that was not made has none.
- `ImplementsLedger`: each step is Accept, Complete or a stutter. A call without a callback is no
  call of the ledger.
- `FormsAreReadHolds`: `parseMultipartFile`, applied to the encoding of any `WellMade` form, returns
  the first part that arrived whole, has a file name and names `file` (in the sense of `NamesFile`),
  byte for byte, and none when there is none. The parts of
  the encoding are located first (`Begins`), then each turn of the scan is shown to find exactly one
  part (`PartScanned`), then the parts are counted down (`FormReads`). That the recursive
  definitions of the scan and of `FlattenSeq` define functions is proved as well (`ScanObeys`,
  `FlattenObeys`), by induction on a set of numbers.
- `RefusalsAreRightHolds`: what a browser was told stays on its socket, and fits the scan.
- `ReportedIsKeptHolds`, `DownloadsAreTrueHolds`: the invariant `SessionInv` relates three logs. Every
  file kept is what the last upload reported under its name left: the whole, or a beginning if the write
  fell short (`FilesKept`); a response on its way to the client holds what was once kept under the name it asked
  for (`ResponsesTrue`), which stays true while the file is replaced; so does what callbacks got.
- `SessionImplementsLedger`: every step of the session is one of `RestClient` or leaves it alone.

`SubscriptionHelperProofs`, in three layers, each inductive given the ones before it:

- `TypeCorrect`: `TypeInv` adds that a helper's handler is that of its start in use, and that what
  is under way belongs to starts that were made.
- `OneOutcomeHolds`: a start in progress has no outcome yet, and `completeStartup` and the timer end
  the startup they report for. It holds for the connections that `start()` forgot, too: their
  slots test `m_startupInProgress`.
- `OwnTopicOnlyHolds`, `CompletedHasDataHolds`: for a helper whose start in use is clean, the
  bootstraps under way are its own (`NoneOverlaps`), and answers carry data of the topic they were
  asked for (`AnswersOwn`).
- `OnlyUsersAreServedHolds`: each step is shown to touch starts in use only.

`SubscriptionCurrentProofs` adds a fourth layer, for `UpToDateHolds`: `Spec => []UpToDate`. A start made
on the connection that is up has a subscribe under way, or read, before its bootstrap, and
no unsubscribe behind it (`Ahead`); when the bootstrap is answered the server serves the topic, and
from then on the last frame under way for the start, or what it was shown if there is none, is the
current data (`CaughtUp`). A start made while the client is down has no such order, which is
what `helper_stale` shows.

`WebSocketServerProofs`:

- `TypeCorrect`, `OneTimerPerTopicHolds`: a step that registers removes the timer it replaces, and
  the numbers of timers are never used again.
- `PublishesReachSubscribersHolds`: `m_subscriptions` holds what the last confirmations in a
  client's log say, so that a publication goes to whom they tell; frames are only appended, so what
  was at its place stays there. Assumption `PlainParams`: no request carries parameters that look
  like the service's own confirmation, which the handlers of the model echo.
- `RepliesMatchRequestsHolds`: for every client there is an order-preserving one-to-one map from the
  requests it sent to the answers in its log; a publication moves it along, a request extends it.
- `RefusalsNameAnErrorHolds`: `Spec => []RefusalsNameAnError`, whatever the parameters, absent ones
  included: every error the service or a handler without a reason is given has a text, and the
  results that accepting handlers and confirmations give are never empty.

`WebSocketSessionProofs`, under its own `SessionAssumption` (`PlainMethods`, handlers of the kinds
`WebSocketServer` has, and the server's error texts among those the client may be answered with):

- `SessionImplementsClient`: `SessionSpec => ClientSpec`. The invariant relates the logs of each
  connection: the server has read a prefix of the client's frames (`ReadsInOrder`), and each frame it
  has sent answers one it has read or is a publication (`SentSound`). A frame that arrives is
  therefore one `PeerFrames` allows, and whatever is proved of the client for any peer holds here.
- `SubscriptionsAgreeHolds`: the server's topics for a connection are those that the frames it has
  read announce (`SubscriptionsRead`); with `WireInv` at the other end, the two agree once
  everything is read.
- `OutcomesAreTrueHolds`: every callback that ran has a source (`OutcomesHaveSource`): the disconnect,
  or a frame of the server whose request the handler accepted or refused. A call is one frame on one
  connection (`OneFramePerCall`), so no other call's answer can be it.

`DeviceConfigurationProofs`, with the invariant `DeviceInv`: the list, what was saved and what a hand
made of it agree with what the application wrote (`Agree`): an id in the list was written, and
unless it was added twice it is there once, with the content written last; an id that was written
and not added twice is in the list. Ids added twice are those `addApplication` lets in twice.

- `LastWriteWinsHolds`: from `Agree` for the list in memory, kept by add, update, remove, save and load.
- `RoundTripHolds`: `toJson` leaves out keys with nothing in them, and `fromJson` reads an absent key
  as nothing. That the parser's filter returns the elements that are objects, in order, is a lemma
  about the recursive function `KeepAt`, by induction on positions.

Induction over data is out of the prover's reach as the library states it; the proofs above do it on
sets of numbers, from the fact that a set of numbers has a least element. No proof uses an
assumption about an operator of the models.

tlapm 1.4.5 hands its SMT solver an axiom on sequences that is not valid for every set (`DOMAIN s = 1..n`
taken to be the same as `Len(s) = n`, also of an `s` that is no sequence). The proofs do not rest on
it: all eight modules pass as well with that axiom taken out, and keep to sequences known to be in
some `Seq(S)`.

TLC only: liveness (`DownMeansAnswered`, `CallsAnswered`, `StartupEnds`), since fairness and ENABLED
are out of the prover's reach. Every invariant, action property and refinement that a passing
run checks is a theorem.

## Not modelled, and the plan

All components that hold code have a module. What a module leaves out is at the end of its section
above, and the hazards without a property in `PROJECT.json` say why. Three cases were tried and are
out of reach in the time of a run: two topics with every handler in `server_requests`, two
calls with two uploads in `rest_media`, and two publications to two clients with two topics.

What could come next: two clients in one session, which the server's theorems already allow for; the
helper composed with `WebSocketSession` in place of the part of the client that it sees; and the
three violated runs again, should the code change.

The unit tests are read as a reference and not modelled.
Outside the models: Qt itself (modelled as the code uses it), TLS and proxies, the text form of
JSON, log output, the CMake files, `configuration/` and `utilities/`, which hold no code.
