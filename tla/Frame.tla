------------------------------- MODULE Frame -------------------------------
(***************************************************************************)
(* The JSON-RPC wire contract: the enumerations of websocket/Types.h with  *)
(* their wire names, and the frames that websocket/Frame.cpp builds and    *)
(* parses.                                                                 *)
(*                                                                         *)
(* A frame is the JSON object as a record; NoText and NoId stand for a     *)
(* field that is absent.  The objects in "params" and "result" hold at     *)
(* most one member that the services read or write, and the payload of     *)
(* the application, numbered.                                              *)
(***************************************************************************)
EXTENDS Naturals

----------------------------------------------------------------------------
(* Enumerators and their wire names. *)

MessageTypeNames == [Request |-> "request", Response |-> "response", Publish |-> "publish"]

MethodNames ==
  [Subscribe |-> "subscribe", Unsubscribe |-> "unsubscribe", GetConfig |-> "getConfig",
   SetBrightness |-> "setBrightness", SetVolume |-> "setVolume", SetDeviceId |-> "setDeviceId",
   UpdateSystemConfig |-> "updateSystemConfig", AddApp |-> "addApp", UpdateApp |-> "updateApp",
   RemoveApp |-> "removeApp", GetStatus |-> "getStatus",
   GetProcessorTemperature |-> "getProcessorTemperature", GetMedia |-> "getMedia",
   GetAllMedia |-> "getAllMedia", GetEnvironment |-> "getEnvironment", Shutdown |-> "shutdown",
   Reboot |-> "reboot", PlaySound |-> "playSound", StopSound |-> "stopSound"]

TopicNames ==
  [Configuration |-> "configuration", Media |-> "media",
   ApplicationStatus |-> "application-status", ProcessorTemperature |-> "processor-temperature",
   BackendStatus |-> "backend-status", Environment |-> "environment"]

\* MethodCatalog::allMethods and allTopics: every enumerator but the Unknown one.
allMethods == DOMAIN MethodNames
allTopics == DOMAIN TopicNames

ToWire(names, value) == IF value \in DOMAIN names THEN names[value] ELSE "unknown"

FromWire(names, text, unknown) ==
  IF \E value \in DOMAIN names : names[value] = text
  THEN CHOOSE value \in DOMAIN names : names[value] = text
  ELSE unknown

messageTypeToString(type) == ToWire(MessageTypeNames, type)
messageTypeFromString(text) == FromWire(MessageTypeNames, text, "UnknownMessageType")
methodToString(method) == ToWire(MethodNames, method)
methodFromString(text) == FromWire(MethodNames, text, "UnknownMethod")
topicToString(topic) == ToWire(TopicNames, topic)
topicFromString(text) == FromWire(TopicNames, text, "UnknownTopic")

----------------------------------------------------------------------------
(* Request ids.  The text of an id is numbered: 0 is the empty string, and *)
(* n > 0 is the decimal text of n, which the JSON number n and the JSON    *)
(* string "n" share.                                                       *)

IdValues == [kind : {"number", "string", "none"}, text : Nat]

NoId == [kind |-> "none", text |-> 0]
NumberId(n) == [kind |-> "number", text |-> n]
EmptyKey == 0

isValidId(id) == id.kind \in {"number", "string"}

\* The key of the client's pending table: the text of a string or a number,
\* the empty string for every other JSON value.
requestIdKey(id) == IF isValidId(id) THEN id.text ELSE EmptyKey

----------------------------------------------------------------------------
(* Frames. *)

NoText == ""

\* {}, {"<member>": "<text>"} and the application's payload number n.
EmptyObject == [member |-> "none", text |-> NoText, value |-> 0]
TextObject(member, text) == [member |-> member, text |-> text, value |-> 0]
AppObject(n) == [member |-> "app", text |-> NoText, value |-> n]

\* The result that a handler gives when it accepts a request is numbered after the
\* request's params.  It has a payload whether or not the request has one.
ResultOf(params) == IF params = EmptyObject THEN AppObject(0) ELSE params

Objects(topics, values) ==
  [member : {"none", "topic", "subscribed", "unsubscribed", "app"},
   text : {topicToString(t) : t \in topics} \cup {NoText}, value : values]

\* object.value("topic").toString()
TopicMember(object) == IF object.member = "topic" THEN object.text ELSE NoText

\* The frames over a set of objects and a set of error messages.
Frames(objects, errors) ==
  [type : {messageTypeToString(t) : t \in DOMAIN MessageTypeNames}, id : IdValues,
   method : {methodToString(m) : m \in allMethods} \cup {NoText},
   topic : {topicToString(t) : t \in allTopics} \cup {NoText},
   params : objects, result : objects, error : errors \cup {NoText}]

buildRequest(id, method, params) ==
  [type |-> messageTypeToString("Request"), id |-> id, method |-> methodToString(method),
   topic |-> NoText, params |-> params, result |-> EmptyObject, error |-> NoText]

buildResponse(id, result) ==
  [type |-> messageTypeToString("Response"), id |-> id, method |-> NoText,
   topic |-> NoText, params |-> EmptyObject, result |-> result, error |-> NoText]

buildErrorResponse(id, message) ==
  [type |-> messageTypeToString("Response"), id |-> id, method |-> NoText,
   topic |-> NoText, params |-> EmptyObject, result |-> EmptyObject, error |-> message]

buildPublish(topic, params) ==
  [type |-> messageTypeToString("Publish"), id |-> NoId, method |-> NoText,
   topic |-> topicToString(topic), params |-> params, result |-> EmptyObject, error |-> NoText]

isRequest(message) == messageTypeFromString(message.type) = "Request"
isResponse(message) == messageTypeFromString(message.type) = "Response"
isPublish(message) == messageTypeFromString(message.type) = "Publish"

parseId(message) == message.id
parseMethod(message) == methodFromString(message.method)
parseTopic(message) == topicFromString(message.topic)
parseParams(message) == message.params
parseResult(message) == message.result
parseErrorMessage(message) == message.error
=============================================================================
