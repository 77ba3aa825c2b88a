------------------------ MODULE MCWebSocketServer ------------------------
(* Instances of WebSocketServer for TLC: the vocabulary of the runs. *)
EXTENDS WebSocketServer, TLC

CONSTANTS s1, s2   \* sockets, interchangeable

OneSocket == {s1}
TwoSockets == {s1, s2}
SocketSymmetry == Permutations(TwoSockets)

NoPort == {}
TwoPorts == {5000, 5001}
OneMethod == {"SetBrightness"}
OneTopic == {"Configuration"}
TwoTopics == {"Configuration", "Media"}
NoHandlers == {}
Announcing == {"announces"}
Relaying == {"relays"}
Reporting == {"reports"}

TopicFrame(n, method, text) == buildRequest(NumberId(n), method, TextObject("topic", text))
Call(n) == buildRequest(NumberId(n), "SetBrightness", AppObject(1))

\* Requests that a client may send, well formed or not: an id that is a string or
\* missing, a type that is missing, an unknown topic, an unknown method, no params.
AnyFrames ==
  {TopicFrame(1, "Subscribe", "configuration"), TopicFrame(1, "Subscribe", "nothing"),
   TopicFrame(2, "Unsubscribe", "nothing"), Call(2),
   [Call(2) EXCEPT !.id.kind = "string", !.type = "none"],
   [Call(1) EXCEPT !.id = NoId],
   [Call(3) EXCEPT !.method = "nothing"],
   [Call(4) EXCEPT !.params = EmptyObject],
   buildResponse(NumberId(1), AppObject(1)),
   buildPublish("Configuration", AppObject(1))}

\* A subscription that comes and goes, and frames whose handlers publish.
TopicTraffic ==
  {TopicFrame(1, "Subscribe", "configuration"), TopicFrame(2, "Unsubscribe", "configuration"),
   Call(3), buildPublish("Configuration", AppObject(1))}
==========================================================================
