-------------------------- MODULE WebSocketSession --------------------------
(***************************************************************************)
(* A client service and a server service over a network: the client of     *)
(* WebSocketClient with the server of WebSocketServer as its peer.         *)
(*                                                                         *)
(* Connection number n of the client is socket n of the server.  Each      *)
(* direction of a connection delivers its frames in order, and loses what  *)
(* is under way when an end goes down.  The two ends learn of the end of a *)
(* connection independently: the server may still be reading connection 1  *)
(* when the client is up again on connection 2.                            *)
(***************************************************************************)
EXTENDS WebSocketClient, FiniteSets

CONSTANTS
  MethodHandlers,   \* what the backend's handlers may be
  MaxPublications   \* bound: publications of the backend

VARIABLES
  m_servers, m_clients, m_subscriptions, m_methodHandlers, m_publishHandlers,
  m_periodicPublishers, timers, timersMade, received, sent, published,
  delivered   \* for each connection, how many of the server's frames the client has read

FrameLimit == MaxRequests + MaxFrames + MaxConnections * Cardinality(Topics)

Server == INSTANCE WebSocketServer WITH
  Sockets <- Connections,
  Ports <- {},
  PublishHandlers <- {},
  Publishers <- {},
  Inbound <- {},
  MaxReceived <- FrameLimit,
  MaxTimers <- 0

serverState == <<m_servers, m_clients, m_subscriptions, m_methodHandlers, m_publishHandlers,
                 m_periodicPublishers, timers, timersMade, received, sent, published>>
sessionVars == <<vars, serverState, delivered>>

\* The backend has registered its handlers; the ingress hands it its connections.
SessionInit ==
  /\ Init
  /\ m_methodHandlers \in [Methods -> MethodHandlers]
  /\ m_servers = <<>> /\ m_clients = {}
  /\ m_subscriptions = Server!Empty
  /\ m_publishHandlers = Server!Empty
  /\ m_periodicPublishers = Server!Empty
  /\ timers = Server!Empty /\ timersMade = 0
  /\ received = [n \in Connections |-> <<>>]
  /\ sent = [n \in Connections |-> <<>>]
  /\ published = <<>>
  /\ delivered = [n \in Connections |-> 0]

----------------------------------------------------------------------------

\* The client acts, or its socket goes down.
ClientStep ==
  /\ AppStep \/ LoopStep \/ onDisconnected
  /\ UNCHANGED <<serverState, delivered>>

\* The upgrade completes: the server has the socket when the client is told.
Connect ==
  /\ onConnected
  /\ Server!attachUpgradedSocket(conn + 1)
  /\ UNCHANGED delivered

\* The server reads the next frame of connection n, which may be one the client
\* has left.
ServerReceives(n) ==
  LET i == Len(received[n]) + 1 IN
  /\ i <= Len(wire[n])
  /\ Server!onTextMessageReceived(n, wire[n][i])
  /\ UNCHANGED <<vars, delivered>>

\* The server learns that connection n is gone, or loses it.
ServerDrops(n) ==
  /\ Server!onSocketDisconnected(n)
  /\ UNCHANGED <<vars, delivered>>

ServerPublishes(t) ==
  /\ Server!publish(t)
  /\ UNCHANGED <<vars, delivered>>

ClientReceives ==
  /\ conn > 0
  /\ delivered[conn] < Len(sent[conn])
  /\ delivered' = [delivered EXCEPT ![conn] = @ + 1]
  /\ dispatchMessage(sent[conn][delivered[conn] + 1])
  /\ UNCHANGED serverState

SessionNext ==
  \/ ClientStep
  \/ Connect
  \/ ClientReceives
  \/ \E n \in Connections : ServerReceives(n) \/ ServerDrops(n)
  \/ \E t \in Topics : ServerPublishes(t)

SessionSpec == SessionInit /\ [][SessionNext]_sessionVars

\* Code returns, frames on a live connection arrive, and an end whose other end
\* is gone goes down in the end.
SessionFairness ==
  /\ WF_sessionVars(ClientStep /\ LoopStep)
  /\ WF_sessionVars(ClientReceives)
  /\ \A n \in Connections : WF_sessionVars(ServerReceives(n))
  /\ WF_sessionVars(ClientStep /\ onDisconnected
                      /\ (socket \in {"closing", "aborting"} \/ conn \notin m_clients))

FairSessionSpec == SessionSpec /\ SessionFairness

----------------------------------------------------------------------------
(* Properties. *)

\* The server is a peer as WebSocketClient assumes it: whatever the client's runs
\* and proofs establish for any peer holds with this one.
ClientSpec == Spec

\* When nothing is under way, the topics the server publishes to a connected
\* client are the ones its application holds: after any order of subscribe,
\* unsubscribe, losses and reconnects, with old connections still being read.
Quiet ==
  /\ EventLoop /\ m_connected /\ socket = "connected"
  /\ conn \in m_clients
  /\ Len(received[conn]) = Len(wire[conn])

SubscriptionsAgree == Quiet => m_subscriptions[conn] = ToSet(m_subscribedTopics)

\* A callback tells the truth of what the backend did: success and its result
\* when the handler got this call and accepted it, the error when it refused.
Handled(c) ==
  \E n \in Connections : \E i \in 1..Len(received[n]) :
    received[n][i].params = AppObject(c)

Accepts(c) ==
  \E n \in Connections : \E i \in 1..Len(received[n]) :
    /\ received[n][i].params = AppObject(c)
    /\ m_methodHandlers[parseMethod(received[n][i])] \in {"answers", "announces"}

OutcomesAreTrue ==
  \A c \in Calls : \A i \in 1..Len(completions[c]) :
    LET outcome == completions[c][i] IN
    IF outcome.ok THEN Accepts(c) /\ outcome.result = AppObject(c)
                  ELSE outcome = Disconnected \/ (Handled(c) /\ ~Accepts(c))

\* Every call is answered: by the backend, or by the loss of the connection.
\* There is no timeout, so this rests on the server answering everything.
CallsAnswered == \A c \in Calls : Outstanding(c) ~> Completed(c)
=============================================================================
