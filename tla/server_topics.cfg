SPECIFICATION Spec
CONSTANTS
  s1 = s1
  s2 = s2
  Sockets <- TwoSockets
  Ports <- NoPort
  Methods <- OneMethod
  Topics <- TwoTopics
  MethodHandlers <- Announcing
  PublishHandlers <- Relaying
  Publishers <- Reporting
  Inbound <- TopicTraffic
  MaxReceived = 2
  MaxPublications = 1
  MaxTimers = 2
SYMMETRY SocketSymmetry
INVARIANTS
  PublishesReachSubscribers
  OneTimerPerTopic
