SPECIFICATION Spec
CONSTANTS
  s1 = s1
  s2 = s2
  Sockets <- OneSocket
  Ports <- TwoPorts
  Methods <- OneMethod
  Topics <- OneTopic
  MethodHandlers <- MethodHandlerKinds
  PublishHandlers <- PublishHandlerKinds
  Publishers <- NoHandlers
  Inbound <- AnyFrames
  MaxReceived = 2
  MaxPublications = 1
  MaxTimers = 0
INVARIANTS
  TypeOK
  RepliesMatchRequests
  RefusalsNameAnError
