SPECIFICATION Spec
CONSTANTS
  ServerUrls <- OneUrl
  Methods <- OneMethod
  Topics <- TwoTopics
  ErrorTexts <- OneError
  Usage <- AllLiberties
  MaxCalls = 2
  MaxRequests = 2
  MaxConnections = 2
  MaxFrames = 1
INVARIANTS
  AnsweredOnce
  WireAgrees
  SentAreKept
CHECK_DEADLOCK FALSE
