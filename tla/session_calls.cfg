SPECIFICATION FairSessionSpec
CONSTANTS
  ServerUrls <- TwoUrls
  Methods <- OneMethod
  Topics <- NoTopic
  ErrorTexts <- BackendErrors
  Usage <- NoLiberties
  MethodHandlers <- AllHandlers
  MaxCalls = 2
  MaxRequests = 2
  MaxConnections = 2
  MaxFrames = 0
  MaxPublications = 0
INVARIANTS
  OutcomesAreTrue
PROPERTIES
  CallsAnswered
