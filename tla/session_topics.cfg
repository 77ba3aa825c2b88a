SPECIFICATION SessionSpec
CONSTANTS
  ServerUrls <- OneUrl
  Methods <- OneMethod
  Topics <- OneTopic
  ErrorTexts <- BackendErrors
  Usage <- NoLiberties
  MethodHandlers <- TwoHandlers
  MaxCalls = 1
  MaxRequests = 2
  MaxConnections = 2
  MaxFrames = 0
  MaxPublications = 1
INVARIANTS
  SubscriptionsAgree
PROPERTIES
  ClientSpec
