SPECIFICATION Spec
CONSTANTS
  ServerUrls <- OneUrl
  Methods <- OneMethod
  Topics <- OneTopic
  ErrorTexts <- OneError
  Usage <- Retrying
  MaxCalls = 2
  MaxRequests = 2
  MaxConnections = 1
  MaxFrames = 0
INVARIANTS
  NoCallbackLost
