SPECIFICATION FairSpec
CONSTANTS
  ServerUrls <- OneUrl
  Methods <- OneMethod
  Topics <- OneTopic
  ErrorTexts <- OneError
  Usage <- Reopening
  MaxCalls = 1
  MaxRequests = 1
  MaxConnections = 2
  MaxFrames = 0
PROPERTIES
  DownMeansAnswered
