SPECIFICATION FairSpec
CONSTANTS
  ServerUrls <- TwoUrls
  Methods <- OneMethod
  Topics <- OneTopic
  ErrorTexts <- OneError
  Usage <- NoLiberties
  MaxCalls = 2
  MaxRequests = 3
  MaxConnections = 2
  MaxFrames = 0
INVARIANTS
  TypeOK
  NoCallbackLost
  EntriesAnswerable
  PassedAreAnswered
  AnswersMatch
  ConnectedMeansOpen
  NoCrash
PROPERTIES
  LedgerSpec
  DownMeansAnswered
