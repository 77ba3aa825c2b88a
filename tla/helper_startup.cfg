SPECIFICATION FairSpec
CONSTANTS
  h1 = h1
  h2 = h2
  Helpers <- TwoHelpers
  Topics <- TwoTopics
  Uses <- SharedUse
  MaxStarts = 2
  MaxConnections = 2
  MaxChanges = 1
INVARIANTS
  TypeOK
  OneOutcome
  OwnTopicOnly
  CompletedHasData
  UpToDate
PROPERTIES
  OnlyUsersAreServed
  StartupEnds
