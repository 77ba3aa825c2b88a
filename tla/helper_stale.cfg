SPECIFICATION Spec
CONSTANTS
  h1 = h1
  h2 = h2
  Helpers <- OneHelper
  Topics <- OneTopic
  Uses <- PlainUse
  MaxStarts = 1
  MaxConnections = 1
  MaxChanges = 1
INVARIANTS
  AlwaysUpToDate
