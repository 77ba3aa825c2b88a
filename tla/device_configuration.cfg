SPECIFICATION Spec
CONSTANTS
  Ids <- TwoIds
  Settings <- OneSetting
  MaxTime = 8
INVARIANTS
  RoundTrip
  LastWriteWins
CHECK_DEADLOCK FALSE
