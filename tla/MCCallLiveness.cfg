CONSTANTS
  c1 = c1
  c2 = c2
  c3 = c3
  Nobody = Nobody
  Calls <- TwoCalls
  MaxRepeats = 0
  CallbackResults <- AllResults
  MaxServerKey = 1
  NonceCount = 2
  Size = 2
SPECIFICATION FairSpec
PROPERTY CallsReturn
PROPERTY AuthReleased
CHECK_DEADLOCK FALSE
