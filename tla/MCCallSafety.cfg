CONSTANTS
  c1 = c1
  c2 = c2
  c3 = c3
  Nobody = Nobody
  Calls <- TwoCalls
  MaxRepeats = 1
  CallbackResults <- SomeResults
  MaxServerKey = 2
  NonceCount = 2
  Size = 2
SYMMETRY CallSymmetry
SPECIFICATION Spec
INVARIANT TypeOK
INVARIANT ExecutedAtMostOnce
INVARIANT OwnResult
INVARIANT OutgoingExact
INVARIANT AuthExclusive
 
INVARIANT OneSessionPerNonce
PROPERTY ImplementsRemoteCall
CHECK_DEADLOCK FALSE
