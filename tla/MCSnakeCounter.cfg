CONSTANTS
  Size = 3
  Inputs <- MCInputs
  InitValue = 0
SPECIFICATION Spec
INVARIANT TypeOK
INVARIANT AtMostOnce
INVARIANT WindowExact
PROPERTY ImplementsReplayGuard
