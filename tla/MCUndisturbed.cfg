CONSTANTS
  c1 = c1
  c2 = c2
  c3 = c3
  Nobody = Nobody
  Calls <- ThreeCalls
  MaxRepeats = 0
  CallbackResults <- OnlySuccess
  MaxServerKey = 2
  NonceCount = 2
  Size = 2
SPECIFICATION PromptSpec
INVARIANT PurgeCostsOneCall
INVARIANT SuccessMeansExecuted
CHECK_DEADLOCK FALSE
