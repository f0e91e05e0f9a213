CONSTANTS
  g1 = g1
  g2 = g2
  Callers <- TwoCallers
  MaxStarts = 2
  MaxStops = 2
SPECIFICATION FairSpec
INVARIANT TypeOK
INVARIANT StartedExact
INVARIANT StopLeavesNothing
INVARIANT PanicOnlyIfCrossed
PROPERTY OperationsReturn
 
CHECK_DEADLOCK FALSE
