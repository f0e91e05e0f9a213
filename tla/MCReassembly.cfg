CONSTANTS
  m1 = m1
  m2 = m2
  Refusal = Refusal
  Messages <- TwoMessages
  ProcessOf <- Processes
  TidOf <- Tids
  SizeOf <- Sizes
  ResponseSizeOf <- ResponseSizes
  FrameSize = 2
  MaxResponse = 3
  PurgeAge = 1
  MaxTime = 2
  MaxRepeats = 2
SPECIFICATION Spec
INVARIANT TypeOK
INVARIANT HandedWhole
INVARIANT HandedTogether
INVARIANT HandedAgainOnlyIf
INVARIANT HandedIfArrived
 
CHECK_DEADLOCK FALSE
