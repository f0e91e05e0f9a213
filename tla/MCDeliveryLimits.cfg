CONSTANTS
  f1 = f1
  f2 = f2
  f3 = f3
  f4 = f4
  p1 = p1
  p2 = p2
  Posts <- FourPosts
  Polls <- OnePoll
  SizeOf <- OneBig
  MaxMessages = 3
  MaxSize = 3
  MessageAge = 1
  StorageIdle = 2
  MaxTime = 1
  MaxRestarts = 0
SYMMETRY SmallSymmetry
SPECIFICATION Spec
INVARIANT TypeOK
INVARIANT YoungKept
INVARIANT PassedOverOnlyIf
 
CHECK_DEADLOCK FALSE
