CONSTANTS
  f1 = f1
  f2 = f2
  f3 = f3
  f4 = f4
  p1 = p1
  p2 = p2
  Posts <- OnePost
  Polls <- TwoPolls
  SizeOf <- Small
  MaxMessages = 2
  MaxSize = 10
  MessageAge = 1
  StorageIdle = 2
  MaxTime = 1
  MaxRestarts = 1
SPECIFICATION FairSpec
PROPERTY FlagReleased
CHECK_DEADLOCK FALSE
