SPECIFICATION Spec
CONSTANTS
  HeaderSize = 3
  MessageSize = 5
  BufSize = 8
  SendRoom = 20
  Lengths = {2}
  NumThreads = 2
  MaxMessages = 1
  MaxTasks = 2
  MaxFaults = 0
INVARIANT NoUseAfterFree
