SPECIFICATION FairSpec
CONSTANTS
  HeaderSize = 3
  MessageSize = 5
  BufSize = 8
  SendRoom = 20
  Lengths = {0}
  NumThreads = 2
  MaxMessages = 1
  MaxTasks = 1
  MaxFaults = 0
PROPERTY EveryMessageAnswered
