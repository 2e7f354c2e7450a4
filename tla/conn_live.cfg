SPECIFICATION FairSpec
CONSTANTS
  HeaderSize = 1
  MessageSize = 3
  BufSize = 8
  SendRoom = 6
  Lengths = {2}
  NumThreads = 2
  MaxMessages = 2
  MaxTasks = 1
  MaxFaults = 1
INVARIANT AnswersInOrder
PROPERTY EveryMessageAnswered
