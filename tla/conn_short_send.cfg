SPECIFICATION Spec
CONSTANTS
  HeaderSize = 3
  MessageSize = 5
  BufSize = 8
  SendRoom = 7
  Lengths = {2}
  NumThreads = 2
  MaxMessages = 2
  MaxTasks = 1
  MaxFaults = 0
INVARIANT AnswersInOrder
