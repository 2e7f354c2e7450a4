SPECIFICATION Spec
CONSTANTS
  HeaderSize = 2
  MessageSize = 3
  BufSize = 3
  SendRoom = 4
  Lengths = {0,1,2}
  NumThreads = 2
  MaxMessages = 2
  MaxTasks = 1
  MaxFaults = 1
INVARIANT TypeOK
INVARIANT AnswersAligned
INVARIANT NothingLost
INVARIANT QuietOwesNothing
INVARIANT RefsCounted
INVARIANT OverrunOnlyByLength
PROPERTY ClosedIsFinal
PROPERTY ReapSafe
