SPECIFICATION FairSpec
CONSTANTS
  t1 = t1
  t2 = t2
  t3 = t3
  NoTask = NoTask
  NumWorkers = 2
  Tasks <- TwoTasks
  Faults = {}
  MaxFaults = 0
PROPERTY WaitReturnsIdle
