SPECIFICATION FairSpec
CONSTANTS
  t1 = t1
  t2 = t2
  t3 = t3
  NoTask = NoTask
  NumWorkers = 2
  Tasks <- TwoTasks
  Faults = {"create"}
  MaxFaults = 1
PROPERTY InitReturns
