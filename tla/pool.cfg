SPECIFICATION FairSpec
CONSTANTS
  t1 = t1
  t2 = t2
  t3 = t3
  NoTask = NoTask
  NumWorkers = 3
  Tasks <- ThreeTasks
  Faults = {"calloc", "create", "worker", "boss"}
  MaxFaults = 1
INVARIANT TypeOK
INVARIANT OneCopy
INVARIANT NoneForgotten
INVARIANT ActiveCounts
INVARIANT FreedWhenQuiet
INVARIANT WorkConserving
INVARIANT ShutdownWakesAll
INVARIANT WaiterHasWaker
PROPERTY ShutdownOnlyForward
PROPERTY PoolRefinement
PROPERTY EveryTaskRuns
PROPERTY WaitReturns
PROPERTY DestroyReturns
PROPERTY FatalStopsEveryone
