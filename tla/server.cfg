SPECIFICATION FairSpec
CONSTANTS
  U16Max = 15
  InitialMax = 2
  Fresh = {0}
  MaxConnections = 4
  FirstFd = 3
  LastFd = 9
  MaxClients = 5
  MaxFaults = 2
INVARIANT TypeOK
INVARIANT TablesAgree
INVARIANT NothingLeaked
INVARIANT WithinLimit
INVARIANT NoLostWakeup
PROPERTY ShutdownEnds
PROPERTY EveryoneServed
