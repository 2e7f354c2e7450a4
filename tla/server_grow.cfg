SPECIFICATION Spec
CONSTANTS
  U16Max = 15
  InitialMax = 2
  Fresh = {0, 99}
  MaxConnections = 5
  FirstFd = 3
  LastFd = 9
  MaxClients = 5
  MaxFaults = 0
INVARIANT TablesAgree
