SPECIFICATION Spec
CONSTANTS
  Items = {p1, p2}
  NoItem = null
  U16Max = 7
  InitialMax = 3
  MaxFaults = 1
INVARIANT TypeOK
PROPERTY FifoRefinement
