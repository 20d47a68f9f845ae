\* The newest of two connections is destroyed by its timer.
SPECIFICATION Spec
CONSTANTS
  p1 = p1
  p2 = p2
  p3 = p3
  Clients = {p1, p2}
  NoClient = none
  MaxClients = 2
  Sizes <- OneSends
  BufSpace = 3
  Atomic = FALSE
  ReaderMayLeave = FALSE
  MaxLosses = 0
  NetCapacity = 1
INVARIANT LiveAreListed
