\* Three clients come and go, one of them sends data.
SPECIFICATION Spec
CONSTANTS
  p1 = p1
  p2 = p2
  p3 = p3
  Clients = {p1, p2, p3}
  NoClient = none
  MaxClients = 3
  Sizes <- OneSends
  BufSpace = 3
  Atomic = FALSE
  ReaderMayLeave = TRUE
  MaxLosses = 1
  NetCapacity = 1
SYMMETRY Idle
INVARIANT ServerTypeOK
INVARIANT AckedIsWrittenOrQueued
INVARIANT QueueBounded
INVARIANT ListedAreLive
INVARIANT NewestFirst
INVARIANT OnlyHandshakeSwallowed
