\* One client sends three segments; STDOUT is a pipe that takes a chunk or nothing.
SPECIFICATION FairSpec
CONSTANTS
  p1 = p1
  p2 = p2
  p3 = p3
  Clients = {p1}
  NoClient = none
  MaxClients = 1
  Sizes <- ThreeSegments
  BufSpace = 3
  Atomic = TRUE
  ReaderMayLeave = FALSE
  MaxLosses = 0
  NetCapacity = 1
PROPERTY OutputResumes
