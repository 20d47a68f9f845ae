\* The accepted client sends a segment and closes, another is refused; STDOUT blocks.
SPECIFICATION Spec
CONSTANTS
  p1 = p1
  p2 = p2
  p3 = p3
  Clients = {p1, p2}
  NoClient = none
  MaxClients = 1
  Sizes <- OneSends
  BufSpace = 10
  Atomic = FALSE
  ReaderMayLeave = FALSE
  MaxLosses = 0
  NetCapacity = 1
INVARIANT ClosedIsWritten
