\* Two chunks one way, STDOUT taking part of what it is given, and the close of both
\* directions in every order, under any one fault, with retransmissions that overlap
\* the originals.
SPECIFICATION Spec
CONSTANTS
  Client = "client"
  Server = "server"
  ChunkSizes = {1}
  MaxChunks <- OneWay2
  MSS = 1
  RecvWindow = 20
  SendWindow = 20
  InitialCwnd = 10
  MinCwnd = 4
  BufSpace = 1
  StdoutBlocks = TRUE
  Timer = 1
  RtTimeout = 1
  MaxTransmissions = 3
  TimeWaitLimit = 2
  FaultKinds = {"drop", "duplicate", "delay", "corrupt"}
  FaultTargets = {"data", "ack", "fin"}
  MaxFaults = 1
  NetCapacity = 3
  Prompt = FALSE
INVARIANT TypeOK
INVARIANT InOrderDelivery
INVARIANT AckedWasOutput
INVARIANT InFlightAccounting
INVARIANT CloseIsComplete
INVARIANT TerminationAgrees
INVARIANT FinStored
INVARIANT NoAssertFails
INVARIANT StreamInvariant
PROPERTY ImplementsStreams
CHECK_DEADLOCK FALSE
