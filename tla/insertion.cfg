\* The search loop of ll_add_in_order, after a loss and a duplicate.
SPECIFICATION Spec
CONSTANTS
  Client = "client"
  Server = "server"
  ChunkSizes = {1}
  MaxChunks <- OneWay5
  MSS = 1
  RecvWindow = 100
  SendWindow = 100
  InitialCwnd = 10
  MinCwnd = 4
  BufSpace = 1
  StdoutBlocks = FALSE
  Timer = 1
  RtTimeout = 2
  MaxTransmissions = 6
  TimeWaitLimit = 2
  FaultKinds = {"drop","duplicate"}
  FaultTargets = {"data"}
  MaxFaults = 2
  NetCapacity = 40
  Prompt = TRUE
INVARIANT InsertionEnds
CHECK_DEADLOCK FALSE
