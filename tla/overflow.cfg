\* A receive window of one segment (the default -w 1) and one loss.
SPECIFICATION Spec
CONSTANTS
  Client = "client"
  Server = "server"
  ChunkSizes = {1440}
  MaxChunks <- OneWay3
  MSS = 1440
  RecvWindow = 1440
  SendWindow = 1440
  InitialCwnd = 10
  MinCwnd = 4
  BufSpace = 8192
  StdoutBlocks = FALSE
  Timer = 1
  RtTimeout = 5
  MaxTransmissions = 6
  TimeWaitLimit = 2
  FaultKinds = {"drop"}
  FaultTargets = {"data"}
  MaxFaults = 1
  NetCapacity = 40
  Prompt = TRUE
INVARIANT OverflowIsDropped
CHECK_DEADLOCK FALSE
