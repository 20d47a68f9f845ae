\* Three segments of the real size, room for all of them, and one loss of data.
SPECIFICATION FileSpec
CONSTANTS
  Client = "client"
  Server = "server"
  ChunkSizes = {1440}
  MaxChunks <- OneWay3
  MSS = 1440
  RecvWindow = 14400
  SendWindow = 14400
  InitialCwnd = 10
  MinCwnd = 4
  BufSpace = 8192
  StdoutBlocks = FALSE
  Timer = 1
  RtTimeout = 5
  MaxTransmissions = 6
  TimeWaitLimit = 2
  FaultKinds = {"drop"}
  FaultTargets = {"data"}
  MaxFaults = 1
  NetCapacity = 40
  Prompt = TRUE
PROPERTY DropIsRecovered
CHECK_DEADLOCK FALSE
