\* One lost ACK; a round trip is shorter than a timer period.
SPECIFICATION Spec
CONSTANTS
  Client = "client"
  Server = "server"
  ChunkSizes = {1440}
  MaxChunks <- OneWay2
  MSS = 1440
  RecvWindow = 14400
  SendWindow = 14400
  InitialCwnd = 10
  MinCwnd = 4
  BufSpace = 8192
  StdoutBlocks = FALSE
  Timer = 1
  RtTimeout = 5
  MaxTransmissions = 6
  TimeWaitLimit = 2
  FaultKinds = {"drop"}
  FaultTargets = {"ack"}
  MaxFaults = 1
  NetCapacity = 40
  Prompt = TRUE
INVARIANT TornDownIfUnresponsive
CHECK_DEADLOCK FALSE
