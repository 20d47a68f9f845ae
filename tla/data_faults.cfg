\* Five segments of the real size, a window of three of them, and two data segments
\* lost or overtaken: enough for the buffer to overflow, for the search for a place
\* not to end, for a segment to block the next one, and for every recovery.  STDIN is
\* a file.
SPECIFICATION FileSpec
CONSTANTS
  Client = "client"
  Server = "server"
  ChunkSizes = {1440}
  MaxChunks <- OneWay5
  MSS = 1440
  RecvWindow = 4320
  SendWindow = 4320
  InitialCwnd = 10
  MinCwnd = 4
  BufSpace = 8192
  StdoutBlocks = FALSE
  Timer = 1
  RtTimeout = 1
  MaxTransmissions = 4
  TimeWaitLimit = 2
  FaultKinds = {"drop", "delay"}
  FaultTargets = {"data"}
  MaxFaults = 2
  NetCapacity = 40
  Prompt = TRUE
INVARIANT ReceiveAccounting
INVARIANT NothingStaleBuffered
PROPERTY LostDataIsRecovered
PROPERTY AlwaysCloses
CHECK_DEADLOCK FALSE
