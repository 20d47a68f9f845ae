\* All four modes within a few acknowledgements: a filter of three samples, a
\* minimum window of two segments and a min_rtt filter of three ticks.
SPECIFICATION Spec
CONSTANTS
  Word = 4096
  BW_UNIT = 16
  USEC_PER_SEC = 3
  MSS = 2
  SegmentSizes = {2}
  WindowRtts = 3
  InitialCwnd = 4
  MinTarget = 2
  FullBwCnt = 1
  MinRttWin = 3
  ProbeRttTime = 1
  InitialRtt = 3
  MinGap = 0
  ShortWord = 4
  MaxTime = 9
  MaxRtt = 3
  MaxSegments = 5
  MaxWaiting = 1
INVARIANT BbrTypeOK
INVARIANT FilterHoldsMaximum
INVARIANT PipeFullAndMode
INVARIANT AppLimitedWithinFlight
INVARIANT ProbeRttFlight
CHECK_DEADLOCK FALSE
