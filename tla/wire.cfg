\* Bytes of two bits: sequence numbers wrap at 256, and more bytes are sent.
SPECIFICATION Spec
CONSTANTS
  None = none
  Bits = 2
  HeaderSize = 9
  PseudoHeader = 27
  TH_ACK = 2
  InitSeqnos = {3, 127}
  Window = 6
  Payloads <- SomePayloads
  MaxBytes = 260
INVARIANT IntactSurvives
INVARIANT FlipIsRefused
INVARIANT TakenOnce
INVARIANT PassesUntilWrap
