SPECIFICATION CodecSpec
CONSTANTS
  ByteBits = 3
  Base = 8
  MaxBits = 20
  SizeBytes = 3
  JAM_COMPATIBILITY_ENABLED = TRUE
  Types <- MCTypes
  Requests <- MCTypes
  Spans <- MCSpans
  Calls <- MCCalls
  Foreign <- MCForeign
  Used <- MCUsed
  Tails <- MCTails
  MaxSize = 5
  Allocatable = 3
INVARIANTS
  CodecTypeOK
  RoundTrip
  TruncationDetected
CHECK_DEADLOCK FALSE
