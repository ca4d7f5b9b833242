SPECIFICATION MCSpec
CONSTANTS
  ByteBits = 3
  Base = 8
  MaxBits = 20
  SizeBytes = 4
  JAM_COMPATIBILITY_ENABLED = FALSE
  Types <- MCTypes
  Calls <- MCCalls
  MaxWritten = 1
INVARIANTS
  TypeOK
  SizeIsExact
  CallPutsEncoding
PROPERTIES
  AppendOnly
  CountingAgrees
  CallsEnd
CHECK_DEADLOCK FALSE
