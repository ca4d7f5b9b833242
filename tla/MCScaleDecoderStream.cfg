SPECIFICATION Spec
CONSTANTS
  ByteBits = 3
  Base = 8
  MaxBits = 20
  SizeBytes = 4
  JAM_COMPATIBILITY_ENABLED = FALSE
  Types <- MCTypes
  Spans <- MCSpans
  Requests <- MCRequests
  MaxSize = 3
  Allocatable = 2
INVARIANTS
  DecoderTypeOK
  TargetIsAnObject
PROPERTIES
  WritesOnlyItsArgument
  VariantKeptUntilAssigned
  CallsEnd
