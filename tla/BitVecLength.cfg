SPECIFICATION Spec
CONSTANTS
  ByteBits = 3
  Base = 8
  MaxBits = 20
  SizeBytes = 4
  JAM_COMPATIBILITY_ENABLED = FALSE
  Types <- MCTypes
  Spans <- MCSpans
  Requests <- BitVecOnly
  MaxSize = 3
  Allocatable = 2
INVARIANTS
  OnlySystemErrors
