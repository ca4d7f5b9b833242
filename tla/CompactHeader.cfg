SPECIFICATION Spec
CONSTANTS
  ByteBits = 8
  Base = 256
  MaxBits = 31
  SizeBytes = 3
  Values <- MCValues
  JAM_COMPATIBILITY_ENABLED = FALSE
INVARIANTS
  HeaderCountsBytes
CHECK_DEADLOCK FALSE
