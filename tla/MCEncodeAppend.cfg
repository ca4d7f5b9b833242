SPECIFICATION Spec
CONSTANTS
  ByteBits = 3
  Base = 8
  MaxBits = 20
  SizeBytes = 4
  JAM_COMPATIBILITY_ENABLED = FALSE
  CountBytes = 4
  Vectors <- MCVectors
  Inputs <- MCInputs
  Counts <- MCCounts
  MaxLength = 7
INVARIANTS
  TypeOK
  FailedCallKeepsBytes
PROPERTIES
  ImplementsOpaqueVector
CHECK_DEADLOCK FALSE
