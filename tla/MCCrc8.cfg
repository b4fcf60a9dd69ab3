SPECIFICATION CrcSpec
CONSTANTS
  DataBytes <- MCDataBytes
  Errors <- MCErrors
  MaxMessage = 3
  MaxChunk = 2
INVARIANTS
  CrcTypeOK
  ChunkingIsIrrelevant
  OneByteErrorDetected
\* A message of MaxMessage bytes is complete.
CHECK_DEADLOCK FALSE
