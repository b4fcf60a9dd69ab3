SPECIFICATION Spec
CONSTANTS
  MaxRequestBytes = 2
  CrcStep <- MCCrcStep
  RequestCommands = {0, 1, 2, 4, 8}
  PayloadLengths = {0, 2, 3}
  PayloadByte = 83
  UploadFiles <- MCUploadFiles
  FileSizes = {0, 2}
  ReadErrors = FALSE
  MayAbort = TRUE
  InDepth = 2
  OutDepth = 1
  MaxRequests = 2
INVARIANTS
  AlwaysAligned
\* A killed host leaves the Saturn waiting for the rest of its frame.
CHECK_DEADLOCK FALSE
