SPECIFICATION Spec
CONSTANTS
  Paths <- TestPaths
  MaxPath = 3
  MaxNumber = 4
  NumberChars = {0, 1, 2, 3, 4, 15, 16}
  OtherChars = {17, 18, 20}
  WordMax = 33
  CardSectors = 9
CHECK_DEADLOCK FALSE
INVARIANTS TypeOK ParsedAsMeant ErasedInRange OkMeansErased HandleClosed
PROPERTIES EventuallyAnswered
