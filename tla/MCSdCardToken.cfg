SPECIFICATION Spec
CONSTANTS
  Data = {d1}
  Garbage = junk
  CardBlocks = 3
  BlockSize = 2
  WordSize = 8
  PollMax = 1
  OpCondTries = 2
  Kinds = {"sd2"}
  BootStates = {"native", "absent"}
  Prompt = {}
  TokenErrors = TRUE
  SlowWrites = FALSE
  MaxSwaps = 0
  RawAccess = TRUE
  Ranges <- OneSector
INVARIANTS ReadsAreTrue
