SPECIFICATION Spec
CONSTANTS
  Data = {d1, d2}
  Garbage = junk
  CardBlocks = 3
  BlockSize = 2
  WordSize = 8
  PollMax = 1
  OpCondTries = 2
  Kinds = {"sd2", "sdhc", "mmc"}
  BootStates = {"native", "absent"}
  Prompt = {58}
  TokenErrors = FALSE
  SlowWrites = FALSE
  MaxSwaps = 0
  RawAccess = FALSE
  Ranges <- OnCard
PROPERTIES StoreImplemented
