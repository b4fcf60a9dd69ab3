SPECIFICATION Spec
CONSTANTS
  Data = {d1}
  Garbage = junk
  CardBlocks = 3
  BlockSize = 2
  WordSize = 8
  PollMax = 1
  OpCondTries = 2
  Kinds = {"mmc", "sd1", "sd2", "sdhc", "odd"}
  BootStates = {"native", "absent"}
  Prompt = {}
  TokenErrors = TRUE
  SlowWrites = TRUE
  MaxSwaps = 1
  RawAccess = TRUE
  Ranges <- OnCard
INVARIANTS TypeOK AnswersMatch Released RightBlock
PROPERTIES EveryCallReturns
