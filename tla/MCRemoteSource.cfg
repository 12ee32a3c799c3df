SPECIFICATION FairSpec
CONSTANTS
  Names = {1, 2, 3, 4, 5}
  Links <- History
  Remote = {1, 2, 3, 4}
  Passes <- SomePasses
  WantBatch = 2
  MaxPasses = 3
INVARIANTS Bookkeeping HadOrExplained
PROPERTIES ImplementsRung
