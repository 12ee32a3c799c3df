SPECIFICATION FairSpec
CONSTANTS
  N = 9
  Layouts <- Packs
  Workers = {w1, w2}
  Budget = 2
  Batch = 4
  NoEntry = NoEntry
INVARIANTS Bookkeeping ResultExact NothingPassedOver
PROPERTIES Termination
