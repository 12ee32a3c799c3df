SPECIFICATION FairSpec
CONSTANTS
  Objects = {1, 2, 3, 4}
  Packs = {1, 2}
  MaxDeltaChain = 2
  Stores <- Databases
  NoObject = NoObject
  Nowhere = Nowhere
  Readers = {r1, r2}
  Failed = Failed
  NoResult = NoResult
  Shards = {1, 2}
  Shard <- ShardOf
  Length <- LengthOf
  ShardLimit = 2
INVARIANTS Bookkeeping TypesAgree
PROPERTIES ReadsAsIfAlone
