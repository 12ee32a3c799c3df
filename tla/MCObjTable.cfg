SPECIFICATION TableFairSpec
CONSTANTS
  Names = {1, 2, 3, 4, 5}
  Kinds = {"tree", "blob"}
  NoType = "none"
  AnyType = "any"
  Checkers = {w1, w2}
  Nobody = Nobody
  Stores <- Repositories
  Shards = {1, 2}
  ShardOf <- Shard2
  Key <- Keys
  Start = 2
  SlabSize = 2
  MaxIndex = 3
  EdgeSlabSize = 3
  Nil = Nil
INVARIANTS Bookkeeping EdgesLead
PROPERTIES EntriesStay EveryObjectWalked
