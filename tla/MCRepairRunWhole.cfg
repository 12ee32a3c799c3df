SPECIFICATION FairSpec
CONSTANTS
  tip = tip
  old = old
  tree = tree
  file = file
  main = main
  side = side
  graph = graph
  NoItem = NoItem
  PacksList = PacksList
  Objects = {tip, old, tree, file}
  Links <- History
  Blobs = {file}
  Packs = {1, 2}
  Refs = {main, side}
  Packed = {side}
  RefLog <- Log
  Worktrees = {1, 2}
  Named <- InIndex
  Rebuilt <- FromIndexes
  Remote = {tip, tree}
  Caches = {graph}
  Damages <- WholeDamage
  MaxRuns = 2
  Kills = TRUE
INVARIANTS CostOfDisplacing SingleLinesKept CopiesUnusedOnlyOfBlobs
PROPERTIES StaysReadable
