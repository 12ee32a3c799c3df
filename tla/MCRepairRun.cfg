SPECIFICATION FairSpec
CONSTANTS
  tip = tip
  old = old
  tree = tree
  file = file
  main = main
  side = side
  graph = graph
  NoItem = NoItem
  PacksList = PacksList
  Objects = {tip, old, tree}
  Links <- History
  Blobs = {}
  Packs = {1, 2}
  Refs = {main}
  Packed = {}
  RefLog <- Log
  Worktrees = {1}
  Named <- InIndex
  Rebuilt <- FromIndexes
  Remote = {tip, old}
  Caches = {graph}
  Damages <- ObjectDamage
  MaxRuns = 1
  Kills = FALSE
INVARIANTS ReportExact SourcesExhausted
PROPERTIES StaysReadable Termination
