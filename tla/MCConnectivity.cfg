SPECIFICATION FairSpec
CONSTANTS
  Objects = {1, 2, 3, 4}
  Workers = {w1, w2, w3}
  Batch = 1
  Nobody = 0
  Repos <- MCRepos
  Shapes <- AllShapes
INVARIANTS Bookkeeping TraverseExact ReportRight
PROPERTY Termination
