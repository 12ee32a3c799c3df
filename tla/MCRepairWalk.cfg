SPECIFICATION FairSpec
CONSTANTS
  Objects = {1, 2, 3}
  Workers = {w1, w2}
  NoObject = 0
  Repos <- MCRepos
  MaxHunt = 1
INVARIANTS Bookkeeping ReadOnce WalkExact RoutesReal
PROPERTY Termination
