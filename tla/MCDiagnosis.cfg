SPECIFICATION Spec
CONSTANTS
  Objects = {1, 2, 3}
  NoObject = NoObject
  Repos <- AllRepos
  Workers = 2
  MaxRuns = 2
INVARIANTS VerdictHolds SkipIsSafe OrderIsHidden
