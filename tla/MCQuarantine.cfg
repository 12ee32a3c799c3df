SPECIFICATION Spec
CONSTANTS
  Paths = {obj, idx}
  Foreign = {obj}
  Runs = {r1, r2}
  NoRun = NoRun
  NoFile = NoFile
  Refilled = {obj}
  MaxWritten = 4
CONSTRAINT WriteBound
INVARIANTS Manifested
PROPERTIES OverwritesOnlyReplaced UndoPutsBack
