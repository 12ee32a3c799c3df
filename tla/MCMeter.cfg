SPECIFICATION MeterFairSpec
CONSTANTS
  w1 = w1
  w2 = w2
  Steppers = {w1, w2}
  Owner = Owner
  NoDrawer = NoDrawer
  NoLine = NoLine
  Phases <- SomePhases
INVARIANTS ScreenRight
PROPERTIES OnlyForwards PhaseEnds
