SPECIFICATION Spec
CONSTANTS
  Keys = {h1, h2}
  Rate = 2
  Interval = 3
  MaxTime = 6
INVARIANTS
  TypeOK
  WindowBound
  RefusalJustified
