SPECIFICATION Spec
CONSTANTS
  Requests = {r1, r2}
  Sizes = {1, 2}
  LimitBytes = 4
  WarningPercent = 50
  CriticalPercent = 75
  MaxBatch = 2
  MaxBlobs = 3
SYMMETRY Symmetry
PROPERTY OncePerCrossing
