SPECIFICATION Spec
CONSTANTS
  Lengths = {0, 1, 6}
  Number = {0, 1, 3, 6}
  MaxSpecs = 4
  RxBuffer = 2
  MaxVersions = 1
  Limits <- SomeLimits
INVARIANT StatusFits
