SPECIFICATION Spec
CONSTANTS
  MaxEvents = 3
  SeenWindow = 2
  MaxMishaps = 1
INVARIANT HealedIsCovered
CHECK_DEADLOCK FALSE
