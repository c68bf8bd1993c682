CONSTANTS
  MaxPoints = 2
  Fingers = {0, 1}
  Batch = 3
  MaxTouches = 4
SPECIFICATION Spec
INVARIANT ReleasedIsTold
CHECK_DEADLOCK FALSE
