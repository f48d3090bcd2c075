CONSTANTS
  IntRange = 16
  TicksPerMs = 3
  Interval = 2
  LongestFrame = 5
  Horizon = 75
SPECIFICATION Spec
\* run_every returns when its function says so; time stops at Horizon.
CHECK_DEADLOCK FALSE
INVARIANTS
  TypeOK
  DeltaIsElapsed
  NeverEarly
