CONSTANTS
  Base = 4
  Capacity = 5
  FloatScale = 10
  FloatUnit = 64
  Precision = 64
  Numbers <- MCNumbers
SPECIFICATION ArraySpec
INVARIANTS
  ArrayTypeOK
  ReadsBack
