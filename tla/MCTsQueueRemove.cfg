CONSTANTS
  Thread = {t1, t2}
  Node = {n1, n2}
  Item = {a}
  NULL = NULL
  NoThread = NoThread
SPECIFICATION SpecWithRemove
CHECK_DEADLOCK FALSE
INVARIANT NoSelfDeadlock
