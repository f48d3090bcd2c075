CONSTANTS
  Thread = {t1, t2, t3}
  Node = {n1, n2, n3, n4}
  Item = {a, b}
  NULL = NULL
  NoThread = NoThread
SPECIFICATION Spec
\* A destroyed queue is the end.
CHECK_DEADLOCK FALSE
SYMMETRY Symmetry
INVARIANTS
  TypeOK
  WellFormed
  NodesAccounted
PROPERTY FifoSpec
