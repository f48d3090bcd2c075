CONSTANTS
  MaxAddresses = 2
  MaxFd = 2
  Sender = {c, r}
  Lengths = {0, 1, 3}
  SendBuffer = 2
SPECIFICATION FairSpec
\* The calls return, and the model follows nobody further.
CHECK_DEADLOCK FALSE
INVARIANTS
  TypeOK
  OnlyTheListener
  SentInOrder
PROPERTIES
  SendEnds
