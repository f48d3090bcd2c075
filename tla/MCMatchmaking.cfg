CONSTANTS
  Client = {c1, c2, c3}
  MaxFd = 3
  RoomSize = 2
  MaxFailures = 9
  Faults = {"conn_data", "room", "room_thread"}
  NoClient = NoClient
  Nobody = Nobody
SPECIFICATION Spec
SYMMETRY ClientSymmetry
\* A matcher that died with the mutex stops the others.
CHECK_DEADLOCK FALSE
INVARIANTS
  TypeOK
  DescriptorsAccounted
  SendReachesOwnClient
  NoUseAfterFree
PROPERTY DeadMatcherFreezesLobby
