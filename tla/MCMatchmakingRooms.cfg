CONSTANTS
  Client = {c1, c2, c3, c4}
  MaxFd = 4
  RoomSize = 2
  MaxFailures = 1
  Faults = {}
  NoClient = NoClient
  Nobody = Nobody
SPECIFICATION Spec
SYMMETRY ClientSymmetry
INVARIANTS
  OneHome
  UniqueIds
  NoLostWakeup
PROPERTY LobbySpec
