CONSTANTS
  Client = {c1, c2}
  MaxFd = 2
  RoomSize = 2
  MaxFailures = 0
  Faults = {"conn_data"}
  NoClient = NoClient
  Nobody = Nobody
SPECIFICATION FairSpec
PROPERTY OnConnectionCalled
