CONSTANTS
  Client = {c1, c2, c3}
  MaxFd = 2
  RoomSize = 2
  MaxFailures = 1
  Faults = {}
  NoClient = NoClient
  Nobody = Nobody
SPECIFICATION FairSpec
PROPERTIES
  MatchHappens
  OnConnectionCalled
  SendFailureReturns
