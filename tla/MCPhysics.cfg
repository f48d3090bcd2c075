CONSTANTS
  Side = 4
  TileSize = 10
  PlayerSize = 8
  BulletSize = 2
  Start <- MCStart
  Speed = 3
  DiagonalSpeed = 2
  BulletSpeeds <- MCBulletSpeeds
  FrameTimes = {1, 2, 3}
  Cap = 100
  Instants = 6
SPECIFICATION Spec
INVARIANTS
  TypeOK
  StaysInRoom
  KeepsTime
  ShotsHitWallsOnly
