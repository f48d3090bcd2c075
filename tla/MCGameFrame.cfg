CONSTANTS
  MaxEntities = 6
  Walls = 1
  ParticlesPerHit = 1
  Lifetimes = {1, 2}
  IterationCap = 2
SPECIFICATION FairSpec
\* The program ends on QUIT.
CHECK_DEADLOCK FALSE
INVARIANTS
  TypeOK
  LookupsFind
  EssentialsLast
  ParticlesAge
  MarkedAreGone
PROPERTIES
  CollidersStay
  FrameEnds
