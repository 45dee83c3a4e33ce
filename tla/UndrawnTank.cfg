SPECIFICATION MCSpec
CONSTANTS
  p1 = p1
  p2 = p2
  p3 = p3
  f1 = f1
  f2 = f2
  f3 = f3
  t1 = t1
  t2 = t2
  NoPlayer = NoPlayer
  NoFlag = NoFlag
  Players <- MCPlayers
  Flags <- MCFlags
  ShotIds = {}
  MaxPlayers = 2
  MaxFlags = 2
  MaxShots = 1
  MaxOrder = 0
  MaxBatch = 0
  Tanks <- MCTanks
  MaxTanks = 2
  Reported = {{}, {"alive"}}
  Wins = {0, 1}
  Geometries <- MCGeometries
  MaxRevision = 3
  MaxRenderObjects = 9
SYMMETRY Symmetry
INVARIANT AliveTanksDrawn
CHECK_DEADLOCK FALSE
