\* Main and its first child spawn up to three threads on two tiles.
CONSTANTS
  Tiles = {0, 1, 2}
  SpawnerTile <- TwoSpawners
  ProcOf <- Tile2OnProcess1
  Quantum = 1
  SkewScheme = "lax"
  Parents = {0, 1}
  MaxThreads = 3
SPECIFICATION FairSpec
INVARIANTS TypeOK OnlyReuseFails JoinAfterExit SpawnLockHandedOver StatusAgrees
PROPERTIES AllTerminate
CHECK_DEADLOCK FALSE
