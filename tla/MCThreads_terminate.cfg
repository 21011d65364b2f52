\* Main ends the thread spawners of two processes.
CONSTANTS
  Tiles = {0, 1}
  SpawnerTile <- TwoSpawners
  ProcOf <- Tile2OnProcess1
  Quantum = 1
  SkewScheme = "lax"
  Parents = {0}
  MaxThreads = 1
SPECIFICATION FairSpec
PROPERTIES MainLeaves
CHECK_DEADLOCK FALSE
