\* Main spawns a second thread on the tile of the first.
CONSTANTS
  Tiles = {0, 1}
  SpawnerTile <- TwoSpawners
  ProcOf <- Tile2OnProcess1
  Quantum = 1
  SkewScheme = "lax"
  Parents = {0}
  MaxThreads = 2
SPECIFICATION Spec
INVARIANTS TileReady
CHECK_DEADLOCK FALSE
