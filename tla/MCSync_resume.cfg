\* The threads of a barrier are on tiles 0 and 64.
CONSTANTS
  Tiles = {0, 64}
  SpawnerTile <- OneProcess
  ProcOf <- OnProcess0
  Quantum = 2
  SkewScheme = "lax"
  Programs <- BarrierPrograms
  Durations = {1}
  MaxTime = 0
  WordBits = 64
SPECIFICATION Spec
INVARIANTS BarrierResumesAll
CHECK_DEADLOCK FALSE
