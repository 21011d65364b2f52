\* Three threads use a mutex, a condition or a barrier under the clock barrier,
\* with fairness.
CONSTANTS
  Tiles = {0, 1, 2}
  SpawnerTile <- OneProcess
  ProcOf <- OnProcess0
  Quantum = 2
  SkewScheme = "lax_barrier"
  Programs <- AllPrograms
  Durations = {2}
  MaxTime = 2
  WordBits = 64
SPECIFICATION FairSpec
INVARIANTS TypeOK NoAssertFails MutualExclusion StatusFits AcquiredIsLate SkewBounded BarrierSeparates BarrierAdvancesClock
PROPERTIES QuantumBarrier AllFinish
CHECK_DEADLOCK FALSE
