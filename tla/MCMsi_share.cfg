\* Three tiles load and atomically update one line, with fairness: requests
\* queue at the directory, which is on the first tile.
CONSTANTS
  t1 = t1
  NULL = NULL
  Tiles = {t1, t2, t3}
  Scheme = "full_map"
  MaxHwSharers = 3
  FetchAddrs = {}
  LoadAddrs = {a}
  StoreAddrs = {}
  AtomicAddrs = {a}
  Home <- AllHomeT1
  Values = {0}
  Zero = 0
  L1Ways = 1
  L2Ways = 1
  DirWays = 1
  MaxInFlight = 3
SPECIFICATION FairSpec
INVARIANTS TypeOK NoAssertFails SingleWriter RequestAnsweredOnce
PROPERTIES MissServed
