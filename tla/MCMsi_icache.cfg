\* One tile fetches and loads the same lines.
CONSTANTS
  t1 = t1
  NULL = NULL
  Tiles = {t1}
  Scheme = "full_map"
  MaxHwSharers = 2
  FetchAddrs = {a, b}
  LoadAddrs = {a, b}
  StoreAddrs = {}
  AtomicAddrs = {}
  Home <- AllHomeT1
  Values = {0, 1}
  Zero = 0
  L1Ways = 1
  L2Ways = 1
  DirWays = 2
  MaxInFlight = 3
SPECIFICATION Spec
INVARIANTS EvictedL1LineInL2
