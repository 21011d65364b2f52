\* More tiles with a request than ways in a directory set.
CONSTANTS
  t1 = t1
  NULL = NULL
  Tiles = {t1, t2}
  Scheme = "full_map"
  MaxHwSharers = 2
  FetchAddrs = {}
  LoadAddrs = {a, b}
  StoreAddrs = {a, b}
  AtomicAddrs = {}
  Home <- AllHomeT1
  Values = {0, 1}
  Zero = 0
  L1Ways = 1
  L2Ways = 1
  DirWays = 1
  MaxInFlight = 3
SPECIFICATION Spec
INVARIANTS ReplacementCandidateFound
