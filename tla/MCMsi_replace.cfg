\* Three lines compete for the two ways of a directory set, which has room for
\* one sharer of each line.
CONSTANTS
  t1 = t1
  NULL = NULL
  Tiles = {t1, t2}
  Scheme = "limited_no_broadcast"
  MaxHwSharers = 1
  FetchAddrs = {c}
  LoadAddrs = {b}
  StoreAddrs = {a}
  AtomicAddrs = {}
  Home <- AllHomeT1
  Values = {0, 1}
  Zero = 0
  L1Ways = 1
  L2Ways = 1
  DirWays = 2
  MaxInFlight = 2
SPECIFICATION Spec
INVARIANTS NoAssertFails ReplacedNotShadowed ReadsLatest Coherent
CONSTRAINT InFlightBounded
