\* Ackwise with one hardware sharer; two lines share the single way of the L1-D
\* and both fit in the L2; one is stored to and atomically updated.
CONSTANTS
  t1 = t1
  NULL = NULL
  Tiles = {t1, t2}
  Scheme = "ackwise"
  MaxHwSharers = 1
  FetchAddrs = {}
  LoadAddrs = {a, b}
  StoreAddrs = {a}
  AtomicAddrs = {a}
  Home <- AllHomeT1
  Values = {0, 1}
  Zero = 0
  L1Ways = 1
  L2Ways = 2
  DirWays = 2
  MaxInFlight = 3
SPECIFICATION Spec
INVARIANTS NoAssertFails L1DInclusion ReadsLatest SingleWriter AtomicUpdate
CONSTRAINT InFlightBounded
