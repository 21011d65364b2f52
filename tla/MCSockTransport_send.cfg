\* Two processes send to a node of one of them, pass barriers and end their
\* update threads, with fairness.
CONSTANTS
  NULL = NULL
  NumProcs = 2
  Nodes <- OneNode
  ProcOf <- OnProcess0
  Workloads <- Loads
  MaxSends = 2
  Sems <- AllSems
  Waiters <- AllWaiters
SPECIFICATION FairSpec
INVARIANTS SemTypeOK NoLostWakeup ListCounted
PROPERTIES KeepsPromise Delivered AllExit
CHECK_DEADLOCK FALSE
