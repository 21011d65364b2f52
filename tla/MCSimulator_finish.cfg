\* Two processes, each with a thread spawner, and main in process 0, which makes
\* one request of the MCP and exits, run to their end, with fairness.
CONSTANTS
  NULL = NULL
  NumProcs = 2
  Tiles = {0, 1, 2, 3}
  Nodes <- AllNodes
  ProcOf <- Homes
  Msgs <- AllMessages
  MCPTile = 3
  MainTile = 0
  SpawnerTile <- Spawners
  Requests = 1
SPECIFICATION FairSpec
INVARIANTS WokenForPacket MCPQuitsLast QuietWhenDeleted
PROPERTIES AllDone
CHECK_DEADLOCK FALSE
