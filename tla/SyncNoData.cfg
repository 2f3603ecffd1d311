\* One client: sync returns without data on the server.
SPECIFICATION Spec
CONSTANTS
  c1 = c1
  c2 = c2
  Clients = {c1}
  Configs <- MCPair
  MaxSyncs = 2
  MaxLost = 0
CHECK_DEADLOCK FALSE
INVARIANT SyncSendsData
