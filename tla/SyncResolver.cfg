\* One client: a resolver that has not changed is deleted.
SPECIFICATION Spec
CONSTANTS
  c1 = c1
  c2 = c2
  Clients = {c1}
  Configs <- MCPair
  MaxSyncs = 5
  MaxLost = 0
CHECK_DEADLOCK FALSE
INVARIANT ResyncKeeps
