\* Two clients of one run.
SPECIFICATION Spec
CONSTANTS
  c1 = c1
  c2 = c2
  Clients = {c1, c2}
  Configs <- MCConfigs
  MaxSyncs = 5
  MaxLost = 1
SYMMETRY ClientSymmetry
CHECK_DEADLOCK FALSE
INVARIANTS TypeOK ParentsTyped ParentsNamed LineageIsClosure LineageInv SyncMirrors SyncedData
