SPECIFICATION Spec
CHECK_DEADLOCK FALSE
CONSTANTS
    Clients = {c1, c2}
    None = None
    MaxOps = 3
    MaxLost = 0
    MaxAdmin = 0
PROPERTIES NewRunSparesDefault
