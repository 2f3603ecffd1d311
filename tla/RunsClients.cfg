SPECIFICATION Spec
\* clients stop when they have begun MaxOps operations
CHECK_DEADLOCK FALSE
CONSTANTS
    Clients = {c1, c2}
    None = None
    MaxOps = 4
    MaxLost = 1
    MaxAdmin = 1
SYMMETRY MCSymmetry
INVARIANTS TypeOK RunsInv OneDefault DefaultIsFrozen NewRunLeavesOne SetDefaultPublishes
PROPERTIES DefaultSurvives SetDefaultFailsFirst
