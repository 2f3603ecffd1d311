SPECIFICATION ClientFairSpec
CONSTANTS
    Calls = {c1, c2}
    Paths = {src, mdl}
    Contents = {k1}
    src = src
    mdl = mdl
    rsl = rsl
    Empty = Empty
    Invalid = Invalid
    Editor = Editor
    Free = Free
    TaskRunner = "api"
    MaxRetries = 0
    MaxOpen = 2
    EditOps = {"delete"}
    MaxEdits = 1
    Faults = {"s3", "vacuum"}
    MaxFaults = 1
    StepTypeOf <- MCStepTypeOf
    Descendants <- MCDescendants
    Serial = TRUE
INVARIANTS ClientTypeOK OkIsMine OnlyVacuumBlocks ErrorIsExplained NoOrphanFile
PROPERTIES PollEnds ProcessingEnds
