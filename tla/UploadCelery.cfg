SPECIFICATION FairSpec
CONSTANTS
    Calls = {c1, c2}
    Paths = {mdl}
    Contents = {k1}
    src = src
    mdl = mdl
    rsl = rsl
    Empty = Empty
    Invalid = Invalid
    Editor = Editor
    Free = Free
    TaskRunner = "celery"
    MaxRetries = 1
    MaxOpen = 1
    EditOps = {"delete"}
    MaxEdits = 1
    Faults = {"redeliver", "s3", "publish", "vacuum"}
    MaxFaults = 2
    StepTypeOf <- MCStepTypeOf
    Descendants <- MCDescendants
INVARIANTS EdgesSetOnce CompleteHasItsData
PROPERTY ProcessingEnds
