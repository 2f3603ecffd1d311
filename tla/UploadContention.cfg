SPECIFICATION Spec
CONSTANTS
    Calls = {c1, c2}
    Paths = {src}
    Contents = {k1}
    src = src
    mdl = mdl
    rsl = rsl
    Empty = Empty
    Invalid = Invalid
    Editor = Editor
    Free = Free
    TaskRunner = "api"
    MaxRetries = 0
    MaxOpen = 2
    EditOps = {}
    MaxEdits = 0
    Faults = {}
    MaxFaults = 0
    StepTypeOf <- MCStepTypeOf
    Descendants <- MCDescendants
INVARIANT ReadyCanBeTried
