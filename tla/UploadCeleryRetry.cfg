SPECIFICATION Spec
CONSTANTS
    Calls = {c1, c2}
    Paths = {src}
    Contents = {k1}
    src = src
    mdl = mdl
    rsl = rsl
    Empty = Empty
    Invalid = Invalid
    Editor = Editor
    Free = Free
    TaskRunner = "celery"
    MaxRetries = 1
    MaxOpen = 1
    EditOps = {}
    MaxEdits = 0
    Faults = {}
    MaxFaults = 0
    StepTypeOf <- MCStepTypeOf
    Descendants <- MCDescendants
PROPERTY CompleteIsFinal
