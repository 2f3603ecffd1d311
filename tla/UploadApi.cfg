SPECIFICATION Spec
CONSTANTS
    Calls = {c1, c2}
    Paths = {src, rsl}
    Contents = {k1}
    src = src
    mdl = mdl
    rsl = rsl
    Empty = Empty
    Invalid = Invalid
    Editor = Editor
    Free = Free
    TaskRunner = "api"
    MaxRetries = 0
    MaxOpen = 2
    EditOps = {"create", "mutable"}
    MaxEdits = 2
    Faults = {"crash", "vacuum"}
    MaxFaults = 1
    StepTypeOf <- MCStepTypeOf
    Descendants <- MCDescendants
SYMMETRY MCSymmetry
INVARIANTS CompleteHasItsData TypeOK UploadInv OneUpload DataSetOnce
PROPERTIES CompleteIsFinal ContractSpec
