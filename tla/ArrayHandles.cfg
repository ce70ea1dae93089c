CONSTANTS
    Readers = {r1, r2}
    Paths = {"p"}
    MaxContexts = 3
    MaxVersion = 1
SYMMETRY Symmetry
SPECIFICATION Spec
INVARIANTS NoHandleOfBefore OneHandle
PROPERTIES ClosedStoresLetGo
CHECK_DEADLOCK FALSE
