CONSTANTS
    MaxOut = 4
    MaxErr = 3
    ReadMax = 2
    PipeCap = 3
    Limit = 1
    Pace = {0, 1}
SPECIFICATION Spec
INVARIANT OutputComplete
