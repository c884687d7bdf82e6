CONSTANTS
    MaxOut = 4
    MaxErr = 4
    ReadMax = 2
    PipeCap = 3
    Limit = 1
    Pace = {0, 1}
SPECIFICATION ServedSpec
INVARIANT TypeOK
INVARIANT NothingLeftBehind
INVARIANT WholeIfEndedEarly
PROPERTY EveryRequestIsAnswered
PROPERTY WillingProgramEnds
