CONSTANTS
    None = None
    Process = {a, b}
    Header = 1
    Row = 2
    Calls = 2
SPECIFICATION FairSpec
INVARIANT TypeOK
INVARIANT HeaderOnlyFirst
INVARIANT LinesUnbroken
PROPERTY EveryCallEnds
