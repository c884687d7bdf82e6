CONSTANTS
    None = None
    Listeners = {l1}
    ClientFds = {f1}
    Conns = {c1, c2}
    Pids = {p1}
    MaxSegs = 1
    MaxUnits = 2
    SndBuf = 1
    IdleLimit = 0
    TotalLimit = 0
    CgiLimit = 0
    Behaviours = {"cgi", "reset", "slow", "idle"}
SPECIFICATION AttendedSpec
PROPERTY EveryClientIsClosed
PROPERTY EveryCallerIsAccepted
PROPERTY EveryCgiIsFinalised
PROPERTY CleanupEnds
