CONSTANTS
    None = None
    Listeners = {l1}
    ClientFds = {f1, f2}
    Conns = {c1, c2}
    Pids = {p1}
    MaxSegs = 2
    MaxUnits = 2
    SndBuf = 1
    IdleLimit = 0
    TotalLimit = 2
    CgiLimit = 0
    Behaviours = {"split", "idle"}
SPECIFICATION AttendedSpec
PROPERTY ImplementsExchange
