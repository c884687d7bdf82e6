CONSTANTS
    None = None
    Listeners = {l1}
    ClientFds = {f1, f2}
    Conns = {c1, c2}
    Pids = {p1}
    MaxSegs = 1
    MaxUnits = 2
    SndBuf = 1
    IdleLimit = 0
    TotalLimit = 1
    CgiLimit = 0
    Behaviours = {"cgi"}
SPECIFICATION DiligentSpec
INVARIANT EveryCgiTracked
INVARIANT CgiDeadline
PROPERTY ClosedForCause
PROPERTY ImplementsExchange
