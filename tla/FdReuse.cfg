CONSTANTS
    None = None
    Listeners = {l1}
    ClientFds = {f1}
    Conns = {c1, c2}
    Pids = {p1}
    MaxSegs = 1
    MaxUnits = 1
    SndBuf = 1
    IdleLimit = 0
    TotalLimit = 1
    CgiLimit = 0
    Behaviours = {"cgi", "idle"}
SPECIFICATION Spec
INVARIANT OwnResponse
