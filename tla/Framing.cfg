CONSTANTS
    Limits = {0, 6}
    Requests <- MCRequests
    SegMax = 60
    IntMax = 11
SPECIFICATION Spec
INVARIANT AnsweredAsSent
INVARIANT ServedWhole
INVARIANT NobodyWaitsInVain
