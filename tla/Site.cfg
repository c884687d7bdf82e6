CONSTANTS
    Configs <- MCConfigs
    Requests <- MCRequests
    Disks <- MCDisks
    Changes <- MCChanges
    Width <- MCWidth
    MaxRequests = 1
    MaxChanges = 2
SPECIFICATION FairSpec
INVARIANT TypeOK
INVARIANT LongestMatch
INVARIANT StableAnswer
INVARIANT DoneAsAnswered
INVARIANT TargetInsideRoot
INVARIANT UploadIsKept
PROPERTY OnlyDeleteRemoves
PROPERTY MatchedIsAnswered
CHECK_DEADLOCK FALSE
