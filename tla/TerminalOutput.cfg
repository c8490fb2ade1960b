\* Output longer than the backlog, a channel that overflows, two broken connections.
CONSTANTS
    BacklogCap = 2
    LiveCap = 2
    PipeCap = 2
    MaxChunk = 2
    MaxBytes = 5
    MaxBreaks = 2
SPECIFICATION FairSpec
INVARIANT ShownFaithfully
PROPERTY ExitReachesClient
CHECK_DEADLOCK FALSE
