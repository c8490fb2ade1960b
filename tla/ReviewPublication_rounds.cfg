\* Two rounds of a pull request that is pushed to, polled and retried in between.
CONSTANTS
    h1 = h1
    h2 = h2
    MaxJobs = 2
    Heads = {h1, h2}
    Workers = 1
    Confirmations = 1
    Candidates = {FALSE}
    MaxPushes = 1
    MaxPolls = 1
    MaxCrashes = 0
    MaxDismissals = 0
    MaxCommands = 1
    MaxFaults = 0
SPECIFICATION Spec
SYMMETRY HeadSymmetry
INVARIANT LastReviewedIsReal
PROPERTY LastReviewedAdvances
CHECK_DEADLOCK FALSE
