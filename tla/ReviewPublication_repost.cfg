\* A retry of the final editor while a publication is in doubt.
CONSTANTS
    h1 = h1
    h2 = h2
    MaxJobs = 1
    Heads = {h1}
    Workers = 1
    Confirmations = 2
    Candidates = {FALSE}
    MaxPushes = 0
    MaxPolls = 0
    MaxCrashes = 1
    MaxDismissals = 1
    MaxCommands = 1
    MaxFaults = 0
SPECIFICATION Spec
INVARIANTS NoSecondReview
CHECK_DEADLOCK FALSE
