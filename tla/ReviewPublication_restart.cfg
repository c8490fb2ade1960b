\* One job, a restart, a dismissal, a command, and GitHub failing.
CONSTANTS
    h1 = h1
    h2 = h2
    MaxJobs = 1
    Heads = {h1}
    Workers = 1
    Confirmations = 2
    Candidates = {TRUE}
    MaxPushes = 0
    MaxPolls = 1
    MaxCrashes = 1
    MaxDismissals = 1
    MaxCommands = 1
    MaxFaults = 2
SPECIFICATION FairSpec
INVARIANTS TypeOK NoSecondReview ClaimsOfPublicationAreTrue CancelledIsUnpublished
PROPERTY JobSettles
CHECK_DEADLOCK FALSE
