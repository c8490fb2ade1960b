SPECIFICATION FairSpec
CONSTANTS
  t1 = t1
  t2 = t2
  s1 = s1
  p1 = p1
  p2 = p2
  p3 = p3
  Threads = {t1}
  Sessions = {s1}
  Prompts = {p1, p2}
  SessionOf <- OneSession
  ThreadOf <- AllToOne
  Routed = {t1}
  FaultKinds = {"append"}
  MaxFaults = 1
  MaxCrashes = 1
  MaxCommands = 1
INVARIANTS NoOrphanClaim TurnsDoNotOverlap PromptKept PausedOnlyAfterInterruption FollowUpNotStranded
CHECK_DEADLOCK FALSE
PROPERTY CancelAcknowledged
