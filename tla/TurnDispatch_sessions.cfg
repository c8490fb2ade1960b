SPECIFICATION Spec
CONSTANTS
  t1 = t1
  t2 = t2
  s1 = s1
  p1 = p1
  p2 = p2
  p3 = p3
  Threads = {t1, t2}
  Sessions = {s1}
  Prompts = {p1, p2}
  SessionOf <- OneSession
  ThreadOf <- Spread
  Routed = {t2}
  FaultKinds = {"append", "row"}
  MaxFaults = 2
  MaxCrashes = 0
  MaxCommands = 1
INVARIANTS ActivityAgrees DeletionExcludesTurns
CHECK_DEADLOCK FALSE
