SPECIFICATION FairSpec
CONSTANTS
  server = server
  thread = thread
  job = job
  a1 = a1
  a2 = a2
  a3 = a3
  f1 = f1
  f2 = f2
  Appends = {a1, a2, a3}
  Flushers = {f1, f2}
  Scopes = {server, thread, job}
  Rows <- MCRows
  Size <- MCSize
  Isolated = {a2}
  Conditional = {a2}
  JobScope = job
  BatchMax = 3
  MaxOutbox = 2
  MaxMishaps = 1
INVARIANTS RepliesTellTheTruth CommittedInQueueOrder OutboxOnceInOrder
PROPERTIES DurableThenPublished WorkDrains
CHECK_DEADLOCK FALSE
