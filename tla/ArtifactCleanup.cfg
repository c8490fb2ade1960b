CONSTANTS
  r1 = r1
  r2 = r2
  f1 = f1
  f2 = f2
  d1 = d1
  w1 = w1
  Requests = {r1, r2}
  Files = {f1, f2}
  FilesOf <- MCFilesOf
  Removals = {d1}
  Deletion = Deletion
  Retries = {w1}
  None = None
  MaxMishaps = 1
SPECIFICATION FairSpec
PROPERTY JobsRetire
INVARIANTS OwnedFilesKept NoFileForgotten SessionLeavesNothing
CHECK_DEADLOCK FALSE
