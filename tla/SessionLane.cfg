CONSTANTS
  n1 = n1
  r1 = r1
  v1 = v1
  v2 = v2
  v3 = v3
  c1 = c1
  c2 = c2
  s1 = s1
  s2 = s2
  Tools = {n1, r1}
  Mutating = {n1}
  Vendors = {v1, v2, v3}
  Pinned = {v2}
  Calls = {c1, c2}
  Steers = {s1, s2}
  VendorOf <- MCVendorOf
  Casts <- MCCasts
SPECIFICATION FairSpec
INVARIANTS AskedAndSettled SteeredAsTold
PROPERTIES LaneKept NoneAdmittedDuringCleanup LaneWaitEnds
CHECK_DEADLOCK FALSE
