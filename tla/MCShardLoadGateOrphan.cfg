CONSTANTS
  t1 = t1
  t2 = t2
  t3 = t3
  k1 = k1
  p1 = p1
  p2 = p2
  Threads <- MCThreads
  Keys = {k1}
  Payloads = {p1, p2}
  Requests <- MCRequests
  Timeouts = {1}
  Limits = {1, 2}
  NoBytes = NoBytes
  MaxTime = 3
  MaxGenerations = 3
SPECIFICATION GateSpec
SYMMETRY ThreadSymmetry
INVARIANTS
  FollowersHearFromLeader
