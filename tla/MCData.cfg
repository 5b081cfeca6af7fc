SPECIFICATION DataSpec
CONSTANTS
  Ranks = {0, 1}
  good = good
  bad = bad
  JobRequests <- MCJobRequests
  MinUncertaintyWindows = 3
  MinNoveltyScore = 50
  MaxSafetyEvents = 0
  EpisodeContents <- MCEpisodeContents
  AcceptedContents = {good}
  Missing = Missing
  Torn = Torn
  MaxReleases = 2
  MaxFailures = 2
  t1 = t1
  t2 = t2
  t3 = t3
  k1 = k1
  p1 = p1
  p2 = p2
  Threads <- MCThreads
  Keys = {k1}
  Payloads = {p1, p2}
  Requests <- MCRequests
  Timeouts = {1}
  Limits = {1, 2}
  NoBytes = NoBytes
  MaxTime = 2
  MaxGenerations = 2
INVARIANTS
  OnlyUnfinishedReportsLoseJobs
  AdmissionBudget
  ReturnedVerified
PROPERTIES
  VerdictIsFinal
  CallsEnd
