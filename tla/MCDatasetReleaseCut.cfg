SPECIFICATION ReleaseSpec
CONSTANTS
  Ranks = {0, 1}
  good = good
  bad = bad
  JobRequests <- MCJobRequests
  MinUncertaintyWindows = 3
  MinNoveltyScore = 50
  MaxSafetyEvents = 0
  EpisodeContents <- MCEpisodeContents
  AcceptedContents = {good}
  Missing = Missing
  Torn = Torn
  MaxReleases = 2
  MaxFailures = 2
INVARIANTS
  DatasetIsWhole
CHECK_DEADLOCK FALSE
