CONSTANTS
  j1 = j1
  w1 = w1
  w2 = w2
  good = good
  other = other
  bad = bad
  Jobs = {j1}
  Workers = {w1, w2}
  Contents = {good, other, bad}
  Accepted = {good, other}
  None = None
  MaxAttempts = 2
  UploadAttempts = 2
  MaxLosses = 2
SPECIFICATION SimSpec
PROPERTIES
  CompletedCommitIsNeverOverwritten
