SPECIFICATION OperationsSpec
CONSTANTS
  Nothing = Nothing
  Capacity <- MCCapacity
  MaxStateAge = 0
  ControlWindow = 1
  MaxPackets = 3
  MaxTime = 1
  Planners = {p1, p2}
  MaxRequests = 3
  h1 = h1
  h2 = h2
  oldRev = oldRev
  newRev = newRev
  Holders = {h1, h2}
  Inputs <- MCInputs
  Revisions = {oldRev, newRev}
  LeaseSeconds = {1, 2}
  NoHolder = NoHolder
  MaxClock = 4
  MaxGeneration = 3
  first = first
  second = second
  rest = rest
  other = other
  Identities = {first, second, rest, other}
  Bucket <- MCBucket
  LowRiskTasks = {first, second, rest}
  LowRiskPercent = 5
  ExpandedPercent = 20
  MinShadowRecords = 2
  MinCanaryRecords = 1
  MaxRecords = 3
  k1 = k1
  k2 = k2
  e1 = e1
  e2 = e2
  e3 = e3
  Controllers = {k1, k2}
  Interlocked = {k1}
  Experiments = {e1, e2, e3}
  Executing = {e2}
  WithinPolicy = {e1, e2}
  Principals = {"alice", "bob"}
  ApprovalTerm = 0
  MaxMoment = 1
  MaxReceipts = 2
  MaxSigned = 2
  Alerts <- MCAlerts
  AllowedTargets = {"jobA", "jobB"}
  MaxPayloads = 2
  Windows <- MCWindows
  Configs <- MCConfigs
  MinRecords = 2
  MaxWindows = 3
PROPERTIES
  HardEventBlocksExpansion
CHECK_DEADLOCK FALSE
