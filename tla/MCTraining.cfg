SPECIFICATION TrainingSpec
CONSTANTS
  Trainers = {0, 1}
  Epochs = 2
  BatchCounts = {1, 3}
  Accumulation = 2
  SaveInterval = 1
  LogInterval = 2
  EmaInterval = 2
  MaxLaunches = 2
  MaxFaults = 2
  good = good
  bad = bad
  Ranks = {0, 1}
  JobRequests <- MCJobRequests
  MinUncertaintyWindows = 3
  MinNoveltyScore = 50
  MaxSafetyEvents = 0
  EpisodeContents <- MCEpisodeContents
  AcceptedContents = {good}
  Missing = Missing
  Torn = Torn
  MaxReleases = 2
  MaxFailures = 0
  MaxKills = 1
  MaxTrainings = 2
  c1 = c1
  c2 = c2
  p1 = p1
  p2 = p2
  r1 = r1
  r2 = r2
  CheckpointIds = {c1, c2}
  ShardsOf <- MCShardsOf
  ContractOf <- MCContractOf
  Publishers = {p1, p2}
  Produces <- MCProduces
  Readers = {r1, r2}
  BadBytes = "bad"
  DurableLimit = 2
  PerNodeLimit = 1
  MaxLeaks = 1
  WorldSize = 2
  TargetMs = 120
  JitterMs = 5
  RemotePenaltyMs = 25
  MinMicroBatches = 1
  MaxMicroBatches = 3
  Topology <- MCTopology
  BatchSize <- MCBatchSize
  Telemetries <- MCTelemetries
  WorkLists <- MCWorkLists
  Modes = {"bf16", "fp16"}
  MaxSteps = 2
  MaxRestarts = 1
  h1 = h1
  m1 = m1
  m2 = m2
  Runs = {run}
  Manifests = {m1, m2}
  WindowCount <- MCWindowCount
  Identities <- MCIdentities
  Plans <- MCPlans
  LocalUris = {local}
  RemoteUris = {remote}
  Hashes = {h1, h2}
  AttemptIds = {1, 2, 3}
  Genesis = Genesis
  NoHash = NoHash
SYMMETRY CacheSymmetry
INVARIANTS
  CollectivesMatch
  OnePlan
  GlobalMean
  ReplicasAgree
  PlansAreValid
  RestoredIsPublished
  StampedeShielded
  CheckpointIsSound
  ShadowIsEarned
  TypeOK
  ExactlyOnceBelowCursor
  CommitLineage
  ReservationIsNextRange
PROPERTIES
  AdvanceIsVerified
  ImplementsWorkWindowLog
CHECK_DEADLOCK FALSE
