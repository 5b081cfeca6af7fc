CONSTANTS
  m1 = m1
  m2 = m2
  Runs = {r1}
  Manifests = {m1, m2}
  WindowCount <- MCWindowCount
  Identities <- MCIdentities
  Plans <- MCPlans
  LocalUris = {local}
  RemoteUris = {}
  Hashes = {h1}
  AttemptIds = {a1, a2}
  Genesis = Genesis
  NoHash = NoHash

SPECIFICATION LedgerSpec
CHECK_DEADLOCK FALSE
PROPERTY RetiredEpochNeverCommits
