SPECIFICATION ReviewsSpec
CONSTANTS
  r1 = r1
  r2 = r2
  r3 = r3
  reviewer_a = reviewer_a
  reviewer_b = reviewer_b
  package1 = package1
  package2 = package2
  disjoint = disjoint
  Cases = {"soft", "hardware"}
  SafetyCases = {"hardware"}
  Reviewers = {r1, r2, r3}
  None = None
  Signers = {"capture-1", "validator-1", "anchor-1", reviewer_a, reviewer_b}
  RoleOf <- MCRoleOf
  Staff = {"capture-1", "validator-1", "anchor-1"}
  Manifests = {package1, package2, disjoint}
  CaseOf <- MCCaseOf
  Artifacts <- MCArtifacts
  RequiredModalities = {"rgbd_video", "contact_events", "calibration"}
  Tolerance = 1
  Reviews <- SubmittedReviews
  MaxEvents = 4
  MaxAnchors = 1
  MaxAlterations = 1
SYMMETRY AuditSymmetry
CHECK_DEADLOCK FALSE
INVARIANTS
  UntouchedLedgerVerifies
