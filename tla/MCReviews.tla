----------------------------- MODULE MCReviews ------------------------------
(***************************************************************************)
(* The two ledgers by which hard examples become data, each on its own:    *)
(* they share no row, so a behaviour is one of either.                     *)
(*   ReviewLedger: three reviewers, an ordinary and a safety case.         *)
(*   AuditLedger: a case with two rival packages and one whose modalities  *)
(*   do not overlap, two reviewers who enroll at any time, four events,    *)
(*   which is what an eligible patch takes, an anchor and an alteration.   *)
(***************************************************************************)
EXTENDS ReviewLedger, AuditLedger, TLC

CONSTANTS r1, r2, r3, reviewer_a, reviewer_b, package1, package2, disjoint

VARIABLE ledger

MCRoleOf == [s \in {"capture-1", "validator-1", "anchor-1", reviewer_a, reviewer_b} |->
  CASE s = "capture-1" -> "capture_gateway" [] s = "validator-1" -> "validator"
    [] s = "anchor-1" -> "anchor" [] OTHER -> "reviewer"]

\* Contact events may start one after the end of the video, not two.
MCCaseOf == [m \in {package1, package2, disjoint} |-> "case"]
MCArtifacts == [m \in {package1, package2, disjoint} |->
  LET from == IF m = disjoint THEN 4 ELSE 3
  IN  {[modality |-> "calibration", start_ns |-> 9, end_ns |-> 9],
       [modality |-> "rgbd_video", start_ns |-> 0, end_ns |-> 2],
       [modality |-> "contact_events", start_ns |-> from, end_ns |-> from + 1]}]

Submit(patch, decision, confirms) ==
  [patch |-> patch, decision |-> decision, confirms |-> confirms]
SubmittedReviews == {Submit("p", "approve_for_data", FALSE),
               Submit("p", "reject", TRUE), Submit("q", "approve_for_data", TRUE)}

\* Neither the one nor the other is named in the specification.
AuditSymmetry == Permutations({reviewer_a, reviewer_b}) \cup Permutations({package1, package2})

ReviewsInit == ledger \in {"cases", "audit"} /\ ReviewInit /\ AuditInit

ReviewsNext ==
  \/ ledger = "cases" /\ ReviewNext /\ UNCHANGED <<ledger, auditVars>>
  \/ ledger = "audit" /\ AuditNext /\ UNCHANGED <<ledger, vars>>

ReviewsSpec == ReviewsInit /\ [][ReviewsNext]_<<ledger, vars, auditVars>>
=============================================================================
