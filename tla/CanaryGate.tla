---------------------------- MODULE CanaryGate -----------------------------
(***************************************************************************)
(* ShadowCanaryGate and IdentityStableRouter of shadow_canary_gate.py: a   *)
(* candidate model is promoted stage by stage on the records of its        *)
(* outcomes, and drives a growing cohort of robots meanwhile.              *)
(*                                                                         *)
(* A report is a value: evaluate hands it out, and whoever has it applies  *)
(* it later, once it is authorized, when other outcomes may have been      *)
(* recorded and other reports applied.                                     *)
(***************************************************************************)
EXTENDS Integers, Sequences, FiniteSets, SequencesExt

CONSTANTS
  Identities, Bucket,    \* robot, shift and task; its hash, in percent
  LowRiskTasks,          \* the identities whose task is on the canary allowlist
  LowRiskPercent, ExpandedPercent,
  MinShadowRecords, MinCanaryRecords,
  MaxRecords             \* max_records of the gate

ASSUME CanaryAssumption ==
  /\ Bucket \in [Identities -> 0 .. 99] /\ LowRiskTasks \subseteq Identities
  /\ LowRiskPercent \in Nat /\ ExpandedPercent \in Nat
  /\ LowRiskPercent <= ExpandedPercent /\ MaxRecords \in Nat \ {0}

VARIABLES
  stage,
  records,     \* what each record shows of the candidate, oldest first
  reports,     \* decisions of the reports that evaluate has handed out
  withdrawn    \* history: the release was paused or rolled back

canaryVars == <<stage, records, reports, withdrawn>>

Canaries == <<"shadow", "canary_low_risk", "canary_expanded", "production">>
Stages == ToSet(Canaries) \cup {"candidate", "paused", "rolled_back"}

\* A "slow" one lifts the p99 latency over the limit by itself.
Harms == {"hard_safety_event", "invalid_output", "missed_hold", "slow"}

-----------------------------------------------------------------------------
(* choose: which identities the candidate drives in a stage. *)

PercentOf(s) ==
  CASE s = "canary_low_risk" -> LowRiskPercent
    [] s = "canary_expanded" -> ExpandedPercent
    [] s = "production" -> 100
    [] OTHER -> 0

Cohort(s) == {i \in LowRiskTasks : Bucket[i] < PercentOf(s)}

-----------------------------------------------------------------------------
EnterShadow ==
  /\ stage = "candidate"
  /\ stage' = "shadow"
  /\ UNCHANGED <<records, reports, withdrawn>>

\* record: in any stage; a full deque drops its oldest record.
RecordOutcome(outcome) ==
  /\ records' = IF Len(records) < MaxRecords THEN Append(records, outcome)
                                             ELSE Append(Tail(records), outcome)
  /\ UNCHANGED <<stage, reports, withdrawn>>

Required == IF stage = "shadow" THEN MinShadowRecords ELSE MinCanaryRecords

\* evaluate: any harm among the records is over its limit, before samples count.
Decision ==
  IF ToSet(records) \cap Harms # {} THEN "rollback"
  ELSE IF Len(records) < Required THEN "await_evidence" ELSE "promote"

Evaluate ==
  /\ reports' = reports \cup {Decision}
  /\ UNCHANGED <<stage, records, withdrawn>>

\* The stage after a promotion; a paused or rolled back release has none.
\* (A release that may be taken up again after a pause.)
NextStageAfterPause(s) ==
  IF s = "paused" THEN {"canary_low_risk"}
  ELSE {Canaries[n + 1] : n \in {k \in 1 .. 3 : Canaries[k] = s}}
NextStage(s) == {Canaries[n + 1] : n \in {k \in 1 .. 3 : Canaries[k] = s}}

\* apply reads nothing of its report but the decision; HOLD is never evaluate's.
Apply(decision, authorized) ==
  /\ CASE decision = "rollback" -> stage' = "rolled_back"
       [] decision = "await_evidence" -> UNCHANGED stage
       [] decision = "promote" /\ ~authorized -> stage' = "paused"
       [] decision = "promote" /\ authorized -> stage' \in NextStage(stage)
  /\ withdrawn' = (withdrawn \/ stage' \in {"paused", "rolled_back"})
  /\ UNCHANGED <<records, reports>>

-----------------------------------------------------------------------------
CanaryInit ==
  /\ stage = "candidate" /\ records = <<>> /\ reports = {} /\ withdrawn = FALSE

CanaryNext ==
  \/ EnterShadow
  \/ \E outcome \in Harms \cup {"good"} : RecordOutcome(outcome)
  \/ Evaluate
  \/ \E decision \in reports, authorized \in BOOLEAN : Apply(decision, authorized)

CanarySpec == CanaryInit /\ [][CanaryNext]_canaryVars

-----------------------------------------------------------------------------
(* Properties. *)

\* Whatever old reports are applied, in whatever order: a release that was paused
\* or rolled back never drives a robot again, and until then no robot that the
\* candidate drives goes back to the baseline while the release advances.
AuthorityIsOrderly ==
  [][/\ withdrawn' => Cohort(stage') = {}
     /\ ~withdrawn' => Cohort(stage) \subseteq Cohort(stage')]_canaryVars

\* (The release boundary document: a safety trigger has priority over any
\* evaluation and freezes the expansion.)  No promotion while a hard safety event
\* is among the records.
HardEventBlocksExpansion ==
  [][stage' \in NextStage(stage) => "hard_safety_event" \notin ToSet(records)]_canaryVars
=============================================================================
