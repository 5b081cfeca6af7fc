----------------------------- MODULE ShadowRca ------------------------------
(***************************************************************************)
(* shadow_degradation_rca.py and dr_policy_tuner.py: windows of a shadow   *)
(* run are analysed for root causes, and the hypotheses become a proposal  *)
(* for the sampling of the next synthetic data, which says whether the     *)
(* release stays paused.                                                   *)
(*                                                                         *)
(* Numbers are integers (milliseconds, percent, tenths of a weight); a     *)
(* mean is the quotient <<sum, count>>, and <<n, 0>> is infinite.  A list  *)
(* of some of the records is the set of their positions.                   *)
(* Confidences, texts and the action that follows from a cause are left    *)
(* out, and so is the order of the hypotheses, which nothing reads.        *)
(***************************************************************************)
EXTENDS Integers, Sequences, FiniteSets, SequencesExt, FiniteSetsExt

CONSTANTS
  Windows,     \* the ShadowTelemetry that may come
  MinRecords,  \* RCAThresholds.min_records
  Configs,     \* the ApprovedDRConfig that may be given
  MaxWindows   \* bound on the windows of a run

ASSUME ShadowRcaAssumption ==
  /\ MinRecords \in Nat /\ MaxWindows \in Nat
  /\ \A w \in Windows : w.candidate_residual \in Int

VARIABLES windows, rca, proposal  \* the run, its last report and proposal

rcaVars == <<windows, rca, proposal>>

NotYet == [is |-> "nothing"]

RcaInit == windows = <<>> /\ rca = NotYet /\ proposal = NotYet

-----------------------------------------------------------------------------
(* Quotients. *)

Exceeds(a, b) == a[1] * b[2] > b[1] * a[2]
Times(a, percent) == <<a[1] * percent, a[2] * 100>>
Plus(a, b) == <<a[1] * b[2] + b[1] * a[2], a[2] * b[2]>>

MeanOf(records, those, field) ==
  <<MapThenSumSet(LAMBDA i : records[i][field], those), Cardinality(those)>>
MeanOfAll(records, field) == MeanOf(records, DOMAIN records, field)

\* safe_ratio
SafeRatio(numerator, denominator) ==
  IF numerator[1] = 0 THEN <<0, 1>>
  ELSE <<numerator[1] * denominator[2], numerator[2] * denominator[1]>>

\* More than this part of the records are among those: fraction(...) > percent.
Frequent(those, records, percent) == Cardinality(those) * 100 > percent * Len(records)

-----------------------------------------------------------------------------
(* What the records show: ShadowDegradationAnalyzer.analyze. *)

Thermal(records) == {i \in DOMAIN records : records[i].thermal}
Invalid(records) == {i \in DOMAIN records : records[i].invalid}
MissedHold(records) == {i \in DOMAIN records : records[i].risk /\ ~records[i].hold}
Skewed(records) == {i \in DOMAIN records : records[i].skew > 10}  \* abs(timestamp_skew_ms)
LowQuality(records) == {i \in DOMAIN records : records[i].quality < 65}

Measures == {"candidate_residual", "baseline_residual", "uncertainty", "candidate_latency",
             "skew", "quality"}

\* cohort_mean, and the mean of the means of some cohorts
CohortOf(records, key, name) == {i \in DOMAIN records : records[i][key] = name}
CohortNames(records, key) == {records[i][key] : i \in DOMAIN records}
CohortMeans(records, key, name) ==
  [m \in Measures |-> MeanOf(records, CohortOf(records, key, name), m)]
MeanOverCohorts(records, key, names) ==
  LET sum == FoldLeft(LAMBDA acc, name :
               Plus(acc, CohortMeans(records, key, name)["candidate_residual"]),
               <<0, 1>>, SetToSeq(names))
  IN  <<sum[1], sum[2] * Cardinality(names)>>

SoftClasses == {"cloth", "fabric", "sponge", "soft_packaging", "deformable"}

\* Cohorts are compared by their means, so that another one which happens to
\* have those of a soft cohort counts as soft.
SofterIsWorse(records) ==
  LET names == CohortNames(records, "object_class")
      soft == names \cap SoftClasses
      means(name) == CohortMeans(records, "object_class", name)
      others == {n \in names : \A s \in soft : means(n) # means(s)}
  IN  Exceeds(IF soft = {} THEN <<0, 1>> ELSE MeanOverCohorts(records, "object_class", soft),
              IF others = {} THEN MeanOfAll(records, "candidate_residual")
                             ELSE MeanOverCohorts(records, "object_class", others))

ResidualRatio(records, those) ==
  SafeRatio(MeanOf(records, those, "candidate_residual"),
            MeanOf(records, those, "baseline_residual"))
ResidualRegressed(records) == Exceeds(ResidualRatio(records, DOMAIN records), <<115, 100>>)

LatencyRegressed(records) ==
  Exceeds(SafeRatio(MeanOfAll(records, "candidate_latency"),
                    MeanOfAll(records, "baseline_latency")),
          <<110, 100>>)

HasHighError(records, i) ==
  Exceeds(<<records[i].candidate_residual, 1>>, MeanOfAll(records, "candidate_residual"))
HighError(records) == {i \in DOMAIN records : HasHighError(records, i)}
LowError(records) == {i \in DOMAIN records : ~HasHighError(records, i)}

UncertaintyIsFlat(records) ==
  Exceeds(<<120, 100>>, SafeRatio(MeanOf(records, HighError(records), "uncertainty"),
                                  MeanOf(records, LowError(records), "uncertainty")))

\* (An analysis of the uncertainties alone.)
MiscalibratedByRatio(records) ==
  /\ HighError(records) # {} /\ LowError(records) # {}
  /\ UncertaintyIsFlat(records)
Miscalibrated(records) ==
  /\ HighError(records) # {} /\ LowError(records) # {}
  /\ UncertaintyIsFlat(records) \/ MissedHold(records) # {}

OneCameraIsWorse(records) ==
  \E c \in CohortNames(records, "camera_id") :
    Exceeds(ResidualRatio(records, CohortOf(records, "camera_id", c)),
            Times(ResidualRatio(records, DOMAIN records), 120))

-----------------------------------------------------------------------------
(* Hypotheses. *)

If(condition, cause, blocking) ==
  IF condition THEN {[cause |-> cause, blocking |-> blocking]} ELSE {}

Patterns(records) ==
  If(LatencyRegressed(records) \/ Thermal(records) # {}, "EDGE_RUNTIME",
     Thermal(records) # {})
  \cup If(Invalid(records) # {}, "ENGINE_OR_QUANTIZATION", TRUE)
  \cup If(Skewed(records) \cup LowQuality(records) # {}, "SENSOR_OR_CALIBRATION",
          Frequent(Skewed(records), records, 5))
  \cup If(ResidualRegressed(records) /\ SofterIsWorse(records), "SOFT_PHYSICS_GAP", FALSE)
  \cup If(Miscalibrated(records), "UNCERTAINTY_MISCALIBRATION",
          MissedHold(records) # {})
  \cup If(ResidualRegressed(records) /\ OneCameraIsWorse(records), "VISUAL_DOMAIN_SHIFT", FALSE)

Hypotheses(records) ==
  CASE Len(records) < MinRecords -> If(TRUE, "INSUFFICIENT_EVIDENCE", FALSE)
    [] Len(records) >= MinRecords /\ Patterns(records) # {} -> Patterns(records)
    [] OTHER -> If(TRUE, IF ResidualRegressed(records) THEN "MODEL_CAPACITY_OR_TRAINING"
                                                       ELSE "INSUFFICIENT_EVIDENCE", FALSE)

Observe(window) ==
  /\ Len(windows) < MaxWindows
  /\ windows' = Append(windows, window)
  /\ UNCHANGED <<rca, proposal>>

\* The mean of no records raises where min_records lets it come to that.
Analyze ==
  /\ windows # <<>> \/ MinRecords > 0
  /\ rca' = [is |-> "report", of |-> windows, hypotheses |-> Hypotheses(windows)]
  /\ UNCHANGED <<windows, proposal>>

-----------------------------------------------------------------------------
(* RootCauseDrivenDRPolicy.propose. *)

\* ClosedRange.validate, and the ticket.
ValidConfig(config) ==
  /\ \A range \in config.ranges :
       range.approved_low <= range.active_low /\ range.active_low <= range.active_high
         /\ range.active_high <= range.approved_high
  /\ config.ticket # ""

\* The scenarios that a cause adds to, and by how much.
Emphasis(cause) ==
  CASE cause = "VISUAL_DOMAIN_SHIFT" ->
         [scenarios |-> {"low_light", "warm_indoor", "camera_pose_jitter", "partial_occlusion"},
          by |-> 10]
    [] cause = "SENSOR_OR_CALIBRATION" ->
         [scenarios |-> {"sensor_contract_diagnostic"}, by |-> 5]
    [] cause = "SOFT_PHYSICS_GAP" ->
         [scenarios |-> {"soft_contact", "soft_geometry_initial_state", "soft_material_prior",
                         "low_speed_replay"}, by |-> 10]
    [] cause = "UNCERTAINTY_MISCALIBRATION" ->
         [scenarios |-> {"uncertainty_stress_holdout"}, by |-> 10]
    [] OTHER -> [scenarios |-> {}, by |-> 0]

Emphasized(weights, causes) ==
  [s \in DOMAIN weights \cup UNION {Emphasis(c).scenarios : c \in causes} |->
     (IF s \in DOMAIN weights THEN weights[s] ELSE 0)
     + MapThenSumSet(LAMBDA c : Emphasis(c).by, {c \in causes : s \in Emphasis(c).scenarios})]

\* normalize_weights; a total of nothing raises.
Positive(weight) == IF weight > 0 THEN weight ELSE 0
Total(weights) == MapThenSumSet(LAMBDA s : Positive(weights[s]), DOMAIN weights)
Normalized(weights) ==
  LET total == Total(weights)
  IN  [s \in DOMAIN weights |-> <<Positive(weights[s]), total>>]

ActionableCauses ==
  {"VISUAL_DOMAIN_SHIFT", "SENSOR_OR_CALIBRATION", "SOFT_PHYSICS_GAP",
   "UNCERTAINTY_MISCALIBRATION", "EDGE_RUNTIME", "ENGINE_OR_QUANTIZATION"}

Propose(config) ==
  LET found == {h.cause : h \in rca.hypotheses}
      weights == Emphasized(config.weights, found)
  IN  /\ rca # NotYet
      /\ ValidConfig(config) /\ Total(weights) > 0
      /\ proposal' = [is |-> "proposal", of |-> rca.of,
                      parent |-> config.version, version |-> <<config.version, "rca">>,
                      causes |-> found \cap ActionableCauses,
                      weights |-> Normalized(weights),
                      requires_range_expansion_review |-> FALSE,
                      ci_cd_action |-> IF \E h \in rca.hypotheses : h.blocking
                        THEN "create_diagnostic_dr_config_but_keep_release_paused"
                        ELSE "create_dr_candidate_config_and_require_approval"]
      /\ UNCHANGED <<windows, rca>>

RcaNext ==
  \/ \E window \in Windows : Observe(window)
  \/ Analyze
  \/ \E config \in Configs : Propose(config)

RcaSpec == RcaInit /\ [][RcaNext]_rcaVars

-----------------------------------------------------------------------------
(* Properties. *)

\* Once there are enough records, nothing else that they show hides what
\* blocks: a proposal made from them keeps the release paused if one has a
\* thermal guard, an invalid output, or a hold that was not requested although
\* there was a risk, or if more than one in twenty has a skewed clock.  (A
\* missed hold only where the residuals differ at all: where they do not, the
\* analysis has neither high nor low error, and passes over it.)
MissedHoldPausesRelease ==
  proposal # NotYet =>
    LET records == proposal.of
        missed == /\ MissedHold(records) # {}
                  /\ \E i, j \in DOMAIN records :
                       records[i].candidate_residual # records[j].candidate_residual
    IN  /\ Len(records) >= MinRecords
        /\ \/ Thermal(records) \cup Invalid(records) # {}
           \/ missed
           \/ Frequent(Skewed(records), records, 5)
        => proposal.ci_cd_action = "create_diagnostic_dr_config_but_keep_release_paused"
=============================================================================
