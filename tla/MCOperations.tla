----------------------------- MODULE MCOperations ----------------------------
(***************************************************************************)
(* What drives a robot, what may be released to it, and what guards the    *)
(* people who operate it.  The parts share no state, so a behaviour is one *)
(* of any.                                                                 *)
(*   RobotPipeline: rings of two slots, three packets (so that a push into *)
(*   a full ring drops the oldest) and a clock that makes states stale and *)
(*   windows expire.                                                       *)
(*   RobotRuntime: two planning threads and three requests.                *)
(*   RecoveryArbiter: two recovery controllers, three bindings that differ *)
(*   in the revision or in the rest, leases that expire while calls are    *)
(*   delayed.                                                              *)
(*   CanaryGate: a robot in each cohort, and one whose task is not on the  *)
(*   allowlist; a deque of three records, of which two let a shadow be     *)
(*   promoted and one a canary.                                            *)
(*   RailGuard: two controllers, one of which may execute; two experiments *)
(*   within the policy, of which one executes, and one beyond it; two      *)
(*   approvals of two people, which expire, and two injections.            *)
(*   AlertControl: two jobs with an alert each of the same name, one in an *)
(*   environment that is not allowed and one without its labels; any two   *)
(*   payloads of them.                                                     *)
(*   ShadowRca: up to three of windows that are clean, soft, risky, hot,   *)
(*   invalid, or of a bad camera; a valid config and three that raise.     *)
(***************************************************************************)
EXTENDS RobotPipeline, RobotRuntime, RecoveryArbiter, CanaryGate, RailGuard, AlertControl,
        ShadowRca

CONSTANTS h1, h2, oldRev, newRev, first, second, rest, other, k1, k2, e1, e2, e3

VARIABLE running

MCCapacity == [r \in Rings |-> 2]

MCInputs == {[git_revision |-> oldRev, binding |-> 1], [git_revision |-> oldRev, binding |-> 2],
             [git_revision |-> newRev, binding |-> 1]}

MCBucket == [i \in {first, second, rest, other} |->
  CASE i = first -> 3 [] i = second -> 15 [] i = rest -> 90 [] i = other -> 0]

Alert(id, name, target, complete, fingerprinted) ==
  [id |-> id, name |-> name, target |-> target, complete |-> complete,
   fingerprinted |-> fingerprinted]
MCAlerts ==
  {Alert(1, "ACVJEPARendezvousRebuildStorm", "jobA", TRUE, FALSE),
   Alert(2, "ACVJEPARendezvousRebuildStorm", "jobB", TRUE, FALSE),
   Alert(3, "ACVJEPAUpdateAbortRatioHigh", "lab", TRUE, TRUE),
   Alert(4, "ACVJEPAUpdateAbortRatioHigh", "jobA", FALSE, TRUE)}

Clean ==
  [object_class |-> "rigid_cup", camera_id |-> "head", candidate_latency |-> 10,
   baseline_latency |-> 10, candidate_residual |-> 4, baseline_residual |-> 4,
   uncertainty |-> 3, invalid |-> FALSE, risk |-> FALSE, hold |-> FALSE, skew |-> 1,
   quality |-> 90, thermal |-> FALSE]
Soft == [Clean EXCEPT !.object_class = "cloth", !.candidate_residual = 12, !.uncertainty = 9]
MCWindows ==
  {Clean, Soft, [Soft EXCEPT !.risk = TRUE], [Clean EXCEPT !.thermal = TRUE],
   [Clean EXCEPT !.invalid = TRUE],
   [Clean EXCEPT !.camera_id = "wrist", !.candidate_residual = 20, !.candidate_latency = 16,
                 !.skew = 20, !.quality = 50]}

Limits(approved_low, active_low, active_high, approved_high) ==
  [approved_low |-> approved_low, active_low |-> active_low, active_high |-> active_high,
   approved_high |-> approved_high]
Config(ticket, range, weight) ==
  [version |-> "soft-grasp-dr-v4", ticket |-> ticket, ranges |-> {range},
   weights |-> [s \in {"nominal", "low_light"} |-> IF s = "nominal" THEN weight ELSE 0]]
MCConfigs ==
  {Config("DR-APPROVED-042", Limits(0, 1, 2, 3), 10), Config("", Limits(0, 1, 2, 3), 10),
   Config("DR-APPROVED-042", Limits(0, 1, 2, 1), 10), Config("DR-APPROVED-042", Limits(0, 1, 2, 3), 0)}

OperationsInit ==
  /\ running \in {"pipeline", "runtime", "arbiter", "canary", "rail", "alerts", "rca"}
  /\ PipelineInit /\ RuntimeInit /\ ArbiterInit /\ CanaryInit
  /\ RailInit /\ AlertInit /\ RcaInit
  /\ running # "arbiter" => record.inputs = [git_revision |-> oldRev, binding |-> 1]

Robot == <<pipelineVars, runtimeVars>>
Release == <<vars, canaryVars>>
Guards == <<railVars, alertVars, rcaVars>>

OperationsNext ==
  /\ UNCHANGED running
  /\ \/ running = "pipeline" /\ PipelineNext /\ UNCHANGED <<runtimeVars, Release, Guards>>
     \/ running = "runtime" /\ RuntimeNext /\ UNCHANGED <<pipelineVars, Release, Guards>>
     \/ running = "arbiter" /\ ArbiterNext /\ UNCHANGED <<canaryVars, Robot, Guards>>
     \/ running = "canary" /\ CanaryNext /\ UNCHANGED <<vars, Robot, Guards>>
     \/ running = "rail" /\ RailNext /\ UNCHANGED <<alertVars, rcaVars, Robot, Release>>
     \/ running = "alerts" /\ AlertNext /\ UNCHANGED <<railVars, rcaVars, Robot, Release>>
     \/ running = "rca" /\ RcaNext /\ UNCHANGED <<railVars, alertVars, Robot, Release>>

OperationsSpec == OperationsInit /\ [][OperationsNext]_<<running, Robot, Release, Guards>>
=============================================================================
