----------------------------- MODULE RailGuard ------------------------------
(***************************************************************************)
(* rdma_rail_chaos_guard.py: controllers ask a guard to let an executor    *)
(* inject a fault into one rail of a test pool, observe it and have it     *)
(* rolled back.                                                            *)
(*                                                                         *)
(* A controller's evidence (the isolation inventory and the runtime        *)
(* preconditions) is what it read some time before it calls the guard.     *)
(* The guard's own state is its policy and its secret; it keeps nothing of *)
(* past experiments.  The executor is the RecordingExecutor.               *)
(*                                                                         *)
(* Abstractions: an experiment is its own digest; a signature is the       *)
(* payload that was signed, and only who signs in his own name makes one.  *)
(* What the guard compares with its policy is a set of experiments, and    *)
(* what it compares with the isolation inventory and the runtime           *)
(* preconditions is one flag, apart from no_active_fault, which is read    *)
(* off the executor's receipts.                                            *)
(***************************************************************************)
EXTENDS Integers, FiniteSets, Sequences

CONSTANTS
  Controllers,   \* processes that run experiments
  Interlocked,   \* those started with CHAOS_EXECUTION_INTERLOCK
  Experiments,
  Executing,     \* those of mode EXECUTE
  WithinPolicy,  \* group, profile, TTL and restarts are within the GuardPolicy
  Principals,
  ApprovalTerm,  \* expires_ns - issued_ns
  MaxMoment,     \* bound on the clock
  MaxReceipts,   \* bound on injections
  MaxSigned      \* bound on approvals

ASSUME RailGuardAssumption ==
  /\ Interlocked \subseteq Controllers
  /\ Executing \subseteq Experiments /\ WithinPolicy \subseteq Experiments
  /\ ApprovalTerm \in Nat /\ MaxMoment \in Nat /\ {MaxReceipts, MaxSigned} \subseteq Nat

VARIABLES
  moment,      \* time.time_ns()
  signed,      \* the payloads that have been signed
  drill,       \* controller -> where its run_with_rollback is
  receipts,    \* executor: receipt id -> receipt
  unattended   \* history: receipts whose controller was lost or never got them

railVars == <<moment, signed, drill, receipts, unattended>>

NoDrill == [at |-> "idle"]

RailInit ==
  /\ moment = 0
  /\ signed = {}
  /\ drill = [c \in Controllers |-> NoDrill]
  /\ receipts = <<>>
  /\ unattended = {}

RequiredRoles == {"training_owner", "infrastructure_owner"}
ActiveFault == \E i \in DOMAIN receipts : receipts[i].phase = "injected"
Progress(c, next) == drill' = [drill EXCEPT ![c] = next]

-----------------------------------------------------------------------------
(* Approvals. *)

\* Approval.sign
SignApproval(role, principal, e) ==
  /\ Cardinality(signed) < MaxSigned
  /\ signed' = signed \cup {[role |-> role, principal |-> principal, digest |-> e,
                             issued |-> moment, expires |-> moment + ApprovalTerm]}
  /\ UNCHANGED <<moment, drill, receipts, unattended>>

\* What may be presented as an approval: a signed one, or one whose role was
\* changed since.
Presentable ==
  {[claims |-> [s EXCEPT !.role = role], signature |-> s] : s \in signed, role \in RequiredRoles}

\* The signature must be that of the claims for this experiment.
VerifiesForAnyExperiment(approval, e) ==
  /\ approval.claims.role \in RequiredRoles
  /\ approval.claims.issued <= moment /\ moment <= approval.claims.expires
  /\ approval.signature = approval.claims
Verifies(approval, e) ==
  /\ approval.claims.role \in RequiredRoles
  /\ approval.claims.issued <= moment /\ moment <= approval.claims.expires
  /\ approval.signature = [approval.claims EXCEPT !.digest = e]

ValidateDualApprovals(approvals, e) ==
  /\ Cardinality(approvals) = 2
  /\ {a.claims.role : a \in approvals} = RequiredRoles
  /\ Cardinality({a.claims.principal : a \in approvals}) = 2
  /\ \A a \in approvals : Verifies(a, e)

-----------------------------------------------------------------------------
(* run_with_rollback. *)

\* The caller asks whether the environment is isolated, has the rail, and is
\* healthy and at the experiment's epoch and manifest (fit), and for faults.
ReadEvidence(c, e, fit) ==
  /\ drill[c].at = "idle"
  /\ Progress(c, [at |-> "evidence", experiment |-> e, fit |-> fit, no_active_fault |-> ~ActiveFault])
  /\ UNCHANGED <<moment, signed, receipts, unattended>>

\* Everything but the approvals.
MayRun(c, d) ==
  /\ d.experiment \in Executing => c \in Interlocked
  /\ d.experiment \in WithinPolicy
  /\ d.fit /\ d.no_active_fault

Validate(c, approvals) ==
  /\ drill[c].at = "evidence"
  /\ MayRun(c, drill[c]) /\ ValidateDualApprovals(approvals, drill[c].experiment)
  /\ Progress(c, [at |-> "inject", experiment |-> drill[c].experiment, validated |-> moment])
  /\ UNCHANGED <<moment, signed, receipts, unattended>>

Refused(c) ==
  /\ drill[c].at = "evidence"
  /\ Progress(c, NoDrill)
  /\ UNCHANGED <<moment, signed, receipts, unattended>>

Receipt(d, id) ==
  [id |-> id, experiment |-> d.experiment, phase |-> "injected", validated |-> d.validated]

\* The executor injects; its answer arrives, or the call raises although it
\* has injected: inject is outside of the try.
InjectFault(c) ==
  LET id == Len(receipts) + 1
  IN  /\ drill[c].at = "inject" /\ id <= MaxReceipts
      /\ receipts' = Append(receipts, Receipt(drill[c], id))
      /\ \/ Progress(c, [at |-> "observe", receipt |-> id]) /\ UNCHANGED unattended
         \/ Progress(c, NoDrill) /\ unattended' = unattended \cup {id}
      /\ UNCHANGED <<moment, signed>>

InjectRaises(c) ==
  /\ drill[c].at = "inject"
  /\ Progress(c, NoDrill)
  /\ UNCHANGED <<moment, signed, receipts, unattended>>

\* observe returned, or raised: finally.  (Only if it returned.)
AfterObservationIfReturned(returned, d) == IF returned THEN [d EXCEPT !.at = "rollback"] ELSE NoDrill
AfterObservation(returned, d) == [d EXCEPT !.at = "rollback"]

ObservationEnds(c, returned) ==
  /\ drill[c].at = "observe"
  /\ Progress(c, AfterObservation(returned, drill[c]))
  /\ UNCHANGED <<moment, signed, receipts, unattended>>

\* A rollback that raises is not tried again.
RequestRollback(c) ==
  LET id == drill[c].receipt
  IN  /\ drill[c].at = "rollback"
      /\ Progress(c, NoDrill)
      /\ \/ /\ receipts' = [receipts EXCEPT ![id].phase = "rolled_back"]
            /\ UNCHANGED unattended
         \/ /\ unattended' = unattended \cup {id}
            /\ UNCHANGED receipts
      /\ UNCHANGED <<moment, signed>>

-----------------------------------------------------------------------------
(* Losses and time. *)

LoseController(c) ==
  /\ drill[c].at # "idle"
  /\ unattended' = unattended \cup
       IF drill[c].at \in {"observe", "rollback"} THEN {drill[c].receipt} ELSE {}
  /\ Progress(c, NoDrill)
  /\ UNCHANGED <<moment, signed, receipts>>

MomentPasses ==
  /\ moment < MaxMoment /\ moment' = moment + 1
  /\ UNCHANGED <<signed, drill, receipts, unattended>>

RailNext ==
  \/ \E role \in RequiredRoles, p \in Principals, e \in Experiments : SignApproval(role, p, e)
  \/ \E c \in Controllers :
       \/ \E e \in Experiments, fit \in BOOLEAN : ReadEvidence(c, e, fit)
       \/ \E a, b \in Presentable : Validate(c, {a, b})
       \/ \E returned \in BOOLEAN : ObservationEnds(c, returned)
       \/ Refused(c) \/ InjectFault(c) \/ InjectRaises(c) \/ RequestRollback(c) \/ LoseController(c)
  \/ MomentPasses

RailSpec == RailInit /\ [][RailNext]_railVars

-----------------------------------------------------------------------------
(* Properties. *)

\* Whatever is presented, and in whatever order: a fault that was injected is
\* one that two people, one for the training and one for the infrastructure,
\* have signed in every field, and neither approval had run out when the guard
\* let it pass.
InjectedWasApproved ==
  \A i \in DOMAIN receipts :
    \E s, q \in signed :
      /\ s.role = "training_owner" /\ q.role = "infrastructure_owner"
      /\ s.principal # q.principal
      /\ \A x \in {s, q} : /\ x.digest = receipts[i].experiment
                           /\ x.issued <= receipts[i].validated
                           /\ receipts[i].validated <= x.expires

\* A fault stays only as long as its controller observes it: the rollback is
\* requested however the observation ends, unless the controller is lost or
\* the executor's answer was.
FaultsAreAttended ==
  \A i \in DOMAIN receipts :
    receipts[i].phase = "injected" /\ i \notin unattended =>
      \E c \in Controllers : drill[c].at \in {"observe", "rollback"} /\ drill[c].receipt = i
=============================================================================
