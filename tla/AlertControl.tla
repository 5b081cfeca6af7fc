---------------------------- MODULE AlertControl ----------------------------
(***************************************************************************)
(* rapid_recovery_alert_drill.py: Alertmanager posts groups of alerts to a *)
(* webhook adapter, which parses a payload and gives its alerts to the     *)
(* SafeAlertControlPlane one by one; that freezes new plans of a job.      *)
(*                                                                         *)
(* A payload may come late, again, and after others.  Its envelope says    *)
(* firing if one of its alerts was when it was sent, and the parser gives  *)
(* the status of the envelope to all of them.  The control plane has its   *)
(* state in memory.  The adapter is not in the repository: it answers one  *)
(* payload at a time, and after an alert that was rejected it may go on    *)
(* with the others or not.                                                 *)
(*                                                                         *)
(* Abstractions: a target is a cluster, job and environment; the severity  *)
(* follows from the name.                                                  *)
(***************************************************************************)
EXTENDS Naturals, Sequences, FiniteSets

CONSTANTS
  Alerts,               \* [id, name, target, complete, fingerprinted]
  AllowedTargets,       \* those whose environment is in allowed_environments
  MaxPayloads           \* bound on payloads that are sent

\* Alertmanager's own fingerprint identifies an alert.
ASSUME AlertControlAssumption ==
  /\ MaxPayloads \in Nat
  /\ \A a, b \in Alerts : a.fingerprinted /\ b.fingerprinted /\ a.id = b.id => a = b

VARIABLES
  ablaze, fired,        \* Alertmanager: what fires, and what ever has
  payloads,             \* what it has posted; every one may arrive any time
  inbox,                \* the alerts that the adapter still has to give
  frozen_jobs, suspect_jobs, seen, audit

alertVars == <<ablaze, fired, payloads, inbox, frozen_jobs, suspect_jobs, seen, audit>>

ControlState == <<frozen_jobs, suspect_jobs, seen, audit>>
Alertmanager == <<ablaze, fired, payloads>>

NoPayload == [status |-> "none", alerts |-> {}]

\* SafeAlertControlPlane.__init__
FreshControlPlane(freezes, suspects, known, trail) ==
  freezes = {} /\ suspects = {} /\ known = {} /\ trail = <<>>

AlertInit ==
  /\ ablaze = {} /\ fired = {} /\ payloads = {}
  /\ inbox = NoPayload
  /\ FreshControlPlane(frozen_jobs, suspect_jobs, seen, audit)

-----------------------------------------------------------------------------
(* Alertmanager and the network. *)

AlertFires(a) ==
  /\ a \notin ablaze
  /\ ablaze' = ablaze \cup {a} /\ fired' = fired \cup {a}
  /\ UNCHANGED <<payloads, inbox, ControlState>>

AlertResolves(a) ==
  /\ ablaze' = ablaze \ {a} /\ ablaze' # ablaze
  /\ UNCHANGED <<fired, payloads, inbox, ControlState>>

PostGroup(group) ==
  LET status == IF group \cap ablaze # {} THEN "firing" ELSE "resolved"
  IN  /\ group # {} /\ Cardinality(payloads) < MaxPayloads
      /\ payloads' = payloads \cup {[status |-> status, alerts |-> group]}
      /\ UNCHANGED <<ablaze, fired, inbox, ControlState>>

-----------------------------------------------------------------------------
(* alerts_from_alertmanager_payload. *)

\* One alert without its labels, and the payload is rejected.
Parses(payload) == \A a \in payload.alerts : a.complete

ReceivePayload(payload) ==
  /\ inbox = NoPayload
  /\ Parses(payload)
  /\ inbox' = payload
  /\ UNCHANGED <<Alertmanager, ControlState>>

\* Alertmanager's own fingerprint or, without one, the hash of the labels.
\* (A hash that leaves out the job.)
FallbackFingerprintByName(a) == <<"labels", a.name>>
FallbackFingerprint(a) == <<"labels", a.name, a.target>>
Fingerprint(a) == IF a.fingerprinted THEN <<"given", a.id>> ELSE FallbackFingerprint(a)

-----------------------------------------------------------------------------
(* SafeAlertControlPlane. *)

MayArmNewPlan(target) == target \notin frozen_jobs

\* ALLOWED: names whose actions begin with a freeze, and the other names.
FreezingNames ==
  {"ACVJEPAUpdatePlanConsensusLost", "ACVJEPARendezvousRebuildStorm",
   "ACVJEPAExactStateRestoreFailed", "ACVJEPAFP8MetadataRestoreFailed"}
SuspectNames ==
  FreezingNames \cup {"ACVJEPAAllReduceTailLatencyHigh", "ACVJEPAUpdateAbortRatioHigh"}

ActionsOf(a) ==
  (IF a.name \in FreezingNames THEN {"freeze_new_plans"} ELSE {})
    \cup {"mark_suspect", "capture_existing_evidence", "notify_owner"}

Acceptable(a) == a.target \in AllowedTargets /\ a.name \in SuspectNames

TakeFromInbox(a) == inbox' =
  IF inbox.alerts = {a} THEN NoPayload ELSE [inbox EXCEPT !.alerts = @ \ {a}]

\* A resolved alert, or one whose fingerprint is known, does nothing.
HandleWithoutEffect(a) ==
  /\ a \in inbox.alerts
  /\ inbox.status = "resolved" \/ (Acceptable(a) /\ Fingerprint(a) \in seen)
  /\ TakeFromInbox(a)
  /\ UNCHANGED <<Alertmanager, ControlState>>

\* AlertRejected, which the adapter ignores or answers with an error.
HandleRejects(a) ==
  /\ a \in inbox.alerts
  /\ inbox.status = "firing" /\ ~Acceptable(a)
  /\ TakeFromInbox(a) \/ inbox' = NoPayload
  /\ UNCHANGED <<Alertmanager, ControlState>>

HandleFiring(a) ==
  /\ a \in inbox.alerts
  /\ inbox.status = "firing" /\ Acceptable(a) /\ Fingerprint(a) \notin seen
  /\ seen' = seen \cup {Fingerprint(a)}
  /\ frozen_jobs' =
       frozen_jobs \cup IF "freeze_new_plans" \in ActionsOf(a) THEN {a.target} ELSE {}
  /\ suspect_jobs' = suspect_jobs \cup {a.target}
  /\ audit' = Append(audit, [alert |-> a.name, fingerprint |-> Fingerprint(a),
                             actions |-> ActionsOf(a), target |-> a.target])
  /\ TakeFromInbox(a)
  /\ UNCHANGED Alertmanager

\* The process starts again, and has forgotten all of it.
RestartControlPlane ==
  /\ ~FreshControlPlane(frozen_jobs, suspect_jobs, seen, audit)
  /\ FreshControlPlane(frozen_jobs', suspect_jobs', seen', audit')
  /\ inbox' = NoPayload
  /\ UNCHANGED Alertmanager

AlertNext ==
  \/ \E a \in Alerts :
       \/ AlertFires(a) \/ AlertResolves(a)
       \/ HandleWithoutEffect(a) \/ HandleRejects(a) \/ HandleFiring(a)
  \/ \E group \in SUBSET fired : PostGroup(group)
  \/ \E payload \in payloads : ReceivePayload(payload)
  \/ RestartControlPlane

AlertSpec == AlertInit /\ [][AlertNext]_alertVars

-----------------------------------------------------------------------------
(* Properties. *)

\* However payloads are grouped, repeated, delayed or reordered, and whether
\* the control plane was restarted: an alert that it would answer as a
\* duplicate has its effect in place, on the job it is about; a job is frozen
\* only for an alert of that job which did fire; and the audit names each
\* alert once.
NoAlertIsSwallowed ==
  /\ \A a \in fired : Acceptable(a) /\ Fingerprint(a) \in seen =>
       /\ a.target \in suspect_jobs
       /\ a.name \in FreezingNames => ~MayArmNewPlan(a.target)
  /\ \A t \in frozen_jobs : \E a \in fired : a.name \in FreezingNames /\ a.target = t
  /\ \A i, j \in DOMAIN audit : audit[i].fingerprint = audit[j].fingerprint => i = j
=============================================================================
