-------------------------- MODULE RecoveryArbiter --------------------------
(***************************************************************************)
(* RecoveryDeploymentArbiter of recovery_deployment_arbiter.py: one record *)
(* that a recovery controller, a GitOps controller and an admission gate   *)
(* compete for.  Every method takes its decision under one lock, so it is  *)
(* one action; a refused call changes nothing but the rejection counters,  *)
(* which no decision reads.                                                *)
(*                                                                         *)
(* A caller reads the clock and prepares its arguments before it gets the  *)
(* lock, so the now it passes may be any earlier time, and its inputs and  *)
(* expected_generation may be those of an older epoch.                     *)
(***************************************************************************)
EXTENDS Integers

CONSTANTS
  Holders,         \* recovery controllers, by lease holder name
  Inputs,          \* recovery input bindings, each with its git_revision
  Revisions,       \* Git revisions that GitOps or admission may observe
  LeaseSeconds,    \* lease durations that callers ask for
  NoHolder,        \* the empty holder of the initial record
  MaxClock,        \* bound on the clock
  MaxGeneration    \* bound on the number of recovery epochs

ASSUME ArbiterAssumption ==
  /\ \A i \in Inputs : i.git_revision \in Revisions
  /\ LeaseSeconds \subseteq Nat \ {0}
  /\ NoHolder \notin Holders
  /\ MaxClock \in Nat /\ MaxGeneration \in Nat

VARIABLES
  record,    \* the EpochRecord
  clock,     \* the monotonic clock
  attested   \* history: accepted mark_recovery_ready calls

vars == <<record, clock, attested>>

EpochState == {"IDLE", "RECOVERING", "RECOVERY_READY", "DEPLOYMENT_ARMED", "FROZEN"}

EpochRecord == [generation : Nat, state : EpochState, lease_holder : Holders \cup {NoHolder},
                lease_expiry : Nat, inputs : Inputs]

Attestation == [generation : Nat, lease_holder : Holders, inputs : Inputs]

\* The values of now that a call can carry.
Earlier == 0 .. clock

ArbiterInit ==
  /\ \E i \in Inputs :
        record = [generation |-> 0, state |-> "IDLE", lease_holder |-> NoHolder,
                  lease_expiry |-> 0, inputs |-> i]
  /\ clock = 0
  /\ attested = {}

\* _require_generation
Current(g) == g = record.generation

ActiveLeaseUnlessReady(now) ==
  record.state \in {"RECOVERING", "DEPLOYMENT_ARMED"} /\ now < record.lease_expiry
ActiveLease(now) ==
  /\ record.state \in {"RECOVERING", "RECOVERY_READY", "DEPLOYMENT_ARMED"}
  /\ now < record.lease_expiry

NextGeneration == record.generation + 1

BeginRecovery(g, h, i, now, lease) ==
  /\ Current(g)
  /\ ~ActiveLease(now)
  /\ record.generation < MaxGeneration
  /\ record' = [generation |-> NextGeneration, state |-> "RECOVERING",
                lease_holder |-> h, lease_expiry |-> now + lease, inputs |-> i]
  /\ UNCHANGED <<clock, attested>>

MayMarkReadyAnyHolder(h, i, now) ==
  record.state = "RECOVERING" /\ now < record.lease_expiry /\ record.inputs = i
MayMarkReady(h, i, now) ==
  /\ record.state = "RECOVERING"
  /\ record.lease_holder = h
  /\ now < record.lease_expiry
  /\ record.inputs = i

MarkRecoveryReady(g, h, i, now) ==
  /\ Current(g)
  /\ MayMarkReady(h, i, now)
  /\ record' = [record EXCEPT !.state = "RECOVERY_READY"]
  /\ attested' = attested \cup {[generation |-> g, lease_holder |-> h, inputs |-> i]}
  /\ UNCHANGED clock

MayArmUnlessArmed(i, now) ==
  record.state # "DEPLOYMENT_ARMED" /\ now < record.lease_expiry /\ record.inputs = i
MayArm(i, now) ==
  /\ record.state = "RECOVERY_READY"
  /\ now < record.lease_expiry
  /\ record.inputs = i

ArmDeployment(g, i, now) ==
  /\ Current(g)
  /\ MayArm(i, now)
  /\ record' = [record EXCEPT !.state = "DEPLOYMENT_ARMED"]
  /\ UNCHANGED <<clock, attested>>

\* From any state, IDLE and FROZEN included, and on an expired lease too.
FreezeForRevisionDrift(g, revision) ==
  /\ Current(g)
  /\ revision # record.inputs.git_revision
  /\ record' = [record EXCEPT !.state = "FROZEN"]
  /\ UNCHANGED <<clock, attested>>

\* External: time passes.
Tick ==
  /\ clock < MaxClock
  /\ clock' = clock + 1
  /\ UNCHANGED <<record, attested>>

ArbiterNext ==
  \/ \E g \in 0 .. MaxGeneration :
        \/ \E h \in Holders, i \in Inputs, now \in Earlier :
              \/ \E lease \in LeaseSeconds : BeginRecovery(g, h, i, now, lease)
              \/ MarkRecoveryReady(g, h, i, now)
        \/ \E i \in Inputs, now \in Earlier : ArmDeployment(g, i, now)
        \/ \E revision \in Revisions : FreezeForRevisionDrift(g, revision)
  \/ Tick

ArbiterSpec == ArbiterInit /\ [][ArbiterNext]_vars

-----------------------------------------------------------------------------
(***************************************************************************)
(* Properties.                                                             *)
(***************************************************************************)

\* Type invariant; a record without a holder is the initial one, or that one
\* frozen.
TypeOK ==
  /\ record \in EpochRecord
  /\ record.generation <= MaxGeneration
  /\ record.generation = 0 <=> record.lease_holder = NoHolder
  /\ record.generation = 0 => record.state \in {"IDLE", "FROZEN"}
  /\ clock \in Nat
  /\ attested \subseteq Attestation

\* A deployment is armed only for an epoch that its own lease holder declared
\* ready, for exactly the inputs that the epoch was opened with, and at most
\* one holder and one binding are ever declared ready in a generation.
ArmedWasAttested ==
  /\ record.state \in {"RECOVERY_READY", "DEPLOYMENT_ARMED"} =>
       [generation |-> record.generation, lease_holder |-> record.lease_holder,
        inputs |-> record.inputs] \in attested
  /\ \A a, b \in attested : a.generation = b.generation => a = b

\* Two recovery epochs never hold a lease at the same time: a new generation
\* begins only when the old one was never leased, is frozen, or has outlived
\* its lease by the true clock, however late the caller's own clock reading.
LeasesDoNotOverlap ==
  [][record'.generation # record.generation =>
       \/ record.state \in {"IDLE", "FROZEN"}
       \/ record.lease_expiry <= clock]_vars

\* Within a generation the epoch only moves forward, its holder, lease and
\* inputs are never touched, and a frozen epoch stays frozen: whoever comes
\* late, from an older epoch or with drifted inputs, has to open a new one.
EpochsOnlyMoveForward ==
  [][/\ record'.generation \in {record.generation, record.generation + 1}
     /\ record'.generation # record.generation => record'.state = "RECOVERING"
     /\ record'.generation = record.generation =>
          /\ \E s \in EpochState : record' = [record EXCEPT !.state = s]
          /\ <<record.state, record'.state>> \in
               {<<"RECOVERING", "RECOVERY_READY">>, <<"RECOVERY_READY", "DEPLOYMENT_ARMED">>}
                 \cup {<<s, s>> : s \in EpochState} \cup {<<s, "FROZEN">> : s \in EpochState}]_vars
=============================================================================
