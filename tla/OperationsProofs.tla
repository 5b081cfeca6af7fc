-------------------------- MODULE OperationsProofs --------------------------
(***************************************************************************)
(* Proofs about what drives a robot, what is released to it and what       *)
(* guards its operation: RecoveryArbiter, RobotRuntime, RailGuard,         *)
(* AlertControl, CanaryGate, RobotPipeline and ShadowRca, each for every   *)
(* value of its constants.                                                 *)
(***************************************************************************)
EXTENDS RobotPipeline, RobotRuntime, RecoveryArbiter, CanaryGate, RailGuard, AlertControl,
        ShadowRca, FiniteSums

-----------------------------------------------------------------------------
(* RecoveryArbiter: one lease, and an epoch that only moves forward. *)

\* The attestations of the current generation are those of its own record,
\* and there is none before the epoch has been marked ready; those of other
\* generations are older.
AttestationsAreOfTheRecord ==
  \A a \in attested :
    /\ a.generation <= record.generation
    /\ a.generation = record.generation =>
         /\ a.lease_holder = record.lease_holder
         /\ a.inputs = record.inputs
         /\ record.state \in {"RECOVERY_READY", "DEPLOYMENT_ARMED", "FROZEN"}

ArbiterInv == TypeOK /\ ArmedWasAttested /\ AttestationsAreOfTheRecord

LEMMA InitInv == ArbiterInit => ArbiterInv
BY ArbiterAssumption DEF ArbiterInit, ArbiterInv, TypeOK, ArmedWasAttested, EpochRecord,
   EpochState, Attestation, AttestationsAreOfTheRecord, ArbiterAssumption

\* A new epoch has a generation that no attestation mentions.
LEMMA BeginInv ==
  ASSUME ArbiterInv, NEW g \in 0 .. MaxGeneration, NEW h \in Holders, NEW i \in Inputs,
         NEW instant \in Earlier, NEW lease \in LeaseSeconds, BeginRecovery(g, h, i, instant, lease)
  PROVE  ArbiterInv'
<1>1. /\ record.generation \in Nat /\ record.generation < MaxGeneration
      /\ clock \in Nat /\ UNCHANGED <<clock, attested>> /\ MaxGeneration \in Nat
      /\ record' = [generation |-> record.generation + 1, state |-> "RECOVERING",
                    lease_holder |-> h, lease_expiry |-> instant + lease, inputs |-> i]
  BY ArbiterAssumption DEF BeginRecovery, NextGeneration, ArbiterInv, TypeOK, EpochRecord,
     ArbiterAssumption
<1>2. instant + lease \in Nat
  BY <1>1, ArbiterAssumption DEF ArbiterAssumption, Earlier
<1>3. TypeOK'
  BY <1>1, <1>2, ArbiterAssumption DEF ArbiterInv, TypeOK, EpochRecord, EpochState,
     ArbiterAssumption
<1>4. \A a \in attested : a.generation \in Nat /\ a.generation < record'.generation
  BY <1>1 DEF ArbiterInv, TypeOK, Attestation, AttestationsAreOfTheRecord
<1>5. AttestationsAreOfTheRecord'
  BY <1>1, <1>4 DEF AttestationsAreOfTheRecord
<1>6. ArmedWasAttested'
  BY <1>1 DEF ArbiterInv, ArmedWasAttested
<1> QED
  BY <1>3, <1>5, <1>6 DEF ArbiterInv

\* The attestation added is the only one of its generation.
LEMMA ReadyInv ==
  ASSUME ArbiterInv, NEW g \in 0 .. MaxGeneration, NEW h \in Holders, NEW i \in Inputs,
         NEW instant \in Earlier, MarkRecoveryReady(g, h, i, instant)
  PROVE  ArbiterInv'
<1> DEFINE new == [generation |-> g, lease_holder |-> h, inputs |-> i]
<1>1. /\ g = record.generation /\ record.state = "RECOVERING" /\ record.lease_holder = h
      /\ record.inputs = i /\ UNCHANGED clock /\ attested' = attested \cup {new}
      /\ record' = [record EXCEPT !.state = "RECOVERY_READY"]
      /\ record \in EpochRecord
  BY DEF MarkRecoveryReady, MayMarkReady, Current, ArbiterInv, TypeOK
<1>2. /\ record' = [generation |-> g, state |-> "RECOVERY_READY", lease_holder |-> h,
                    lease_expiry |-> record.lease_expiry, inputs |-> i]
      /\ g \in Nat
  BY <1>1 DEF EpochRecord
<1>3. new \in Attestation
  BY <1>2 DEF Attestation
<1>4. TypeOK'
  BY <1>1, <1>2, <1>3 DEF ArbiterInv, TypeOK, EpochRecord, EpochState
<1>5. \A a \in attested : a.generation # g /\ a.generation <= g
  BY <1>1 DEF ArbiterInv, AttestationsAreOfTheRecord
<1>6. AttestationsAreOfTheRecord'
  BY <1>1, <1>2, <1>5 DEF AttestationsAreOfTheRecord
<1>7. ArmedWasAttested'
  BY <1>1, <1>2, <1>5 DEF ArbiterInv, ArmedWasAttested
<1> QED
  BY <1>4, <1>6, <1>7 DEF ArbiterInv

\* Arming and freezing change the state of the record only.
LEMMA StateChangeInv ==
  ASSUME ArbiterInv, NEW s \in EpochState, UNCHANGED <<clock, attested>>,
         record' = [record EXCEPT !.state = s],
         s = "FROZEN" \/ (s = "DEPLOYMENT_ARMED" /\ record.state = "RECOVERY_READY")
  PROVE  ArbiterInv'
<1>1. /\ record'.generation = record.generation /\ record'.lease_holder = record.lease_holder
      /\ record'.inputs = record.inputs /\ record'.state = s /\ record' \in EpochRecord
  BY DEF ArbiterInv, TypeOK, EpochRecord
<1>2. TypeOK'
  BY <1>1 DEF ArbiterInv, TypeOK
<1>3. ArmedWasAttested'
  BY <1>1 DEF ArbiterInv, ArmedWasAttested
<1>4. AttestationsAreOfTheRecord'
  BY <1>1 DEF ArbiterInv, AttestationsAreOfTheRecord
<1> QED
  BY <1>2, <1>3, <1>4 DEF ArbiterInv

LEMMA NextInv == ArbiterInv /\ [ArbiterNext]_vars => ArbiterInv'
<1> SUFFICES ASSUME ArbiterInv, [ArbiterNext]_vars PROVE ArbiterInv'
  OBVIOUS
<1>1. ASSUME NEW g \in 0 .. MaxGeneration, NEW i \in Inputs, NEW instant \in Earlier,
             ArmDeployment(g, i, instant)
      PROVE  ArbiterInv'
  BY <1>1, StateChangeInv DEF ArmDeployment, MayArm, EpochState
<1>2. ASSUME NEW g \in 0 .. MaxGeneration, NEW revision \in Revisions,
             FreezeForRevisionDrift(g, revision)
      PROVE  ArbiterInv'
  <2>1. "FROZEN" \in EpochState
    BY DEF EpochState
  <2>2. UNCHANGED <<clock, attested>> /\ record' = [record EXCEPT !.state = "FROZEN"]
    BY <1>2 DEF FreezeForRevisionDrift
  <2> QED
    BY <2>1, <2>2, StateChangeInv
<1>3. CASE Tick
  <2>1. UNCHANGED <<record, attested>> /\ clock' = clock + 1
    BY <1>3 DEF Tick
  <2>2. clock' \in Nat
    BY <2>1 DEF ArbiterInv, TypeOK
  <2> QED
    BY <2>1, <2>2 DEF ArbiterInv, TypeOK, ArmedWasAttested, AttestationsAreOfTheRecord
<1>4. CASE UNCHANGED vars
  BY <1>4 DEF vars, ArbiterInv, TypeOK, ArmedWasAttested, AttestationsAreOfTheRecord
<1> QED
  BY <1>1, <1>2, <1>3, <1>4, BeginInv, ReadyInv DEF ArbiterNext

LEMMA InvHolds == ArbiterSpec => []ArbiterInv
BY InitInv, NextInv, PTL DEF ArbiterSpec

\* The record, the clock and the attestations keep their types.
THEOREM TypeCorrect == ArbiterSpec => []TypeOK
<1>1. ArbiterInv => TypeOK
  BY DEF ArbiterInv
<1> QED
  BY <1>1, InvHolds, PTL

\* No epoch is armed that its own lease holder did not declare ready for
\* exactly its inputs, and no generation has two such declarations.
THEOREM ArmedCorrect == ArbiterSpec => []ArmedWasAttested
<1>1. ArbiterInv => ArmedWasAttested
  BY DEF ArbiterInv
<1> QED
  BY <1>1, InvHolds, PTL

\* Recovery leases never overlap, however old a caller's clock reading is.
THEOREM LeaseExclusion == ArbiterSpec => LeasesDoNotOverlap
<1> DEFINE Exclusive == record'.generation # record.generation =>
                          \/ record.state \in {"IDLE", "FROZEN"}
                          \/ record.lease_expiry <= clock
<1>1. ASSUME ArbiterInv, [ArbiterNext]_vars
      PROVE  Exclusive
  <2>1. ASSUME NEW g \in 0 .. MaxGeneration, NEW h \in Holders, NEW i \in Inputs,
               NEW instant \in Earlier, NEW lease \in LeaseSeconds,
               BeginRecovery(g, h, i, instant, lease)
        PROVE  Exclusive
    <3>1. /\ record.state \in EpochState /\ record.lease_expiry \in Nat
          /\ clock \in Nat /\ instant \in Nat /\ instant <= clock
      BY <1>1 DEF ArbiterInv, TypeOK, EpochRecord, Earlier
    <3>2. ~ActiveLease(instant)
      BY <2>1 DEF BeginRecovery
    <3> QED
      BY <3>1, <3>2 DEF ActiveLease, EpochState
  <2>2. ASSUME NEW s \in EpochState, record' = [record EXCEPT !.state = s]
        PROVE  Exclusive
    BY <1>1, <2>2 DEF ArbiterInv, TypeOK, EpochRecord
  <2>3. ASSUME UNCHANGED record
        PROVE  Exclusive
    BY <2>3
  <2> QED
    BY <1>1, <2>1, <2>2, <2>3 DEF ArbiterNext, MarkRecoveryReady, ArmDeployment,
       FreezeForRevisionDrift, Tick, vars, EpochState
<1> QED
  BY <1>1, InvHolds, PTL DEF ArbiterSpec, LeasesDoNotOverlap

\* Epochs only move forward, with a fixed holder, lease and binding.
THEOREM ForwardOnly == ArbiterSpec => EpochsOnlyMoveForward
<1> DEFINE Forward ==
      /\ record'.generation \in {record.generation, record.generation + 1}
      /\ record'.generation # record.generation => record'.state = "RECOVERING"
      /\ record'.generation = record.generation =>
           /\ \E s \in EpochState : record' = [record EXCEPT !.state = s]
           /\ <<record.state, record'.state>> \in
                {<<"RECOVERING", "RECOVERY_READY">>, <<"RECOVERY_READY", "DEPLOYMENT_ARMED">>}
                  \cup {<<s, s>> : s \in EpochState} \cup {<<s, "FROZEN">> : s \in EpochState}
<1>1. ASSUME ArbiterInv, [ArbiterNext]_vars
      PROVE  Forward
  <2>1. /\ record \in EpochRecord /\ record.state \in EpochState /\ record.generation \in Nat
        /\ record = [record EXCEPT !.state = record.state]
    BY <1>1 DEF ArbiterInv, TypeOK, EpochRecord
  <2>2. ASSUME NEW g \in 0 .. MaxGeneration, NEW h \in Holders, NEW i \in Inputs,
               NEW instant \in Earlier, NEW lease \in LeaseSeconds,
               BeginRecovery(g, h, i, instant, lease)
        PROVE  Forward
    BY <2>1, <2>2 DEF BeginRecovery, NextGeneration
  <2>3. ASSUME NEW s \in EpochState, record' = [record EXCEPT !.state = s],
               \/ s = "FROZEN"
               \/ s = "RECOVERY_READY" /\ record.state = "RECOVERING"
               \/ s = "DEPLOYMENT_ARMED" /\ record.state = "RECOVERY_READY"
        PROVE  Forward
    <3>1. record'.generation = record.generation /\ record'.state = s
      BY <2>1, <2>3 DEF EpochRecord
    <3> QED
      BY <2>1, <2>3, <3>1
  <2>4. ASSUME UNCHANGED record
        PROVE  Forward
    BY <2>1, <2>4
  <2> QED
    BY <1>1, <2>2, <2>3, <2>4 DEF ArbiterNext, MarkRecoveryReady, MayMarkReady,
       ArmDeployment, MayArm, FreezeForRevisionDrift, Tick, vars, EpochState
<1> QED
  BY <1>1, InvHolds, PTL DEF ArbiterSpec, EpochsOnlyMoveForward

-----------------------------------------------------------------------------
(* RobotRuntime: one request at the model. *)

PlannerStates == {"idle", "waiting", "landing"}

\* The calls in progress are about requests that were submitted, and a caller
\* on its way to the second locked section has a finished one.
PlannersInv ==
  /\ futures \in Seq({"running"} \cup Results)
  /\ inflight \in 0 .. Len(futures)
  /\ \A p \in Planners :
       /\ planner[p].at \in PlannerStates
       /\ planner[p].at # "idle" => planner[p].request \in 1 .. Len(futures)
       /\ planner[p].at = "landing" => Done(planner[p].request)

RuntimeInv == PlannersInv /\ DOMAIN planner = Planners /\ OneInference

\* An action of a planner p that gives it the record next and changes at most
\* inflight beside it.
LEMMA PlannerMoves ==
  ASSUME RuntimeInv, NEW p \in Planners, NEW next,
         planner' = [planner EXCEPT ![p] = next],
         futures' = futures, inflight' \in 0 .. Len(futures),
         Unfinished \subseteq {inflight'},
         next.at \in PlannerStates,
         next.at # "idle" => next.request \in 1 .. Len(futures),
         next.at = "landing" => Done(next.request)
  PROVE  RuntimeInv'
<1>1. Unfinished' = Unfinished
  BY DEF Unfinished
<1>2. \A n : Done(n)' = Done(n)
  BY <1>1 DEF Done
<1>3. DOMAIN planner' = Planners /\ planner'[p] = next
      /\ \A q \in Planners : q # p => planner'[q] = planner[q]
  BY DEF RuntimeInv
<1>4. PlannersInv'
  BY <1>2, <1>3 DEF RuntimeInv, PlannersInv
<1> QED
  BY <1>1, <1>3, <1>4 DEF RuntimeInv, OneInference

\* The decision that ends a call.
LEMMA Decisions ==
  ASSUME RuntimeInv, NEW p \in Planners, NEW m, Decide(p, m),
         futures' = futures, inflight' \in 0 .. Len(futures),
         Unfinished \subseteq {inflight'}
  PROVE  RuntimeInv'
<1> DEFINE next == [Idle EXCEPT !.mode = m, !.packet = (m = "local_hold")]
<1>1. next.at = "idle"
  BY DEF Idle
<1>2. planner' = [planner EXCEPT ![p] = next]
  BY DEF Decide
<1> HIDE DEF next
<1> QED
  BY <1>1, <1>2, PlannerMoves DEF PlannerStates

\* With no request behind the one in flight, an idle flight means an idle model.
LEMMA NotBusy == RuntimeInv /\ ~Busy => Unfinished = {}
BY DEF RuntimeInv, PlannersInv, OneInference, Busy, Done, Unfinished

LEMMA SubmitRuntime ==
  ASSUME RuntimeInv, NEW p \in Planners, Submit(p)
  PROVE  RuntimeInv'
<1> DEFINE n == Len(futures) + 1
           next == [Idle EXCEPT !.at = "waiting", !.request = Len(futures')]
<1>1. futures \in Seq({"running"} \cup Results) /\ Unfinished = {}
  BY NotBusy DEF RuntimeInv, PlannersInv, Submit
<1>2. futures' = Append(futures, "running") /\ inflight' = Len(futures')
  BY DEF Submit
<1>3. /\ futures' \in Seq({"running"} \cup Results)
      /\ Len(futures') = n
      /\ futures'[n] = "running"
      /\ \A i \in 1 .. Len(futures) : futures'[i] = futures[i]
  BY <1>1, <1>2
<1>4. Unfinished' \subseteq {n}
  BY <1>1, <1>3 DEF Unfinished
<1>5. next.at = "waiting" /\ next.request = n
  BY <1>3 DEF Idle
<1>6. planner' = [planner EXCEPT ![p] = next]
  BY DEF Submit
<1> HIDE DEF next
<1>7. DOMAIN planner' = Planners /\ planner'[p] = next
      /\ \A q \in Planners : q # p => planner'[q] = planner[q]
  BY <1>6 DEF RuntimeInv
<1>8. \A k \in 1 .. Len(futures) : Done(k)'
  BY <1>1, <1>4 DEF Done
<1>9. PlannersInv'
  BY <1>2, <1>3, <1>5, <1>7, <1>8 DEF RuntimeInv, PlannersInv, PlannerStates
<1>10. OneInference'
  BY <1>2, <1>3, <1>4 DEF OneInference
<1> QED
  BY <1>7, <1>9, <1>10 DEF RuntimeInv

\* The model finishes the request in flight, which is its only one.
LEMMA FinishRuntime ==
  ASSUME RuntimeInv, NEW result \in Results, ModelFinishes(result)
  PROVE  RuntimeInv'
<1>1. /\ futures \in Seq({"running"} \cup Results)
      /\ UNCHANGED <<inflight, planner>>
  BY DEF RuntimeInv, PlannersInv, ModelFinishes
<1>2. Unfinished = {inflight}
  BY DEF ModelFinishes, RuntimeInv, OneInference
<1>3. \A m \in Unfinished : inflight <= m
  BY <1>2 DEF RuntimeInv, PlannersInv
<1> DEFINE oldest == CHOOSE n \in Unfinished : \A m \in Unfinished : n <= m
<1>4. oldest = inflight
  BY <1>2, <1>3
<1>5. futures' = [futures EXCEPT ![oldest] = result]
  BY DEF ModelFinishes
<1> HIDE DEF oldest
<1>6. /\ futures' \in Seq({"running"} \cup Results)
      /\ Len(futures') = Len(futures)
      /\ \A i \in 1 .. Len(futures) : futures'[i] = IF i = oldest THEN result ELSE futures[i]
  <2> DEFINE T == {"running"} \cup Results
             n == Len(futures)
  <2>1. n \in Nat /\ futures \in [1 .. n -> T] /\ result \in T
    BY <1>1
  <2> HIDE DEF T, n
  <2>2. futures' \in [1 .. n -> T]
    BY <1>5, <2>1
  <2>3. futures' \in Seq(T) /\ Len(futures') = n
    BY <2>1, <2>2
  <2> QED
    BY <1>5, <2>1, <2>3 DEF T, n
<1>7. Unfinished' = {}
  <2>1. \A i \in 1 .. Len(futures) : i # inflight => futures[i] # "running"
    BY <1>2 DEF Unfinished
  <2>2. \A i \in 1 .. Len(futures) : futures'[i] # "running"
    BY <1>4, <1>6, <2>1 DEF Results
  <2> QED
    BY <1>6, <2>2 DEF Unfinished
<1>8. \A n : Done(n)'
  BY <1>7 DEF Done
<1>9. PlannersInv'
  BY <1>1, <1>6, <1>8 DEF RuntimeInv, PlannersInv
<1> QED
  BY <1>1, <1>7, <1>9 DEF RuntimeInv, OneInference

LEMMA CallRuntime ==
  ASSUME RuntimeInv, NEW p \in Planners,
         \/ \E healthy \in BOOLEAN : HandOverUnasked(p, healthy)
         \/ Submit(p) \/ RefuseBusy(p) \/ Result(p) \/ Timeout(p) \/ Land(p)
         \/ ConfirmLocalHold(p)
         \/ \E choice \in RecoveryChoice, ready, registered \in BOOLEAN :
              ApplyLlmRecoveryChoice(p, choice, ready, registered)
  PROVE  RuntimeInv'
<1>1. inflight \in 0 .. Len(futures) /\ Unfinished \subseteq {inflight}
  BY DEF RuntimeInv, PlannersInv, OneInference
<1>2. ASSUME NEW m, Decide(p, m), UNCHANGED <<futures, inflight>>
      PROVE  RuntimeInv'
  BY <1>1, <1>2, Decisions
<1>3. CASE \E healthy \in BOOLEAN : HandOverUnasked(p, healthy)
  BY <1>2, <1>3 DEF HandOverUnasked
<1>4. CASE Submit(p)
  BY <1>4, SubmitRuntime
<1>5. CASE RefuseBusy(p)
  BY <1>2, <1>5 DEF RefuseBusy
<1>6. CASE Timeout(p)
  BY <1>2, <1>6 DEF Timeout
<1>7. CASE Result(p)
  <2>1. CASE Decide(p, "none")
    BY <1>2, <1>7, <2>1 DEF Result
  <2>2. CASE planner' = [planner EXCEPT ![p].at = "landing"]
    <3> DEFINE next == [planner[p] EXCEPT !.at = "landing"]
    <3>1. planner' = [planner EXCEPT ![p] = next]
      BY <2>2 DEF RuntimeInv
    <3>2. next.at = "landing" /\ next.request = planner[p].request
      OBVIOUS
    <3>3. /\ planner[p].request \in 1 .. Len(futures) /\ Done(planner[p].request)
          /\ UNCHANGED <<futures, inflight>>
      BY <1>7 DEF Result, RuntimeInv, PlannersInv
    <3> HIDE DEF next
    <3> QED
      BY <1>1, <3>1, <3>2, <3>3, PlannerMoves DEF PlannerStates
  <2> QED
    BY <1>7, <2>1, <2>2 DEF Result
<1>8. CASE Land(p)
  <2>1. Done(planner[p].request)
    BY <1>8 DEF Land, RuntimeInv, PlannersInv
  <2>2. Unfinished \subseteq {inflight'} /\ inflight' \in 0 .. Len(futures)
    BY <1>1, <1>8, <2>1 DEF Land, Landed, Done
  <2> QED
    BY <1>8, <2>2, Decisions DEF Land
<1>9. ASSUME NEW m, planner[p].at = "idle", planner' = [planner EXCEPT ![p].mode = m],
             UNCHANGED <<futures, inflight>>
      PROVE  RuntimeInv'
  <2> DEFINE next == [planner[p] EXCEPT !.mode = m]
  <2>1. planner' = [planner EXCEPT ![p] = next]
    BY <1>9 DEF RuntimeInv
  <2>2. next.at = "idle"
    BY <1>9
  <2> HIDE DEF next
  <2> QED
    BY <1>1, <1>9, <2>1, <2>2, PlannerMoves DEF PlannerStates
<1>10. CASE ConfirmLocalHold(p)
  BY <1>9, <1>10 DEF ConfirmLocalHold
<1>11. CASE \E choice \in RecoveryChoice, ready, registered \in BOOLEAN :
             ApplyLlmRecoveryChoice(p, choice, ready, registered)
  BY <1>9, <1>11 DEF ApplyLlmRecoveryChoice
<1> QED
  BY <1>3, <1>4, <1>5, <1>6, <1>7, <1>8, <1>10, <1>11

LEMMA RuntimeInvariant == RuntimeSpec => []RuntimeInv
<1>1. RuntimeInit => RuntimeInv
  BY DEF RuntimeInit, RuntimeInv, PlannersInv, OneInference, Unfinished, Idle, PlannerStates
<1>2. RuntimeInv /\ [RuntimeNext]_runtimeVars => RuntimeInv'
  <2> SUFFICES ASSUME RuntimeInv, [RuntimeNext]_runtimeVars PROVE RuntimeInv'
    OBVIOUS
  <2>1. CASE UNCHANGED runtimeVars
    BY <2>1 DEF runtimeVars, RuntimeInv, PlannersInv, OneInference, Unfinished, Done
  <2> QED
    BY <2>1, CallRuntime, FinishRuntime DEF RuntimeNext
<1> QED
  BY <1>1, <1>2, PTL DEF RuntimeSpec

\* However calls overlap and time out, the model never has a second request
\* behind the one in flight, for any number of planners and requests.
THEOREM InferenceCorrect == RuntimeSpec => []OneInference
<1>1. RuntimeInv => OneInference
  BY DEF RuntimeInv
<1> QED
  BY <1>1, RuntimeInvariant, PTL

-----------------------------------------------------------------------------
(* RailGuard: two people signed each fault, and somebody owes its rollback. *)

SignedPayloads ==
  [role : RequiredRoles, principal : Principals, digest : Experiments,
   issued : Nat, expires : Nat]
RailReceipts ==
  [id : Nat, experiment : Experiments, phase : {"injected", "rolled_back"}, validated : Nat]

\* Two people of the two roles signed the experiment, and at that moment
\* neither signature had run out.
TwoPeopleSigned(e, instant) ==
  \E s, q \in signed :
    /\ s.role = "training_owner" /\ q.role = "infrastructure_owner"
    /\ s.principal # q.principal
    /\ \A x \in {s, q} : x.digest = e /\ x.issued <= instant /\ instant <= x.expires

\* A controller that has been let pass has its approvals, and one that has a
\* receipt is on its way from the observation to the rollback.
DrillOK(d) ==
  \/ d = NoDrill
  \/ d.at = "evidence" /\ d.experiment \in Experiments
  \/ /\ d.at = "inject" /\ d.experiment \in Experiments /\ d.validated \in Nat
     /\ TwoPeopleSigned(d.experiment, d.validated)
  \/ \E place \in {"observe", "rollback"}, i \in 1 .. Len(receipts) :
       d = [at |-> place, receipt |-> i]

DrillsInv ==
  /\ moment \in Nat
  /\ signed \subseteq SignedPayloads
  /\ receipts \in Seq(RailReceipts)
  /\ DOMAIN drill = Controllers
  /\ \A c \in Controllers : DrillOK(drill[c])

RailInv == DrillsInv /\ InjectedWasApproved /\ FaultsAreAttended

LEMMA InjectedAsSigned ==
  InjectedWasApproved <=>
    \A i \in DOMAIN receipts : TwoPeopleSigned(receipts[i].experiment, receipts[i].validated)
BY DEF InjectedWasApproved, TwoPeopleSigned

\* Signatures stay, and what is said of a drill stays true while they do and
\* receipts are only added.
LEMMA DrillsStay ==
  ASSUME signed \subseteq signed', Len(receipts) \in Nat, Len(receipts') \in Nat,
         Len(receipts) <= Len(receipts')
  PROVE  /\ \A e, i : TwoPeopleSigned(e, i) => TwoPeopleSigned(e, i)'
         /\ \A d : DrillOK(d) => DrillOK(d)'
<1>1. \A e, i : TwoPeopleSigned(e, i) => TwoPeopleSigned(e, i)'
  BY DEF TwoPeopleSigned
<1>2. 1 .. Len(receipts) \subseteq 1 .. Len(receipts')
  OBVIOUS
<1>3. ASSUME NEW d, DrillOK(d) PROVE DrillOK(d)'
  BY <1>1, <1>2, <1>3 DEF DrillOK
<1> QED
  BY <1>1, <1>3

\* A controller moves on without touching a receipt, and keeps the one it has
\* or has none.
LEMMA DrillMoves ==
  ASSUME RailInv, NEW c \in Controllers, NEW next, Progress(c, next),
         UNCHANGED <<moment, signed, receipts>>, unattended \subseteq unattended',
         DrillOK(next),
         drill[c].at \in {"observe", "rollback"} =>
           \/ next.at \in {"observe", "rollback"} /\ next.receipt = drill[c].receipt
           \/ drill[c].receipt \in unattended'
  PROVE  RailInv'
<1>1. /\ DOMAIN drill' = Controllers /\ drill'[c] = next
      /\ \A k \in Controllers : k # c => drill'[k] = drill[k]
  BY DEF Progress, RailInv, DrillsInv
<1>2. \A d : DrillOK(d) => DrillOK(d)'
  BY DrillsStay DEF RailInv, DrillsInv
<1>3. DrillsInv'
  <2>1. \A k \in Controllers : DrillOK(drill'[k])
    BY <1>1 DEF RailInv, DrillsInv
  <2>2. \A k \in Controllers : DrillOK(drill[k])'
    BY <1>2, <2>1
  <2> QED
    BY <1>1, <2>2 DEF RailInv, DrillsInv
<1>4. InjectedWasApproved'
  BY DEF RailInv, InjectedWasApproved
<1>5. FaultsAreAttended'
  <2> SUFFICES ASSUME NEW i \in DOMAIN receipts, receipts[i].phase = "injected",
                      i \notin unattended'
               PROVE  \E k \in Controllers : /\ drill'[k].at \in {"observe", "rollback"}
                                             /\ drill'[k].receipt = i
    BY DEF FaultsAreAttended
  <2>1. PICK k \in Controllers : drill[k].at \in {"observe", "rollback"} /\ drill[k].receipt = i
    BY DEF RailInv, FaultsAreAttended
  <2>2. CASE k = c
    BY <1>1, <2>1, <2>2
  <2>3. CASE k # c
    BY <1>1, <2>1, <2>3
  <2> QED
    BY <2>2, <2>3
<1> QED
  BY <1>3, <1>4, <1>5 DEF RailInv

LEMMA SignRail ==
  ASSUME RailInv, NEW role \in RequiredRoles, NEW p \in Principals, NEW e \in Experiments,
         SignApproval(role, p, e)
  PROVE  RailInv'
<1> DEFINE s == [role |-> role, principal |-> p, digest |-> e,
                 issued |-> moment, expires |-> moment + ApprovalTerm]
<1>1. /\ signed' = signed \cup {s} /\ UNCHANGED <<moment, drill, receipts, unattended>>
      /\ s \in SignedPayloads
  BY RailGuardAssumption DEF SignApproval, RailInv, DrillsInv, SignedPayloads
<1> HIDE DEF s
<1>2. /\ \A d, i : TwoPeopleSigned(d, i) => TwoPeopleSigned(d, i)'
      /\ \A d : DrillOK(d) => DrillOK(d)'
  BY <1>1, DrillsStay DEF RailInv, DrillsInv
<1>3. DrillsInv'
  <2>1. \A k \in Controllers : DrillOK(drill[k])'
    BY <1>1, <1>2 DEF RailInv, DrillsInv
  <2> QED
    BY <1>1, <2>1 DEF RailInv, DrillsInv
<1>4. \A i \in DOMAIN receipts : TwoPeopleSigned(receipts[i].experiment, receipts[i].validated)'
  BY <1>1, <1>2, InjectedAsSigned DEF RailInv
<1>5. InjectedWasApproved'
  BY <1>1, <1>4 DEF InjectedWasApproved, TwoPeopleSigned
<1>6. FaultsAreAttended'
  BY <1>1 DEF RailInv, FaultsAreAttended
<1> QED
  BY <1>3, <1>5, <1>6 DEF RailInv

\* Two approvals that pass are two signatures of the experiment itself.
LEMMA ApprovalsAreSignatures ==
  ASSUME RailInv, NEW e \in Experiments, NEW a \in Presentable, NEW b \in Presentable,
         ValidateDualApprovals({a, b}, e)
  PROVE  TwoPeopleSigned(e, moment)
<1> DEFINE Good(x) == /\ x.signature \in signed
                      /\ x.signature.role = x.claims.role
                      /\ x.signature.principal = x.claims.principal
                      /\ x.signature.digest = e
                      /\ x.signature.issued <= moment /\ moment <= x.signature.expires
<1>1. ASSUME NEW x \in Presentable, Verifies(x, e) PROVE Good(x)
  <2>1. PICK s \in signed, role \in RequiredRoles :
          x = [claims |-> [s EXCEPT !.role = role], signature |-> s]
    BY DEF Presentable
  <2>2. s \in SignedPayloads
    BY DEF RailInv, DrillsInv
  <2>3. /\ s = [[s EXCEPT !.role = role] EXCEPT !.digest = e]
        /\ [s EXCEPT !.role = role].issued <= moment
        /\ moment <= [s EXCEPT !.role = role].expires
    BY <1>1, <2>1 DEF Verifies
  <2>4. /\ s.role = role /\ s.digest = e /\ s.issued <= moment /\ moment <= s.expires
        /\ [s EXCEPT !.role = role].role = s.role
        /\ [s EXCEPT !.role = role].principal = s.principal
    BY <2>2, <2>3 DEF SignedPayloads
  <2>5. x.signature = s /\ x.claims = [s EXCEPT !.role = role]
    BY <2>1
  <2> QED
    BY <2>4, <2>5
<1>2. Good(a) /\ Good(b)
  BY <1>1 DEF ValidateDualApprovals
<1>3. a.claims.principal # b.claims.principal
  <2> SUFFICES ASSUME a.claims.principal = b.claims.principal PROVE FALSE
    OBVIOUS
  <2>1. {x.claims.principal : x \in {a, b}} = {a.claims.principal}
    OBVIOUS
  <2>2. Cardinality({x.claims.principal : x \in {a, b}}) = 2
    BY DEF ValidateDualApprovals
  <2>3. Cardinality({a.claims.principal}) = 1
    BY FS_Singleton
  <2> QED
    BY <2>1, <2>2, <2>3
<1>4. {a.claims.role, b.claims.role} = RequiredRoles
  BY DEF ValidateDualApprovals
<1>5. \/ a.claims.role = "training_owner" /\ b.claims.role = "infrastructure_owner"
      \/ b.claims.role = "training_owner" /\ a.claims.role = "infrastructure_owner"
  BY <1>4 DEF RequiredRoles
<1> QED
  BY <1>2, <1>3, <1>5 DEF TwoPeopleSigned

\* The executor's receipts are those of injections that were let pass.
LEMMA InjectRail ==
  ASSUME RailInv, NEW c \in Controllers, InjectFault(c)
  PROVE  RailInv'
<1> DEFINE n == Len(receipts) + 1
           receipt == Receipt(drill[c], n)
<1>1. /\ receipts \in Seq(RailReceipts)
      /\ drill[c].experiment \in Experiments /\ drill[c].validated \in Nat
      /\ TwoPeopleSigned(drill[c].experiment, drill[c].validated)
  BY DEF InjectFault, RailInv, DrillsInv, DrillOK, NoDrill
<1>2. /\ receipt \in RailReceipts
      /\ receipt.experiment = drill[c].experiment /\ receipt.validated = drill[c].validated
      /\ receipts' = Append(receipts, receipt)
      /\ UNCHANGED <<moment, signed>>
  BY <1>1 DEF InjectFault, Receipt, RailReceipts
<1> HIDE DEF receipt
<1>3. /\ receipts' \in Seq(RailReceipts) /\ Len(receipts') = n
      /\ receipts'[n] = receipt
      /\ \A i \in 1 .. Len(receipts) : receipts'[i] = receipts[i]
  BY <1>1, <1>2
<1>4. /\ \A e, i : TwoPeopleSigned(e, i) => TwoPeopleSigned(e, i)'
      /\ \A d : DrillOK(d) => DrillOK(d)'
  BY <1>2, <1>3, DrillsStay
<1>5. PICK next : /\ Progress(c, next)
                  /\ \/ next = [at |-> "observe", receipt |-> n] /\ UNCHANGED unattended
                     \/ next = NoDrill /\ unattended' = unattended \cup {n}
  BY DEF InjectFault
<1>6. /\ DOMAIN drill' = Controllers /\ drill'[c] = next
      /\ \A k \in Controllers : k # c => drill'[k] = drill[k]
  BY <1>5 DEF Progress, RailInv, DrillsInv
<1>7. DrillOK(next)'
  BY <1>1, <1>3, <1>5 DEF DrillOK
<1>8. \A k \in Controllers : DrillOK(drill[k])'
  <2> SUFFICES ASSUME NEW k \in Controllers PROVE DrillOK(drill[k])'
    OBVIOUS
  <2>1. CASE k = c
    BY <1>6, <1>7, <2>1 DEF DrillOK
  <2>2. CASE k # c
    <3>1. DrillOK(drill'[k])
      BY <1>6, <2>2 DEF RailInv, DrillsInv
    <3> QED
      BY <1>4, <3>1
  <2> QED
    BY <2>1, <2>2
<1>9. DrillsInv'
  BY <1>2, <1>3, <1>6, <1>8 DEF RailInv, DrillsInv
<1>10. \A i \in 1 .. n : TwoPeopleSigned(receipts'[i].experiment, receipts'[i].validated)
  BY <1>1, <1>2, <1>3, InjectedAsSigned DEF RailInv
<1>11. InjectedWasApproved'
  BY <1>2, <1>3, <1>10 DEF InjectedWasApproved, TwoPeopleSigned
<1>12. FaultsAreAttended'
  <2> SUFFICES ASSUME NEW i \in 1 .. n, receipts'[i].phase = "injected", i \notin unattended'
               PROVE  \E k \in Controllers : /\ drill'[k].at \in {"observe", "rollback"}
                                             /\ drill'[k].receipt = i
    BY <1>3 DEF FaultsAreAttended
  <2>1. CASE i = n
    BY <1>5, <1>6, <2>1
  <2>2. CASE i # n
    <3>1. i \in DOMAIN receipts /\ receipts[i].phase = "injected" /\ i \notin unattended
      BY <1>1, <1>3, <1>5, <2>2
    <3>2. PICK k \in Controllers :
            drill[k].at \in {"observe", "rollback"} /\ drill[k].receipt = i
      BY <3>1 DEF RailInv, FaultsAreAttended
    <3>3. k # c
      BY <3>2 DEF InjectFault
    <3> QED
      BY <1>6, <3>2, <3>3
  <2> QED
    BY <2>1, <2>2
<1> QED
  BY <1>9, <1>11, <1>12 DEF RailInv

\* The rollback of a receipt, which may raise.
LEMMA RollbackRail ==
  ASSUME RailInv, NEW c \in Controllers, RequestRollback(c)
  PROVE  RailInv'
<1> DEFINE n == drill[c].receipt
<1>1. PICK i \in 1 .. Len(receipts) : drill[c] = [at |-> "rollback", receipt |-> i]
  BY DEF RequestRollback, RailInv, DrillsInv, DrillOK, NoDrill
<1>2. n = i /\ drill[c].at = "rollback"
  BY <1>1
<1> HIDE DEF n
<1>3. DrillOK(NoDrill)
  BY DEF DrillOK
<1>4. CASE unattended' = unattended \cup {n} /\ UNCHANGED receipts
  <2>1. Progress(c, NoDrill) /\ UNCHANGED <<moment, signed>>
    BY DEF RequestRollback
  <2>2. drill[c].receipt \in unattended'
    BY <1>4 DEF n
  <2> QED
    BY <1>3, <1>4, <2>1, <2>2, DrillMoves
<1>5. CASE receipts' = [receipts EXCEPT ![n].phase = "rolled_back"] /\ UNCHANGED unattended
  <2> DEFINE receipt == [receipts[n] EXCEPT !.phase = "rolled_back"]
  <2>1. Progress(c, NoDrill) /\ UNCHANGED <<moment, signed>>
    BY DEF RequestRollback
  <2>2. receipts \in Seq(RailReceipts) /\ receipts[n] \in RailReceipts
    BY <1>2 DEF RailInv, DrillsInv
  <2>3. /\ receipt \in RailReceipts /\ receipt.phase = "rolled_back"
        /\ receipt.experiment = receipts[n].experiment
        /\ receipt.validated = receipts[n].validated
    BY <2>2 DEF RailReceipts
  <2>4. receipts' = [receipts EXCEPT ![n] = receipt]
    BY <1>5
  <2> HIDE DEF receipt
  <2>5. /\ receipts' \in Seq(RailReceipts) /\ Len(receipts') = Len(receipts)
        /\ DOMAIN receipts = 1 .. Len(receipts) /\ DOMAIN receipts' = 1 .. Len(receipts)
        /\ \A k \in 1 .. Len(receipts) : receipts'[k] = IF k = n THEN receipt ELSE receipts[k]
    <3> DEFINE N == Len(receipts)
    <3>1. N \in Nat /\ receipts \in [1 .. N -> RailReceipts]
      BY <2>2
    <3> HIDE DEF N
    <3>2. receipts' \in [1 .. N -> RailReceipts]
      BY <2>3, <2>4, <3>1
    <3>3. receipts' \in Seq(RailReceipts) /\ Len(receipts') = N
      BY <3>1, <3>2
    <3> QED
      BY <2>4, <3>1, <3>2, <3>3 DEF N
  <2>6. /\ DOMAIN drill' = Controllers /\ drill'[c] = NoDrill
        /\ \A k \in Controllers : k # c => drill'[k] = drill[k]
    BY <2>1 DEF Progress, RailInv, DrillsInv
  <2>7. \A d : DrillOK(d) => DrillOK(d)'
    BY <2>1, <2>2, <2>5, DrillsStay
  <2>8. \A k \in Controllers : DrillOK(drill'[k])
    BY <1>3, <2>6 DEF RailInv, DrillsInv
  <2>9. \A k \in Controllers : DrillOK(drill[k])'
    BY <2>7, <2>8
  <2>10. DrillsInv'
    BY <2>1, <2>5, <2>6, <2>9 DEF RailInv, DrillsInv
  <2>11. \A k \in 1 .. Len(receipts) :
           TwoPeopleSigned(receipts'[k].experiment, receipts'[k].validated)
    BY <2>3, <2>5, InjectedAsSigned DEF RailInv
  <2>12. InjectedWasApproved'
    BY <2>1, <2>5, <2>11 DEF InjectedWasApproved, TwoPeopleSigned
  <2>13. FaultsAreAttended'
    <3> SUFFICES ASSUME NEW k \in 1 .. Len(receipts), receipts'[k].phase = "injected",
                        k \notin unattended
                 PROVE  \E q \in Controllers : /\ drill'[q].at \in {"observe", "rollback"}
                                               /\ drill'[q].receipt = k
      BY <1>5, <2>5 DEF FaultsAreAttended
    <3>1. k # n /\ receipts[k].phase = "injected"
      BY <2>3, <2>5
    <3>2. PICK q \in Controllers :
            drill[q].at \in {"observe", "rollback"} /\ drill[q].receipt = k
      BY <2>5, <3>1 DEF RailInv, FaultsAreAttended
    <3>3. q # c
      BY <3>1, <3>2 DEF n
    <3> QED
      BY <2>6, <3>2, <3>3
  <2> QED
    BY <2>10, <2>12, <2>13 DEF RailInv
<1> QED
  BY <1>4, <1>5 DEF RequestRollback, n

\* The steps of a controller that leave the executor alone.
LEMMA ControllerRail ==
  ASSUME RailInv, NEW c \in Controllers,
         \/ \E e \in Experiments, fit \in BOOLEAN : ReadEvidence(c, e, fit)
         \/ \E a, b \in Presentable : Validate(c, {a, b})
         \/ \E returned \in BOOLEAN : ObservationEnds(c, returned)
         \/ Refused(c) \/ InjectRaises(c) \/ LoseController(c)
  PROVE  RailInv'
<1>1. DrillOK(NoDrill) /\ NoDrill.at = "idle"
  BY DEF DrillOK, NoDrill
<1>2. ASSUME NEW e \in Experiments, NEW fit \in BOOLEAN, ReadEvidence(c, e, fit)
      PROVE  RailInv'
  <2> DEFINE next == [at |-> "evidence", experiment |-> e, fit |-> fit,
                      no_active_fault |-> ~ActiveFault]
  <2>1. Progress(c, next) /\ drill[c].at = "idle"
        /\ UNCHANGED <<moment, signed, receipts, unattended>>
    BY <1>2 DEF ReadEvidence
  <2>2. DrillOK(next)
    BY DEF DrillOK
  <2> HIDE DEF next
  <2> QED
    BY <2>1, <2>2, DrillMoves
<1>3. ASSUME NEW a \in Presentable, NEW b \in Presentable, Validate(c, {a, b})
      PROVE  RailInv'
  <2> DEFINE e == drill[c].experiment
             next == [at |-> "inject", experiment |-> e, validated |-> moment]
  <2>1. Progress(c, next) /\ drill[c].at = "evidence" /\ ValidateDualApprovals({a, b}, e)
        /\ UNCHANGED <<moment, signed, receipts, unattended>>
    BY <1>3 DEF Validate
  <2>2. e \in Experiments /\ moment \in Nat
    BY <2>1 DEF RailInv, DrillsInv, DrillOK, NoDrill
  <2>3. TwoPeopleSigned(e, moment)
    BY <2>1, <2>2, ApprovalsAreSignatures
  <2>4. DrillOK(next)
    BY <2>2, <2>3 DEF DrillOK
  <2> HIDE DEF next
  <2> QED
    BY <2>1, <2>4, DrillMoves
<1>4. ASSUME NEW returned \in BOOLEAN, ObservationEnds(c, returned)
      PROVE  RailInv'
  <2> DEFINE next == [drill[c] EXCEPT !.at = "rollback"]
  <2>1. Progress(c, next) /\ drill[c].at = "observe"
        /\ UNCHANGED <<moment, signed, receipts, unattended>>
    BY <1>4 DEF ObservationEnds, AfterObservation
  <2>2. PICK i \in 1 .. Len(receipts) : drill[c] = [at |-> "observe", receipt |-> i]
    BY <2>1 DEF RailInv, DrillsInv, DrillOK, NoDrill
  <2>3. next = [at |-> "rollback", receipt |-> i]
    BY <2>2
  <2>4. DrillOK(next) /\ next.at = "rollback" /\ next.receipt = drill[c].receipt
    BY <2>2, <2>3 DEF DrillOK
  <2> HIDE DEF next
  <2> QED
    BY <2>1, <2>4, DrillMoves
<1>5. CASE Refused(c) \/ InjectRaises(c)
  BY <1>1, <1>5, DrillMoves DEF Refused, InjectRaises
<1>6. CASE LoseController(c)
  <2>1. /\ Progress(c, NoDrill) /\ UNCHANGED <<moment, signed, receipts>>
        /\ unattended \subseteq unattended'
        /\ drill[c].at \in {"observe", "rollback"} => drill[c].receipt \in unattended'
    BY <1>6 DEF LoseController
  <2> QED
    BY <1>1, <2>1, DrillMoves
<1> QED
  BY <1>2, <1>3, <1>4, <1>5, <1>6

LEMMA RailInvariant == RailSpec => []RailInv
<1>1. RailInit => RailInv
  BY DEF RailInit, RailInv, DrillsInv, DrillOK, InjectedWasApproved, FaultsAreAttended
<1>2. RailInv /\ [RailNext]_railVars => RailInv'
  <2> SUFFICES ASSUME RailInv, [RailNext]_railVars PROVE RailInv'
    OBVIOUS
  <2>1. ASSUME UNCHANGED <<signed, drill, receipts, unattended>>, moment' \in Nat
        PROVE  RailInv'
    <3>1. \A k \in Controllers : DrillOK(drill[k])'
      BY <2>1, DrillsStay DEF RailInv, DrillsInv
    <3>2. DrillsInv'
      BY <2>1, <3>1 DEF RailInv, DrillsInv
    <3> QED
      BY <2>1, <3>2 DEF RailInv, InjectedWasApproved, FaultsAreAttended
  <2>2. CASE MomentPasses
    BY <2>1, <2>2 DEF MomentPasses, RailInv, DrillsInv
  <2>3. CASE UNCHANGED railVars
    BY <2>1, <2>3 DEF railVars, RailInv, DrillsInv
  <2> QED
    BY <2>2, <2>3, SignRail, ControllerRail, InjectRail, RollbackRail DEF RailNext
<1> QED
  BY <1>1, <1>2, PTL DEF RailSpec

\* Whatever is presented as an approval, an injected fault was signed in every
\* field by two people of the two roles, for any experiments and principals.
THEOREM ApprovedCorrect == RailSpec => []InjectedWasApproved
<1>1. RailInv => InjectedWasApproved
  BY DEF RailInv
<1> QED
  BY <1>1, RailInvariant, PTL

\* A fault that is still injected has a controller that will ask for its
\* rollback, unless that one was lost or an answer of the executor was.
THEOREM AttendedCorrect == RailSpec => []FaultsAreAttended
<1>1. RailInv => FaultsAreAttended
  BY DEF RailInv
<1> QED
  BY <1>1, RailInvariant, PTL

-----------------------------------------------------------------------------
(* AlertControl: a duplicate has its effect in place. *)

Statuses == {"none", "firing", "resolved"}
Groups == [status : Statuses, alerts : SUBSET fired]

EntryOf(a) ==
  [alert |-> a.name, fingerprint |-> Fingerprint(a), actions |-> ActionsOf(a),
   target |-> a.target]

\* What is on its way is made of alerts that fired.
DeliveryInv ==
  /\ fired \subseteq Alerts
  /\ payloads \subseteq Groups
  /\ inbox \in Groups

\* The effect of every alert that would count as a duplicate, whether it ever
\* fired or only has the fingerprint of one that did.
SeenHasEffect ==
  \A a \in Alerts : Acceptable(a) /\ Fingerprint(a) \in seen =>
    /\ a.target \in suspect_jobs
    /\ a.name \in FreezingNames => a.target \in frozen_jobs

FrozenForCause == \A t \in frozen_jobs : \E a \in fired : a.name \in FreezingNames /\ a.target = t

\* The trail names fingerprints that have been seen, each once.
TrailInv ==
  /\ audit \in Seq({EntryOf(a) : a \in Alerts})
  /\ \A i \in 1 .. Len(audit) : audit[i].fingerprint \in seen
  /\ \A i, j \in 1 .. Len(audit) : audit[i].fingerprint = audit[j].fingerprint => i = j

AlertInv == DeliveryInv /\ SeenHasEffect /\ FrozenForCause /\ TrailInv

\* One fingerprint is of one name and one target.
LEMMA FingerprintsTell ==
  ASSUME NEW a \in Alerts, NEW b \in Alerts, Fingerprint(a) = Fingerprint(b)
  PROVE  a.name = b.name /\ a.target = b.target
<1>1. \A x : <<"given", x>>[1] = "given"
  OBVIOUS
<1>2. \A x, y : <<"labels", x, y>>[1] = "labels" /\ <<"labels", x, y>>[2] = x
                /\ <<"labels", x, y>>[3] = y
  OBVIOUS
<1>3. CASE a.fingerprinted /\ b.fingerprinted
  <2>1. <<"given", a.id>> = <<"given", b.id>>
    BY <1>3 DEF Fingerprint
  <2>2. a.id = b.id
    BY <2>1
  <2> QED
    BY <1>3, <2>2, AlertControlAssumption
<1>4. CASE ~a.fingerprinted /\ ~b.fingerprinted
  <2>1. <<"labels", a.name, a.target>> = <<"labels", b.name, b.target>>
    BY <1>4 DEF Fingerprint, FallbackFingerprint
  <2> QED
    BY <2>1, <1>2
<1>5. CASE a.fingerprinted /\ ~b.fingerprinted
  <2>1. <<"given", a.id>> = <<"labels", b.name, b.target>>
    BY <1>5 DEF Fingerprint, FallbackFingerprint
  <2> QED
    BY <2>1, <1>1, <1>2
<1>6. CASE ~a.fingerprinted /\ b.fingerprinted
  <2>1. <<"given", b.id>> = <<"labels", a.name, a.target>>
    BY <1>6 DEF Fingerprint, FallbackFingerprint
  <2> QED
    BY <2>1, <1>1, <1>2
<1> QED
  BY <1>3, <1>4, <1>5, <1>6

\* Steps that leave the control plane alone.
LEMMA ControlStays ==
  ASSUME AlertInv, UNCHANGED ControlState, fired \subseteq fired', DeliveryInv'
  PROVE  AlertInv'
<1>1. FrozenForCause'
  BY DEF AlertInv, ControlState, FrozenForCause
<1>2. SeenHasEffect'
  BY DEF AlertInv, ControlState, SeenHasEffect
<1>3. TrailInv'
  BY DEF AlertInv, ControlState, TrailInv
<1> QED
  BY <1>1, <1>2, <1>3 DEF AlertInv

LEMMA InboxShrinks ==
  ASSUME DeliveryInv, NEW a, UNCHANGED Alertmanager,
         TakeFromInbox(a) \/ inbox' = NoPayload
  PROVE  DeliveryInv'
<1>1. NoPayload \in Groups
  BY DEF NoPayload, Groups, Statuses
<1>2. [inbox EXCEPT !.alerts = @ \ {a}] \in Groups
  BY DEF DeliveryInv, Groups
<1>3. inbox' \in Groups
  BY <1>1, <1>2 DEF TakeFromInbox
<1> QED
  BY <1>3 DEF DeliveryInv, Groups, Alertmanager

LEMMA DeliveryAlerts ==
  ASSUME AlertInv,
         \/ \E a \in Alerts : AlertFires(a) \/ AlertResolves(a)
                              \/ HandleWithoutEffect(a) \/ HandleRejects(a)
         \/ \E group \in SUBSET fired : PostGroup(group)
         \/ \E payload \in payloads : ReceivePayload(payload)
  PROVE  AlertInv'
<1>1. ASSUME NEW a \in Alerts, AlertFires(a) PROVE AlertInv'
  <2>1. fired' = fired \cup {a} /\ UNCHANGED <<payloads, inbox, ControlState>>
    BY <1>1 DEF AlertFires
  <2>2. Groups \subseteq Groups'
    BY <2>1 DEF Groups
  <2>3. DeliveryInv'
    BY <2>1, <2>2 DEF AlertInv, DeliveryInv
  <2> QED
    BY <2>1, <2>3, ControlStays DEF ControlState
<1>2. ASSUME NEW a \in Alerts, AlertResolves(a) PROVE AlertInv'
  <2>1. UNCHANGED <<fired, payloads, inbox, ControlState>>
    BY <1>2 DEF AlertResolves
  <2>2. DeliveryInv'
    BY <2>1 DEF AlertInv, DeliveryInv, Groups
  <2> QED
    BY <2>1, <2>2, ControlStays
<1>3. ASSUME NEW a \in Alerts, HandleWithoutEffect(a) \/ HandleRejects(a) PROVE AlertInv'
  <2>1. UNCHANGED <<Alertmanager, ControlState>> /\ (TakeFromInbox(a) \/ inbox' = NoPayload)
    BY <1>3 DEF HandleWithoutEffect, HandleRejects
  <2>2. DeliveryInv'
    BY <2>1, InboxShrinks DEF AlertInv
  <2> QED
    BY <2>1, <2>2, ControlStays DEF Alertmanager
<1>4. ASSUME NEW group \in SUBSET fired, PostGroup(group) PROVE AlertInv'
  <2> DEFINE status == IF group \cap ablaze # {} THEN "firing" ELSE "resolved"
             payload == [status |-> status, alerts |-> group]
  <2>1. payloads' = payloads \cup {payload} /\ UNCHANGED <<ablaze, fired, inbox, ControlState>>
    BY <1>4 DEF PostGroup
  <2>2. payload \in Groups
    BY DEF Groups, Statuses
  <2> HIDE DEF payload
  <2>3. DeliveryInv'
    BY <2>1, <2>2 DEF AlertInv, DeliveryInv, Groups
  <2> QED
    BY <2>1, <2>3, ControlStays
<1>5. ASSUME NEW payload \in payloads, ReceivePayload(payload) PROVE AlertInv'
  <2>1. inbox' = payload /\ UNCHANGED <<Alertmanager, ControlState>>
    BY <1>5 DEF ReceivePayload
  <2>2. DeliveryInv'
    BY <2>1 DEF AlertInv, DeliveryInv, Groups, Alertmanager
  <2> QED
    BY <2>1, <2>2, ControlStays DEF Alertmanager
<1> QED
  BY <1>1, <1>2, <1>3, <1>4, <1>5

LEMMA FiringAlerts ==
  ASSUME AlertInv, NEW a \in Alerts, HandleFiring(a)
  PROVE  AlertInv'
<1>1. /\ a \in fired /\ Fingerprint(a) \notin seen
      /\ seen' = seen \cup {Fingerprint(a)}
      /\ suspect_jobs' = suspect_jobs \cup {a.target}
      /\ audit' = Append(audit, EntryOf(a))
      /\ TakeFromInbox(a) /\ UNCHANGED Alertmanager
  BY DEF HandleFiring, AlertInv, DeliveryInv, Groups, EntryOf
<1>2. frozen_jobs' = frozen_jobs \cup IF a.name \in FreezingNames THEN {a.target} ELSE {}
  BY DEF HandleFiring, ActionsOf
<1>3. DeliveryInv'
  BY <1>1, InboxShrinks DEF AlertInv
<1>4. SeenHasEffect'
  <2> SUFFICES ASSUME NEW b \in Alerts, Acceptable(b), Fingerprint(b) \in seen'
               PROVE  /\ b.target \in suspect_jobs'
                      /\ b.name \in FreezingNames => b.target \in frozen_jobs'
    BY DEF SeenHasEffect
  <2>1. CASE Fingerprint(b) \in seen
    BY <1>1, <1>2, <2>1 DEF AlertInv, SeenHasEffect
  <2>2. CASE Fingerprint(b) = Fingerprint(a)
    BY <1>1, <1>2, <2>2, FingerprintsTell
  <2> QED
    BY <1>1, <2>1, <2>2
<1>5. FrozenForCause'
  BY <1>1, <1>2 DEF AlertInv, FrozenForCause, Alertmanager
<1>6. TrailInv'
  <2> DEFINE Entries == {EntryOf(b) : b \in Alerts}
             entry == EntryOf(a)
             n == Len(audit) + 1
  <2>1. audit \in Seq(Entries) /\ entry \in Entries /\ audit' = Append(audit, entry)
    BY <1>1 DEF AlertInv, TrailInv
  <2>2. entry.fingerprint = Fingerprint(a)
    BY DEF EntryOf
  <2> HIDE DEF Entries, entry
  <2>3. /\ audit' \in Seq(Entries) /\ Len(audit') = n /\ audit'[n] = entry
        /\ \A i \in 1 .. Len(audit) : audit'[i] = audit[i]
    BY <2>1
  <2>4. \A i \in 1 .. Len(audit) : audit'[i].fingerprint \in seen
    BY <2>3 DEF AlertInv, TrailInv
  <2>5. \A i \in 1 .. n : audit'[i].fingerprint \in seen'
    BY <1>1, <2>1, <2>2, <2>3, <2>4
  <2>6. \A i, j \in 1 .. n : audit'[i].fingerprint = audit'[j].fingerprint => i = j
    <3> SUFFICES ASSUME NEW i \in 1 .. n, NEW j \in 1 .. n,
                        audit'[i].fingerprint = audit'[j].fingerprint, i # j
                 PROVE  FALSE
      OBVIOUS
    <3>1. CASE i \in 1 .. Len(audit) /\ j \in 1 .. Len(audit)
      BY <2>3, <3>1 DEF AlertInv, TrailInv
    <3>2. CASE i = n
      <4>1. j \in 1 .. Len(audit)
        BY <2>1, <3>2
      <4> QED
        BY <1>1, <2>2, <2>3, <2>4, <3>2, <4>1
    <3>3. CASE j = n
      <4>1. i \in 1 .. Len(audit)
        BY <2>1, <3>3
      <4> QED
        BY <1>1, <2>2, <2>3, <2>4, <3>3, <4>1
    <3> QED
      BY <2>1, <3>1, <3>2, <3>3
  <2> QED
    BY <2>3, <2>5, <2>6 DEF TrailInv, Entries
<1> QED
  BY <1>3, <1>4, <1>5, <1>6 DEF AlertInv

\* A control plane that has just been started has taken nothing.
LEMMA FreshAlerts ==
  ASSUME fired \subseteq Alerts, payloads \subseteq Groups, inbox = NoPayload,
         FreshControlPlane(frozen_jobs, suspect_jobs, seen, audit)
  PROVE  AlertInv
<1>1. NoPayload \in Groups
  BY DEF NoPayload, Groups, Statuses
<1> QED
  BY <1>1 DEF AlertInv, DeliveryInv, SeenHasEffect, FrozenForCause, TrailInv, FreshControlPlane

LEMMA RestartAlerts ==
  ASSUME AlertInv, RestartControlPlane
  PROVE  AlertInv'
<1>1. NoPayload \in Groups
  BY DEF NoPayload, Groups, Statuses
<1>2. DeliveryInv'
  BY <1>1 DEF RestartControlPlane, AlertInv, DeliveryInv, Groups, Alertmanager
<1>3. SeenHasEffect' /\ FrozenForCause'
  BY DEF RestartControlPlane, FreshControlPlane, SeenHasEffect, FrozenForCause
<1>4. TrailInv'
  BY DEF RestartControlPlane, FreshControlPlane, TrailInv
<1> QED
  BY <1>2, <1>3, <1>4 DEF AlertInv

LEMMA AlertInvariant == AlertSpec => []AlertInv
<1>1. AlertInit => AlertInv
  BY FreshAlerts DEF AlertInit
<1>2. AlertInv /\ [AlertNext]_alertVars => AlertInv'
  <2> SUFFICES ASSUME AlertInv, [AlertNext]_alertVars PROVE AlertInv'
    OBVIOUS
  <2>1. CASE UNCHANGED alertVars
    <3>1. UNCHANGED <<fired, payloads, inbox, ControlState>>
      BY <2>1 DEF alertVars, ControlState
    <3>2. DeliveryInv'
      BY <3>1 DEF AlertInv, DeliveryInv, Groups
    <3> QED
      BY <3>1, <3>2, ControlStays
  <2> QED
    BY <2>1, DeliveryAlerts, FiringAlerts, RestartAlerts DEF AlertNext
<1> QED
  BY <1>1, <1>2, PTL DEF AlertSpec

\* However payloads are grouped, repeated, delayed or reordered, with restarts
\* in between: what counts as a duplicate has its effect in place, only jobs of
\* alerts that fired are frozen, and the trail names each alert once.
THEOREM AlertsCorrect == AlertSpec => []NoAlertIsSwallowed
<1>1. AlertInv => NoAlertIsSwallowed
  <2> SUFFICES ASSUME AlertInv PROVE NoAlertIsSwallowed
    OBVIOUS
  <2>1. \A a \in fired : Acceptable(a) /\ Fingerprint(a) \in seen =>
          /\ a.target \in suspect_jobs
          /\ a.name \in FreezingNames => ~MayArmNewPlan(a.target)
    BY DEF AlertInv, DeliveryInv, SeenHasEffect, MayArmNewPlan
  <2>2. DOMAIN audit = 1 .. Len(audit)
    BY DEF AlertInv, TrailInv
  <2> QED
    BY <2>1, <2>2 DEF NoAlertIsSwallowed, AlertInv, FrozenForCause, TrailInv
<1> QED
  BY <1>1, AlertInvariant, PTL

-----------------------------------------------------------------------------
(* CanaryGate: a withdrawn release stays withdrawn, and a cohort only grows. *)

Advancing == {"candidate", "shadow", "canary_low_risk", "canary_expanded", "production"}
GivenDecisions == {"rollback", "await_evidence", "promote"}

CanaryInv ==
  /\ stage \in Advancing \cup {"paused", "rolled_back"}
  /\ reports \subseteq GivenDecisions
  /\ withdrawn \in BOOLEAN
  /\ withdrawn <=> stage \in {"paused", "rolled_back"}

LEMMA AfterPromotion ==
  ASSUME NEW s, NEW t \in NextStage(s)
  PROVE  \/ s = "shadow" /\ t = "canary_low_risk"
         \/ s = "canary_low_risk" /\ t = "canary_expanded"
         \/ s = "canary_expanded" /\ t = "production"
<1>1. PICK n \in 1 .. 3 : Canaries[n] = s /\ t = Canaries[n + 1]
  BY DEF NextStage
<1>2. n = 1 \/ n = 2 \/ n = 3
  BY <1>1
<1>3. /\ Canaries[1] = "shadow" /\ Canaries[2] = "canary_low_risk"
      /\ Canaries[3] = "canary_expanded" /\ Canaries[4] = "production"
  BY DEF Canaries
<1> QED
  BY <1>1, <1>2, <1>3

\* The percentages of the stages, and with them the cohorts, only grow.
LEMMA CohortsGrow ==
  /\ \A s : s \notin {"canary_low_risk", "canary_expanded", "production"} => Cohort(s) = {}
  /\ Cohort("canary_low_risk") \subseteq Cohort("canary_expanded")
  /\ Cohort("canary_expanded") \subseteq Cohort("production")
<1>1. \A i \in LowRiskTasks : Bucket[i] \in 0 .. 99
  BY CanaryAssumption
<1>2. \A s : s \notin {"canary_low_risk", "canary_expanded", "production"} => PercentOf(s) = 0
  BY DEF PercentOf
<1>3. /\ PercentOf("canary_low_risk") = LowRiskPercent
      /\ PercentOf("canary_expanded") = ExpandedPercent
      /\ PercentOf("production") = 100
  BY DEF PercentOf
<1>4. ASSUME NEW s, s \notin {"canary_low_risk", "canary_expanded", "production"}
      PROVE  Cohort(s) = {}
  BY <1>1, <1>2, <1>4 DEF Cohort
<1>5. Cohort("canary_low_risk") \subseteq Cohort("canary_expanded")
  BY <1>1, <1>3, CanaryAssumption DEF Cohort
<1>6. Cohort("canary_expanded") \subseteq Cohort("production")
  BY <1>1, <1>3, CanaryAssumption DEF Cohort
<1> QED
  BY <1>4, <1>5, <1>6

\* What a step does to the stage, and to the word on whether it is withdrawn.
LEMMA StageMoves ==
  ASSUME CanaryInv, CanaryNext
  PROVE  /\ \/ stage' = stage
            \/ stage = "candidate" /\ stage' = "shadow"
            \/ stage' \in {"paused", "rolled_back"}
            \/ stage' \in NextStage(stage)
         /\ withdrawn' <=> withdrawn \/ stage' \in {"paused", "rolled_back"}
         /\ withdrawn' \in BOOLEAN
         /\ reports' \subseteq GivenDecisions
<1>1. CASE EnterShadow
  BY <1>1 DEF EnterShadow, CanaryInv
<1>2. CASE \E outcome \in Harms \cup {"good"} : RecordOutcome(outcome)
  BY <1>2 DEF RecordOutcome, CanaryInv
<1>3. CASE Evaluate
  <2>1. Decision \in GivenDecisions
    BY DEF Decision, GivenDecisions
  <2> QED
    BY <1>3, <2>1 DEF Evaluate, CanaryInv
<1>4. ASSUME NEW decision \in reports, NEW authorized \in BOOLEAN, Apply(decision, authorized)
      PROVE  /\ stage' = stage \/ stage' \in {"paused", "rolled_back"}
                \/ stage' \in NextStage(stage)
             /\ withdrawn' <=> withdrawn \/ stage' \in {"paused", "rolled_back"}
             /\ withdrawn' \in BOOLEAN
             /\ reports' \subseteq GivenDecisions
  <2>1. decision \in GivenDecisions
    BY DEF CanaryInv
  <2>2. CASE decision = "rollback"
    BY <1>4, <2>2 DEF Apply, CanaryInv
  <2>3. CASE decision = "await_evidence"
    BY <1>4, <2>3 DEF Apply, CanaryInv
  <2>4. CASE decision = "promote" /\ ~authorized
    BY <1>4, <2>4 DEF Apply, CanaryInv
  <2>5. CASE decision = "promote" /\ authorized
    BY <1>4, <2>5 DEF Apply, CanaryInv
  <2> QED
    BY <2>1, <2>2, <2>3, <2>4, <2>5 DEF GivenDecisions
<1> QED
  BY <1>1, <1>2, <1>3, <1>4 DEF CanaryNext

LEMMA CanaryInvariant == CanarySpec => []CanaryInv
<1>1. CanaryInit => CanaryInv
  BY DEF CanaryInit, CanaryInv, Advancing
<1>2. CanaryInv /\ [CanaryNext]_canaryVars => CanaryInv'
  <2> SUFFICES ASSUME CanaryInv, [CanaryNext]_canaryVars PROVE CanaryInv'
    OBVIOUS
  <2>1. CASE CanaryNext
    BY <2>1, StageMoves, AfterPromotion DEF CanaryInv, Advancing
  <2>2. CASE UNCHANGED canaryVars
    BY <2>2 DEF canaryVars, CanaryInv
  <2> QED
    BY <2>1, <2>2
<1> QED
  BY <1>1, <1>2, PTL DEF CanarySpec

\* Whatever reports are applied, in whatever order: a withdrawn candidate drives
\* no robot again, and an advancing one keeps those it drives, for any robots,
\* hashes and percentages that grow.
THEOREM AuthorityCorrect == CanarySpec => AuthorityIsOrderly
<1> DEFINE Orderly == /\ withdrawn' => Cohort(stage') = {}
                      /\ ~withdrawn' => Cohort(stage) \subseteq Cohort(stage')
<1>1. CanaryInv /\ CanaryInv' /\ [CanaryNext]_canaryVars => [Orderly]_canaryVars
  <2> SUFFICES ASSUME CanaryInv, CanaryInv', CanaryNext PROVE Orderly
    BY DEF Orderly
  <2>1. withdrawn' => Cohort(stage') = {}
    BY CohortsGrow DEF CanaryInv
  <2>2. ~withdrawn' => Cohort(stage) \subseteq Cohort(stage')
    BY CohortsGrow, StageMoves, AfterPromotion
  <2> QED
    BY <2>1, <2>2
<1>2. CanarySpec => [][Orderly]_canaryVars
  BY <1>1, CanaryInvariant, PTL DEF CanarySpec
<1> QED
  BY <1>2 DEF AuthorityIsOrderly

-----------------------------------------------------------------------------
(* SpscRing: slots hold increasing packets between tail and head. *)

LEMMA DivisionFacts ==
  ASSUME NEW n \in Nat, NEW c \in Nat \ {0}
  PROVE  n = c * (n \div c) + (n % c) /\ n \div c \in Nat /\ n % c \in 0 .. c - 1
OBVIOUS

\* Less than a capacity apart, two logical indices have two slots.
LEMMA SlotsDiffer ==
  ASSUME NEW n \in Nat, NEW m \in Nat, NEW c \in Nat \ {0}, n < m, m - n < c
  PROVE  n % c # m % c
<1> DEFINE p == n \div c
           q == m \div c
           s == n % c
           t == m % c
<1>1. n = c * p + s /\ m = c * q + t /\ p \in Nat /\ q \in Nat /\ s \in Nat /\ t \in Nat
  BY DivisionFacts
<1> HIDE DEF p, q, s, t
<1> SUFFICES ASSUME s = t PROVE FALSE
  BY DEF s, t
<1>2. m - n = c * q - c * p
  BY <1>1
<1>3. CASE q <= p
  <2>1. c * q <= c * p
    BY <1>1, <1>3
  <2> QED
    BY <1>1, <1>2, <2>1
<1>4. CASE q >= p + 1
  <2>1. c * q >= c * p + c
    BY <1>1, <1>4
  <2> QED
    BY <1>1, <1>2, <2>1
<1> QED
  BY <1>1, <1>3, <1>4

Packets == [packet : Nat, capture_ns : Nat, expires_ns : Nat]

\* The slots f of a ring of capacity c with the indices t and h: the unread
\* items are later than the last one that was popped, in order, and the newest
\* is the last one that was pushed.
Ordered(f, c, t, h, last, got) ==
  /\ \A n \in t .. h - 1 : f[n % c] \in Packets /\ got < f[n % c].packet
  /\ \A n, m \in t .. h - 1 : n < m => f[n % c].packet < f[m % c].packet
  /\ t < h => f[(h - 1) % c].packet = last
  /\ t = h => got = last

Slots(c) == [0 .. c - 1 -> Packets \cup {Nothing}]

LEMMA TailMoves ==
  ASSUME NEW c \in Nat \ {0}, NEW f \in Slots(c), NEW t \in Nat, NEW h \in Nat,
         t < h, h - t <= c, NEW last \in Nat, NEW got \in Nat,
         Ordered(f, c, t, h, last, got)
  PROVE  LET g == [f EXCEPT ![t % c] = Nothing]
         IN  /\ g \in Slots(c)
             /\ Ordered(g, c, t + 1, h, last, f[t % c].packet)
             /\ t + 1 < h => Ordered(g, c, t + 1, h, last, got)
             /\ f[t % c] \in Packets /\ got < f[t % c].packet
<1> DEFINE g == [f EXCEPT ![t % c] = Nothing]
<1>1. g \in Slots(c)
  BY DEF Slots
<1>2. f[t % c] \in Packets /\ got < f[t % c].packet
  BY DEF Ordered
<1>3. ASSUME NEW n \in t + 1 .. h - 1
      PROVE  g[n % c] = f[n % c] /\ n \in t .. h - 1 /\ f[t % c].packet < f[n % c].packet
  <2>1. n \in Nat /\ t < n /\ n - t < c /\ n \in t .. h - 1 /\ t \in t .. h - 1
    OBVIOUS
  <2>2. t % c # n % c
    BY <2>1, SlotsDiffer
  <2>3. n % c \in 0 .. c - 1
    BY <2>1, DivisionFacts
  <2>4. g[n % c] = f[n % c]
    BY <2>2, <2>3 DEF Slots
  <2> QED
    BY <2>1, <2>4 DEF Ordered
<1>4. t + 1 < h => h - 1 \in t + 1 .. h - 1
  OBVIOUS
<1> HIDE DEF g
<1>5. /\ \A n \in t + 1 .. h - 1 : g[n % c] \in Packets /\ got < g[n % c].packet
      /\ \A n, m \in t + 1 .. h - 1 : n < m => g[n % c].packet < g[m % c].packet
      /\ t + 1 < h => g[(h - 1) % c].packet = last
  BY <1>3, <1>4 DEF Ordered
<1>6. t + 1 < h => Ordered(g, c, t + 1, h, last, got)
  BY <1>5 DEF Ordered
<1>7. t + 1 = h => f[t % c].packet = last
  BY DEF Ordered
<1>8. Ordered(g, c, t + 1, h, last, f[t % c].packet)
  <2>1. \A n \in t + 1 .. h - 1 : g[n % c] \in Packets /\ f[t % c].packet < g[n % c].packet
    BY <1>3, <1>5
  <2> QED
    BY <1>5, <1>7, <2>1 DEF Ordered
<1> QED
  BY <1>1, <1>2, <1>6, <1>8 DEF g

LEMMA HeadMoves ==
  ASSUME NEW c \in Nat \ {0}, NEW f \in Slots(c), NEW t \in Nat, NEW h \in Nat,
         t <= h, h - t < c, NEW last \in Nat, NEW got \in Nat,
         Ordered(f, c, t, h, last, got),
         NEW x \in Packets, last < x.packet
  PROVE  LET g == [f EXCEPT ![h % c] = x]
         IN  g \in Slots(c) /\ Ordered(g, c, t, h + 1, x.packet, got)
<1> DEFINE g == [f EXCEPT ![h % c] = x]
<1>1. g \in Slots(c)
  BY DEF Slots
<1>2. h % c \in 0 .. c - 1
  BY DivisionFacts
<1>3. g[h % c] = x
  BY <1>2 DEF Slots
<1>4. ASSUME NEW n \in t .. h - 1
      PROVE  g[n % c] = f[n % c] /\ f[n % c].packet <= last /\ f[n % c] \in Packets
             /\ got < f[n % c].packet
  <2>1. n \in Nat /\ n < h /\ h - n < c
    OBVIOUS
  <2>2. n % c # h % c
    BY <2>1, SlotsDiffer
  <2>3. n % c \in 0 .. c - 1
    BY <2>1, DivisionFacts
  <2>4. g[n % c] = f[n % c]
    BY <2>2, <2>3 DEF Slots
  <2>5. h - 1 \in t .. h - 1 /\ t < h
    OBVIOUS
  <2>6. f[(h - 1) % c].packet = last
    BY <2>5 DEF Ordered
  <2>7. n = h - 1 \/ n < h - 1
    OBVIOUS
  <2>8. f[n % c] \in Packets /\ got < f[n % c].packet
    BY DEF Ordered
  <2>9. n < h - 1 => f[n % c].packet < f[(h - 1) % c].packet
    BY <2>5 DEF Ordered
  <2>10. f[n % c].packet \in Nat
    BY <2>8 DEF Packets
  <2> QED
    BY <2>4, <2>6, <2>7, <2>8, <2>9, <2>10
<1>5. got < x.packet
  <2>1. x.packet \in Nat
    BY DEF Packets
  <2>2. CASE t = h
    BY <2>1, <2>2 DEF Ordered
  <2>3. CASE t < h
    <3>1. h - 1 \in t .. h - 1
      BY <2>3
    <3>2. got < f[(h - 1) % c].packet /\ f[(h - 1) % c].packet = last
      BY <2>3, <3>1 DEF Ordered
    <3> QED
      BY <2>1, <3>2
  <2> QED
    BY <2>2, <2>3
<1> HIDE DEF g
<1>6. \A n \in t .. h : n = h \/ n \in t .. h - 1
  OBVIOUS
<1>7. \A n \in t .. h - 1 : f[n % c].packet \in Nat
  BY <1>4 DEF Packets
<1>8. \A n \in t .. h : g[n % c] \in Packets /\ got < g[n % c].packet
  BY <1>3, <1>4, <1>5, <1>6
<1>9. \A n, m \in t .. h : n < m => g[n % c].packet < g[m % c].packet
  <2> SUFFICES ASSUME NEW n \in t .. h, NEW m \in t .. h, n < m
               PROVE  g[n % c].packet < g[m % c].packet
    OBVIOUS
  <2>1. n \in t .. h - 1
    OBVIOUS
  <2>2. CASE m = h
    <3>1. /\ g[n % c] = f[n % c] /\ f[n % c].packet <= last /\ f[n % c].packet \in Nat
          /\ g[m % c] = x
      BY <1>3, <1>4, <1>7, <2>1, <2>2
    <3>2. x.packet \in Nat
      BY DEF Packets
    <3> QED
      BY <3>1, <3>2
  <2>3. CASE m \in t .. h - 1
    BY <1>4, <2>1, <2>3 DEF Ordered
  <2> QED
    BY <1>6, <2>2, <2>3
<1>10. (h + 1) - 1 = h
  OBVIOUS
<1>11. Ordered(g, c, t, h + 1, x.packet, got)
  <2>1. t # h + 1
    OBVIOUS
  <2>2. g[((h + 1) - 1) % c].packet = x.packet
    BY <1>3, <1>10
  <2>3. /\ \A n \in t .. (h + 1) - 1 : g[n % c] \in Packets /\ got < g[n % c].packet
        /\ \A n, m \in t .. (h + 1) - 1 : n < m => g[n % c].packet < g[m % c].packet
    BY <1>8, <1>9, <1>10
  <2> QED
    BY <2>1, <2>2, <2>3, Zenon DEF Ordered
<1> QED
  BY <1>1, <1>11 DEF g

RingRecords(S, c) == [slots : S, capacity : {c}, head : Nat, tail : Nat, closed : BOOLEAN]

TailTo(g, k, n) == [g EXCEPT !.slots = k, !.tail = n]
HeadTo(g, k, n) == [g EXCEPT !.slots = k, !.head = n]

\* A ring of capacity c whose last pushed and last popped packets are these.
RingOK(g, c, last, got) ==
  /\ g \in RingRecords(Slots(c), c)
  /\ last \in Nat /\ got \in Nat
  /\ g.tail <= g.head /\ g.head - g.tail <= c
  /\ Ordered(g.slots, c, g.tail, g.head, last, got)

LEMMA EmptyRingOK ==
  ASSUME NEW c \in Nat \ {0, 1}
  PROVE  RingOK(EmptyRing(c), c, 0, 0)
BY DEF RingOK, RingRecords, EmptyRing, Ordered, Slots

LEMMA PoppedOK ==
  ASSUME NEW c \in Nat \ {0, 1}, NEW g, NEW last, NEW got, RingOK(g, c, last, got), Unread(g)
  PROVE  /\ NextItem(g) \in Packets /\ got < NextItem(g).packet
         /\ RingOK(Popped(g), c, last, NextItem(g).packet)
<1> DEFINE f == g.slots
           t == g.tail
           h == g.head
           k == [f EXCEPT ![t % c] = Nothing]
           q == Popped(g)
<1>1. /\ f \in Slots(c) /\ g.capacity = c /\ h \in Nat /\ t \in Nat /\ last \in Nat /\ got \in Nat
      /\ t < h /\ h - t <= c /\ Ordered(f, c, t, h, last, got)
  BY DEF RingOK, RingRecords, Unread
<1>2. /\ k \in Slots(c) /\ f[t % c] \in Packets /\ got < f[t % c].packet
      /\ Ordered(k, c, t + 1, h, last, f[t % c].packet)
  BY <1>1, TailMoves, ZenonT(30)
<1>3. NextItem(g) = f[t % c]
  BY <1>1 DEF NextItem
<1>4. q = TailTo(g, k, t + 1)
  BY <1>1 DEF TailTo, Popped, RingOK, RingRecords
<1> HIDE DEF k, q
<1>5. /\ q \in RingRecords(Slots(c), c)
      /\ q.slots = k /\ q.tail = t + 1 /\ q.head = h
  <2> DEFINE S == Slots(c)
             n == t + 1
  <2>1. g \in RingRecords(S, c) /\ k \in S /\ n \in Nat /\ q = TailTo(g, k, n)
    BY <1>1, <1>2, <1>4 DEF RingOK
  <2> HIDE DEF S, n
  <2>2. q \in RingRecords(S, c) /\ q.slots = k /\ q.tail = n /\ q.head = h
    BY <2>1 DEF RingRecords, TailTo
  <2> QED
    BY <2>2 DEF S, n
<1>6. f[t % c].packet \in Nat
  BY <1>2 DEF Packets
<1>7. t + 1 <= h /\ h - (t + 1) <= c
  BY <1>1
<1>8. RingOK(q, c, last, f[t % c].packet)
  BY <1>1, <1>2, <1>5, <1>6, <1>7 DEF RingOK
<1> QED
  BY <1>2, <1>3, <1>8 DEF q

\* The step that makes room leaves the last pushed and the last popped packet
\* what they were: with two slots there is a newer item than the one it drops.
LEMMA WithRoomOK ==
  ASSUME NEW c \in Nat \ {0, 1}, NEW g, NEW last, NEW got, RingOK(g, c, last, got)
  PROVE  LET r == WithRoom(g)
         IN  RingOK(r, c, last, got) /\ r.head - r.tail < c /\ r.closed = g.closed
<1> DEFINE f == g.slots
           t == g.tail
           h == g.head
           k == [f EXCEPT ![t % c] = Nothing]
           r == WithRoom(g)
<1>1. /\ f \in Slots(c) /\ g.capacity = c /\ h \in Nat /\ t \in Nat /\ last \in Nat /\ got \in Nat
      /\ t <= h /\ h - t <= c /\ Ordered(f, c, t, h, last, got)
  BY DEF RingOK, RingRecords
<1>2. CASE ~Full(g)
  <2>1. r = g
    BY <1>2 DEF WithRoom
  <2>2. h - t < c
    BY <1>1, <1>2 DEF Full
  <2> QED
    BY <2>1, <2>2
<1>3. CASE Full(g)
  <2>1. h - t = c /\ t < h /\ t + 1 < h
    BY <1>1, <1>3 DEF Full
  <2>2. k \in Slots(c) /\ Ordered(k, c, t + 1, h, last, got)
    BY <1>1, <2>1, TailMoves, ZenonT(30)
  <2>3. r = TailTo(g, k, t + 1)
    BY <1>1, <1>3 DEF TailTo, WithRoom, RingOK, RingRecords
  <2> HIDE DEF k, r
  <2>4. /\ r \in RingRecords(Slots(c), c)
        /\ r.slots = k /\ r.tail = t + 1 /\ r.head = h /\ r.closed = g.closed
    <3> DEFINE S == Slots(c)
               n == t + 1
    <3>1. g \in RingRecords(S, c) /\ k \in S /\ n \in Nat /\ r = TailTo(g, k, n)
      BY <1>1, <2>2, <2>3 DEF RingOK
    <3> HIDE DEF S, n
    <3>2. /\ r \in RingRecords(S, c) /\ r.slots = k /\ r.tail = n /\ r.head = h
          /\ r.closed = g.closed
      BY <3>1 DEF RingRecords, TailTo
    <3> QED
      BY <3>2 DEF S, n
  <2>5. t + 1 <= h /\ h - (t + 1) < c
    BY <1>1, <2>1
  <2>6. RingOK(r, c, last, got)
    BY <1>1, <2>2, <2>4, <2>5 DEF RingOK
  <2> QED
    BY <2>4, <2>5, <2>6 DEF r
<1> QED
  BY <1>2, <1>3

LEMMA PushedOK ==
  ASSUME NEW c \in Nat \ {0, 1}, NEW g, NEW last, NEW got, RingOK(g, c, last, got),
         ~g.closed, NEW x \in Packets, last < x.packet
  PROVE  RingOK(Push(g, x), c, x.packet, got)
<1> DEFINE r == WithRoom(g)
           f == r.slots
           t == r.tail
           h == r.head
           k == [f EXCEPT ![h % c] = x]
           q == Push(g, x)
<1>1. RingOK(r, c, last, got) /\ h - t < c
  BY WithRoomOK
<1>2. q = [r EXCEPT !.slots[h % r.capacity] = x, !.head = @ + 1]
  BY DEF Push
<1> HIDE DEF r
<1>3. /\ f \in Slots(c) /\ r.capacity = c /\ h \in Nat /\ t \in Nat /\ last \in Nat /\ got \in Nat
      /\ t <= h /\ Ordered(f, c, t, h, last, got)
  BY <1>1 DEF RingOK, RingRecords
<1>4. k \in Slots(c) /\ Ordered(k, c, t, h + 1, x.packet, got)
  BY <1>1, <1>3, HeadMoves
<1>5. q = HeadTo(r, k, h + 1)
  BY <1>1, <1>2, <1>3 DEF HeadTo, RingOK, RingRecords
<1> HIDE DEF k, q
<1>6. /\ q \in RingRecords(Slots(c), c)
      /\ q.slots = k /\ q.tail = t /\ q.head = h + 1
  <2> DEFINE S == Slots(c)
             n == h + 1
  <2>1. r \in RingRecords(S, c) /\ k \in S /\ n \in Nat /\ q = HeadTo(r, k, n)
    BY <1>1, <1>3, <1>4, <1>5 DEF RingOK
  <2> HIDE DEF S, n
  <2>2. q \in RingRecords(S, c) /\ q.slots = k /\ q.tail = t /\ q.head = n
    BY <2>1 DEF RingRecords, HeadTo
  <2> QED
    BY <2>2 DEF S, n
<1>7. t <= h + 1 /\ (h + 1) - t <= c
  BY <1>1, <1>3
<1>8. x.packet \in Nat
  BY DEF Packets
<1>9. RingOK(q, c, x.packet, got)
  BY <1>3, <1>4, <1>6, <1>7, <1>8 DEF RingOK
<1> QED
  BY <1>9 DEF q

-----------------------------------------------------------------------------
(* RobotPipeline: a held cycle accepts nothing. *)

Places == {"check", "drain", "prepare", "age", "predict", "decide", "ended"}

\* The latch is not released, and a control cycle that began under it decides
\* with a snapshot that shows it.
LatchInv ==
  /\ at \in [Workers -> Places]
  /\ distrusted \in BOOLEAN
  /\ distrusted => mode # "NORMAL"
  /\ distrusted /\ at["control"] = "decide" => mode_seen # "NORMAL"

\* A worker other than the control worker moves, and the latch may be set.
LEMMA OthersKeepLatch ==
  ASSUME LatchInv, NEW w \in Workers, NEW next \in Places, Goto(w, next),
         next # "decide", UNCHANGED <<mode_seen, distrusted>>,
         mode' = mode \/ mode' # "NORMAL"
  PROVE  LatchInv'
<1>1. /\ at' \in [Workers -> Places]
      /\ at'["control"] = "decide" => at["control"] = "decide"
  BY DEF LatchInv, Goto, Workers
<1> QED
  BY <1>1 DEF LatchInv

LEMMA StillKeepsLatch ==
  ASSUME LatchInv, UNCHANGED <<at, mode_seen, distrusted>>, mode' = mode \/ mode' # "NORMAL"
  PROVE  LatchInv'
BY DEF LatchInv

LEMMA NextKeepsLatch ==
  ASSUME LatchInv, [PipelineNext]_pipelineVars
  PROVE  LatchInv'
<1>1. Consumers \subseteq Workers /\ "control" \in Workers /\ "state" \in Workers
      /\ "inference" \in Workers
  BY DEF Consumers, Source, Workers
<1>2. Held # "NORMAL"
  BY DEF Held
<1>3. ASSUME NEW w \in Workers, EndLoop(w) PROVE LatchInv'
  BY <1>3, OthersKeepLatch DEF EndLoop, Places
<1>4. ASSUME NEW w \in Consumers, BeginDrain(w) PROVE LatchInv'
  <2>1. /\ at' = [at EXCEPT ![w] = "drain"] /\ UNCHANGED <<mode, mode_seen>>
        /\ distrusted' = IF w = "control" THEN mode # "NORMAL" ELSE distrusted
    BY <1>4 DEF BeginDrain, Goto
  <2>2. at' \in [Workers -> Places]
    BY <1>1, <2>1 DEF LatchInv, Places
  <2>3. CASE w = "control"
    <3>1. at'["control"] = "drain"
      BY <1>1, <2>1, <2>3 DEF LatchInv
    <3>2. distrusted' = (mode # "NORMAL")
      BY <2>1, <2>3
    <3>3. distrusted' \in BOOLEAN /\ (distrusted' => mode # "NORMAL")
      BY <3>2
    <3> QED
      BY <2>1, <2>2, <3>1, <3>3 DEF LatchInv
  <2>4. CASE w # "control"
    BY <1>1, <1>4, <2>4, OthersKeepLatch DEF BeginDrain, Places
  <2> QED
    BY <2>3, <2>4
<1>5. ASSUME NEW w \in Consumers, DrainOne(w) PROVE LatchInv'
  BY <1>5, StillKeepsLatch DEF DrainOne
<1>6. ASSUME NEW w \in Consumers, UseDrained(w) PROVE LatchInv'
  BY <1>1, <1>6, OthersKeepLatch DEF UseDrained, Places
<1>7. CASE Capture
  BY <1>7, StillKeepsLatch DEF Capture
<1>8. CASE PrepareState
  BY <1>1, <1>8, OthersKeepLatch DEF PrepareState, Places
<1>9. CASE StateTooOld \/ PredictionRefused
  BY <1>1, <1>2, <1>9, OthersKeepLatch DEF StateTooOld, PredictionRefused, RequestHold, Places
<1>10. CASE StateFresh \/ PredictionAccepted \/ PredictRaises
  BY <1>1, <1>10, OthersKeepLatch DEF StateFresh, PredictionAccepted, PredictRaises, Places
<1>11. CASE Snapshot
  BY <1>1, <1>11 DEF Snapshot, Goto, LatchInv, Places
<1>12. CASE AcceptWindow \/ HoldInstead
  BY <1>1, <1>12 DEF AcceptWindow, HoldInstead, EndCycle, Goto, LatchInv, Places
<1>13. CASE Stop \/ TimePasses \/ HardStop
  BY <1>13, StillKeepsLatch DEF Stop, TimePasses, HardStop
<1>14. ASSUME NEW r \in Rings, CloseRing(r) PROVE LatchInv'
  BY <1>14, StillKeepsLatch DEF CloseRing
<1>15. CASE UNCHANGED pipelineVars
  BY <1>15, StillKeepsLatch DEF pipelineVars
<1> QED
  BY <1>3, <1>4, <1>5, <1>6, <1>7, <1>8, <1>9, <1>10, <1>11, <1>12, <1>13, <1>14, <1>15
     DEF PipelineNext

LEMMA LatchInvariant == PipelineSpec => []LatchInv
<1>1. PipelineInit => LatchInv
  BY DEF PipelineInit, LatchInv, Places, Workers
<1>2. LatchInv /\ [PipelineNext]_pipelineVars => LatchInv'
  BY NextKeepsLatch
<1> QED
  BY <1>1, <1>2, PTL DEF PipelineSpec

\* A control cycle that begins after a hold or a hard stop was requested accepts
\* no window, for any capacities, ages and interleaving of the four workers.
THEOREM HeldCorrect == PipelineSpec => HeldCycleAcceptsNothing
<1> DEFINE Accepts == at["control"] = "decide" /\ MayAccept /\ at'["control"] = "check"
<1>1. LatchInv => [Accepts => ~distrusted]_pipelineVars
  BY DEF LatchInv, MayAccept
<1>2. PipelineSpec => [][Accepts => ~distrusted]_pipelineVars
  BY <1>1, LatchInvariant, PTL
<1> QED
  BY <1>2 DEF HeldCycleAcceptsNothing

-----------------------------------------------------------------------------
(* RobotPipeline: latest only. *)

\* What a consumer holds came from its ring, and is later than what it has
\* passed on to the ring t.
PassesOn(w, t) ==
  /\ pushed[t] <= popped[Source[w]]
  /\ item[w] # Nothing => pushed[t] < popped[Source[w]]

FlowInv ==
  /\ now \in Nat /\ captured \in Nat
  /\ DOMAIN ring = Rings /\ DOMAIN pushed = Rings /\ DOMAIN popped = Rings
  /\ DOMAIN item = Consumers
  /\ \A r \in Rings : RingOK(ring[r], Capacity[r], pushed[r], popped[r])
  /\ \A w \in Consumers : item[w] # Nothing =>
       item[w] \in Packets /\ item[w].packet = popped[Source[w]]
  /\ pushed["sensor"] <= captured
  /\ PassesOn("state", "state") /\ PassesOn("inference", "window")

\* A worker that goes on to use an item has one.
HasItem ==
  /\ at["state"] = "prepare" => item["state"] # Nothing
  /\ at["inference"] \in {"age", "predict"} => item["inference"] # Nothing

PipelineInv == LatchInv /\ FlowInv /\ HasItem

LEMMA RingSets ==
  /\ Consumers = {"state", "inference", "control"}
  /\ Source["state"] = "sensor" /\ Source["inference"] = "state" /\ Source["control"] = "window"
  /\ \A w \in Consumers : w \in Workers /\ Source[w] \in Rings
  /\ \A r \in Rings : Capacity[r] \in Nat \ {0, 1}
BY PipelineAssumption DEF Consumers, Source, Workers, Rings

\* Steps that leave the rings and what was drained alone.
LEMMA FlowStays ==
  ASSUME FlowInv, UNCHANGED <<ring, item, pushed, popped, captured>>, now' \in Nat
  PROVE  FlowInv'
BY DEF FlowInv, PassesOn

\* A consumer has used or dropped what it had drained.
LEMMA FlowUsed ==
  ASSUME FlowInv, NEW w \in Consumers, Take(w, Nothing),
         UNCHANGED <<ring, pushed, popped, captured, now>>
  PROVE  FlowInv'
<1>1. /\ DOMAIN item' = Consumers /\ item'[w] = Nothing
      /\ \A v \in Consumers : v # w => item'[v] = item[v]
  BY DEF FlowInv, Take
<1>2. PassesOn("state", "state")' /\ PassesOn("inference", "window")'
  BY <1>1, RingSets DEF FlowInv, PassesOn
<1> QED
  BY <1>1, <1>2 DEF FlowInv

\* The rings after a push of a later packet; a closed ring stays as it is.
LEMMA PushRings ==
  ASSUME FlowInv, NEW r \in Rings, NEW x \in Packets, pushed[r] < x.packet,
         PushInto(r, x), popped' = popped
  PROVE  /\ DOMAIN ring' = Rings /\ DOMAIN pushed' = Rings
         /\ pushed'[r] \in {pushed[r], x.packet}
         /\ \A s \in Rings : s # r => pushed'[s] = pushed[s]
         /\ \A s \in Rings : RingOK(ring'[s], Capacity[s], pushed'[s], popped'[s])
<1>1. /\ DOMAIN ring' = Rings /\ ring'[r] = Push(ring[r], x)
      /\ \A s \in Rings : s # r => ring'[s] = ring[s]
  BY DEF PushInto, FlowInv
<1>2. \A s \in Rings : RingOK(ring[s], Capacity[s], pushed[s], popped[s])
  BY DEF FlowInv
<1>3. CASE ring[r].closed
  <2>1. pushed' = pushed /\ ring'[r] = ring[r]
    BY <1>1, <1>3 DEF PushInto, Push
  <2> QED
    BY <1>1, <1>2, <2>1 DEF FlowInv
<1>4. CASE ~ring[r].closed
  <2>1. /\ DOMAIN pushed' = Rings /\ pushed'[r] = x.packet
        /\ \A s \in Rings : s # r => pushed'[s] = pushed[s]
    BY <1>4 DEF PushInto, FlowInv
  <2>2. RingOK(Push(ring[r], x), Capacity[r], x.packet, popped[r])
    BY <1>2, <1>4, PushedOK, RingSets
  <2> QED
    BY <1>1, <1>2, <2>1, <2>2
<1> QED
  BY <1>3, <1>4

LEMMA CaptureFlow ==
  ASSUME FlowInv, Capture
  PROVE  FlowInv'
<1> DEFINE x == [packet |-> captured + 1, capture_ns |-> now, expires_ns |-> 0]
<1>1. /\ x \in Packets /\ x.packet = captured + 1 /\ captured' = captured + 1
      /\ PushInto("sensor", x) /\ UNCHANGED <<item, now, popped>>
  BY DEF Capture, FlowInv, Packets
<1> HIDE DEF x
<1>2. /\ captured \in Nat /\ pushed["sensor"] <= captured /\ "sensor" \in Rings
      /\ pushed["sensor"] \in Nat
  BY DEF FlowInv, RingOK, Rings
<1>3. pushed["sensor"] < x.packet
  BY <1>1, <1>2
<1>4. /\ DOMAIN ring' = Rings /\ DOMAIN pushed' = Rings
      /\ pushed'["sensor"] \in {pushed["sensor"], x.packet}
      /\ \A s \in Rings : s # "sensor" => pushed'[s] = pushed[s]
      /\ \A s \in Rings : RingOK(ring'[s], Capacity[s], pushed'[s], popped'[s])
  BY <1>1, <1>2, <1>3, PushRings
<1>5. pushed'["sensor"] <= captured'
  BY <1>1, <1>2, <1>4
<1>6. PassesOn("state", "state")' /\ PassesOn("inference", "window")'
  BY <1>1, <1>4 DEF FlowInv, PassesOn, Rings
<1> QED
  BY <1>1, <1>2, <1>4, <1>5, <1>6 DEF FlowInv

\* A worker passes on an item made of the one it had drained.
LEMMA PassingFlow ==
  ASSUME FlowInv, NEW w \in Consumers, NEW t \in Rings,
         \/ w = "state" /\ t = "state"
         \/ w = "inference" /\ t = "window",
         item[w] # Nothing, NEW x \in Packets, x.packet = item[w].packet,
         PushInto(t, x), Take(w, Nothing), UNCHANGED <<popped, captured, now>>
  PROVE  FlowInv'
<1>1. /\ DOMAIN item' = Consumers /\ item'[w] = Nothing
      /\ \A v \in Consumers : v # w => item'[v] = item[v]
  BY DEF FlowInv, Take
<1>2. x.packet = popped[Source[w]] /\ PassesOn(w, t)
  BY DEF FlowInv
<1>3. pushed[t] < x.packet
  BY <1>2 DEF PassesOn
<1>4. /\ DOMAIN ring' = Rings /\ DOMAIN pushed' = Rings
      /\ pushed'[t] \in {pushed[t], x.packet}
      /\ \A s \in Rings : s # t => pushed'[s] = pushed[s]
      /\ \A s \in Rings : RingOK(ring'[s], Capacity[s], pushed'[s], popped'[s])
  BY <1>3, PushRings
<1>5. pushed'[t] <= popped'[Source[w]]
  <2>1. popped[Source[w]] \in Nat
    BY RingSets DEF FlowInv, RingOK
  <2>2. pushed[t] <= popped[Source[w]]
    BY <1>2 DEF PassesOn
  <2> QED
    BY <1>2, <1>4, <2>1, <2>2
<1>6. PassesOn(w, t)'
  BY <1>1, <1>5 DEF PassesOn
<1>7. PassesOn("state", "state")' /\ PassesOn("inference", "window")'
  BY <1>1, <1>4, <1>6, RingSets DEF FlowInv, PassesOn, Rings
<1>8. pushed'["sensor"] <= captured'
  BY <1>4 DEF FlowInv, Rings
<1> QED
  BY <1>1, <1>4, <1>7, <1>8 DEF FlowInv

\* An iteration of drain_latest gives the consumer something later than all it
\* had before.
LEMMA DrainFlow ==
  ASSUME FlowInv, NEW w \in Consumers, DrainOne(w)
  PROVE  FlowInv' /\ popped'[Source[w]] > popped[Source[w]]
         /\ \A r \in Rings : r # Source[w] => popped'[r] = popped[r]
<1> DEFINE r == Source[w]
           x == NextItem(ring[r])
<1>1. /\ r \in Rings /\ Unread(ring[r])
      /\ RingOK(ring[r], Capacity[r], pushed[r], popped[r])
      /\ Capacity[r] \in Nat \ {0, 1}
  BY RingSets DEF DrainOne, FlowInv
<1>2. /\ x \in Packets /\ popped[r] < x.packet
      /\ RingOK(Popped(ring[r]), Capacity[r], pushed[r], x.packet)
  BY <1>1, PoppedOK
<1>3. /\ item' = [item EXCEPT ![w] = x]
      /\ ring' = [ring EXCEPT ![r] = Popped(@)]
      /\ popped' = [popped EXCEPT ![r] = x.packet]
      /\ UNCHANGED <<now, captured, pushed>>
  BY DEF DrainOne, Take
<1>4. x.packet \in Nat /\ popped[r] \in Nat
  BY <1>1, <1>2 DEF RingOK, Packets
<1> HIDE DEF x
<1>5. /\ DOMAIN item' = Consumers /\ item'[w] = x
      /\ \A v \in Consumers : v # w => item'[v] = item[v]
      /\ DOMAIN ring' = Rings /\ ring'[r] = Popped(ring[r])
      /\ \A s \in Rings : s # r => ring'[s] = ring[s]
      /\ DOMAIN popped' = Rings /\ popped'[r] = x.packet
      /\ \A s \in Rings : s # r => popped'[s] = popped[s]
  BY <1>1, <1>3 DEF FlowInv
<1>6. \A s \in Rings : RingOK(ring'[s], Capacity[s], pushed'[s], popped'[s])
  BY <1>1, <1>2, <1>3, <1>5 DEF FlowInv
<1>7. \A v \in Consumers : v # w => Source[v] # r
  BY RingSets
<1>8. \A v \in Consumers : item'[v] # Nothing =>
        item'[v] \in Packets /\ item'[v].packet = popped'[Source[v]]
  BY <1>2, <1>5, <1>7, RingSets DEF FlowInv
<1>9. ASSUME NEW v \in Consumers, NEW t \in Rings, PassesOn(v, t) PROVE PassesOn(v, t)'
  <2>1. CASE v = w
    <3>1. pushed[t] \in Nat /\ pushed[t] <= popped[r]
      BY <1>9, <2>1 DEF PassesOn, FlowInv, RingOK
    <3> QED
      BY <1>2, <1>3, <1>4, <1>5, <2>1, <3>1 DEF PassesOn
  <2>2. CASE v # w
    BY <1>3, <1>5, <1>7, <1>9, <2>2, RingSets DEF PassesOn
  <2> QED
    BY <2>1, <2>2
<1>10. PassesOn("state", "state")' /\ PassesOn("inference", "window")'
  BY <1>9, RingSets DEF FlowInv, Rings
<1>11. FlowInv'
  BY <1>3, <1>5, <1>6, <1>8, <1>10 DEF FlowInv
<1> QED
  BY <1>2, <1>4, <1>5, <1>11

LEMMA CloseFlow ==
  ASSUME FlowInv, NEW r \in Rings, CloseRing(r)
  PROVE  FlowInv'
<1> DEFINE q == [ring[r] EXCEPT !.closed = TRUE]
<1>1. /\ ring' = [ring EXCEPT ![r] = q]
      /\ UNCHANGED <<item, now, captured, pushed, popped>>
  BY DEF CloseRing
<1>2. RingOK(ring[r], Capacity[r], pushed[r], popped[r])
  BY DEF FlowInv
<1>3. RingOK(q, Capacity[r], pushed[r], popped[r])
  <2> DEFINE S == Slots(Capacity[r])
             c == Capacity[r]
  <2>1. ring[r] \in RingRecords(S, c)
    BY <1>2 DEF RingOK
  <2> HIDE DEF S, c
  <2>2. /\ q \in RingRecords(S, c)
        /\ q.slots = ring[r].slots /\ q.head = ring[r].head /\ q.tail = ring[r].tail
    BY <2>1 DEF RingRecords
  <2> HIDE DEF q
  <2> QED
    BY <1>2, <2>2 DEF RingOK, S, c
<1> HIDE DEF q
<1>4. /\ DOMAIN ring' = Rings
      /\ \A s \in Rings : RingOK(ring'[s], Capacity[s], pushed'[s], popped'[s])
  BY <1>1, <1>3 DEF FlowInv
<1> QED
  BY <1>1, <1>4 DEF FlowInv, PassesOn

\* A worker moves; the others keep what they hold.
LEMMA MoveKeepsItems ==
  ASSUME LatchInv, HasItem, NEW w \in Workers, NEW next, Goto(w, next),
         \A v \in Consumers : v # w => item'[v] = item[v],
         next \in {"prepare", "age", "predict"} => w \in Consumers /\ item'[w] # Nothing
  PROVE  HasItem'
<1>1. at'[w] = next /\ \A v \in Workers : v # w => at'[v] = at[v]
  BY DEF LatchInv, Goto
<1>2. at'["state"] = "prepare" => item'["state"] # Nothing
  <2>1. CASE w = "state"
    BY <1>1, <2>1
  <2>2. CASE w # "state"
    BY <1>1, <2>2, RingSets DEF HasItem
  <2> QED
    BY <2>1, <2>2
<1>3. at'["inference"] \in {"age", "predict"} => item'["inference"] # Nothing
  <2>1. CASE w = "inference"
    BY <1>1, <2>1
  <2>2. CASE w # "inference"
    BY <1>1, <2>2, RingSets DEF HasItem
  <2> QED
    BY <2>1, <2>2
<1> QED
  BY <1>2, <1>3 DEF HasItem

LEMMA NextKeepsItems ==
  ASSUME LatchInv, FlowInv, HasItem, [PipelineNext]_pipelineVars
  PROVE  HasItem'
<1>1. /\ "control" \in Workers /\ "state" \in Workers /\ "inference" \in Workers
      /\ Consumers = {"state", "inference", "control"} /\ Consumers \subseteq Workers
  BY RingSets DEF Workers
<1>2. ASSUME UNCHANGED <<at, item>> PROVE HasItem'
  BY <1>2 DEF HasItem
<1>3. ASSUME NEW w \in Consumers, Take(w, Nothing)
      PROVE  \A v \in Consumers : v # w => item'[v] = item[v]
  BY <1>3 DEF Take, FlowInv
<1>4. ASSUME NEW w \in Workers, EndLoop(w) PROVE HasItem'
  BY <1>4, MoveKeepsItems DEF EndLoop
<1>5. ASSUME NEW w \in Consumers, BeginDrain(w) PROVE HasItem'
  BY <1>1, <1>5, MoveKeepsItems DEF BeginDrain
<1>6. ASSUME NEW w \in Consumers, DrainOne(w) PROVE HasItem'
  <2>1. at' = at /\ at[w] = "drain" /\ \A v \in Consumers : v # w => item'[v] = item[v]
    BY <1>6 DEF DrainOne, Take, FlowInv
  <2> QED
    BY <1>1, <2>1 DEF HasItem
<1>7. ASSUME NEW w \in Consumers, UseDrained(w) PROVE HasItem'
  <2> DEFINE next == IF item[w] = Nothing THEN "check" ELSE IF w = "state" THEN "prepare" ELSE "age"
  <2>1. Goto(w, next) /\ item' = item
    BY <1>7 DEF UseDrained
  <2>2. next \in {"prepare", "age", "predict"} => item'[w] # Nothing
    BY <2>1
  <2> HIDE DEF next
  <2> QED
    BY <1>1, <2>1, <2>2, MoveKeepsItems
<1>8. CASE Capture
  BY <1>2, <1>8 DEF Capture
<1>9. CASE PrepareState
  <2>1. Goto("state", "check") /\ Take("state", Nothing)
    BY <1>9 DEF PrepareState
  <2> QED
    BY <1>1, <1>3, <2>1, MoveKeepsItems
<1>10. CASE StateTooOld \/ PredictionRefused \/ PredictionAccepted
  <2>1. Goto("inference", "check") /\ Take("inference", Nothing)
    BY <1>10 DEF StateTooOld, PredictionRefused, PredictionAccepted, RequestHold
  <2> QED
    BY <1>1, <1>3, <2>1, MoveKeepsItems
<1>11. CASE StateFresh
  <2>1. Goto("inference", "predict") /\ item' = item /\ item["inference"] # Nothing
    BY <1>11 DEF StateFresh, HasItem
  <2> QED
    BY <1>1, <2>1, MoveKeepsItems
<1>12. CASE PredictRaises
  <2>1. Goto("inference", "ended") /\ Take("inference", Nothing)
    BY <1>12 DEF PredictRaises
  <2> QED
    BY <1>1, <1>3, <2>1, MoveKeepsItems
<1>13. CASE Snapshot
  <2>1. Goto("control", "decide") /\ Take("control", Nothing)
    BY <1>13 DEF Snapshot
  <2> QED
    BY <1>1, <1>3, <2>1, MoveKeepsItems
<1>14. CASE AcceptWindow \/ HoldInstead
  <2>1. Goto("control", "check") /\ item' = item
    BY <1>14 DEF AcceptWindow, HoldInstead, EndCycle
  <2> QED
    BY <1>1, <2>1, MoveKeepsItems
<1>15. CASE Stop \/ TimePasses \/ HardStop \/ \E r \in Rings : CloseRing(r)
  BY <1>2, <1>15 DEF Stop, TimePasses, HardStop, CloseRing
<1>16. CASE UNCHANGED pipelineVars
  BY <1>2, <1>16 DEF pipelineVars
<1> QED
  BY <1>4, <1>5, <1>6, <1>7, <1>8, <1>9, <1>10, <1>11, <1>12, <1>13, <1>14, <1>15, <1>16
     DEF PipelineNext

LEMMA NextKeepsFlow ==
  ASSUME LatchInv, FlowInv, HasItem, [PipelineNext]_pipelineVars
  PROVE  FlowInv'
<1>1. /\ "state" \in Consumers /\ "inference" \in Consumers /\ "control" \in Consumers
      /\ now \in Nat
  BY RingSets DEF FlowInv
<1>2. ASSUME UNCHANGED <<ring, item, pushed, popped, captured>>, now' \in Nat PROVE FlowInv'
  BY <1>2, FlowStays
<1>3. CASE \E w \in Workers : EndLoop(w)
  BY <1>1, <1>2, <1>3 DEF EndLoop
<1>4. ASSUME NEW w \in Consumers, BeginDrain(w) \/ UseDrained(w) PROVE FlowInv'
  BY <1>1, <1>2, <1>4 DEF BeginDrain, UseDrained
<1>5. ASSUME NEW w \in Consumers, DrainOne(w) PROVE FlowInv'
  BY <1>5, DrainFlow
<1>6. CASE Capture
  BY <1>6, CaptureFlow
<1>7. CASE PrepareState
  <2>1. /\ PushInto("state", item["state"]) /\ Take("state", Nothing)
        /\ UNCHANGED <<popped, captured, now>> /\ item["state"] # Nothing
    BY <1>7 DEF PrepareState, HasItem
  <2>2. item["state"] \in Packets /\ "state" \in Rings
    BY <1>1, <2>1 DEF FlowInv, Rings
  <2> QED
    BY <1>1, <2>1, <2>2, PassingFlow
<1>8. CASE PredictionAccepted
  <2> DEFINE x == [item["inference"] EXCEPT !.expires_ns = now + ControlWindow]
  <2>1. /\ PushInto("window", x) /\ Take("inference", Nothing)
        /\ UNCHANGED <<popped, captured, now>> /\ item["inference"] # Nothing
    BY <1>8 DEF PredictionAccepted, HasItem
  <2>2. item["inference"] \in Packets /\ "window" \in Rings
    BY <1>1, <2>1 DEF FlowInv, Rings
  <2>3. x \in Packets /\ x.packet = item["inference"].packet
    BY <1>1, <2>2, PipelineAssumption DEF Packets
  <2> HIDE DEF x
  <2> QED
    BY <1>1, <2>1, <2>2, <2>3, PassingFlow
<1>9. CASE StateTooOld \/ PredictionRefused \/ PredictRaises
  BY <1>1, <1>9, FlowUsed DEF StateTooOld, PredictionRefused, RequestHold, PredictRaises
<1>10. CASE Snapshot
  BY <1>1, <1>10, FlowUsed DEF Snapshot
<1>11. CASE StateFresh \/ AcceptWindow \/ HoldInstead \/ Stop \/ HardStop
  BY <1>1, <1>2, <1>11 DEF StateFresh, AcceptWindow, HoldInstead, EndCycle, Stop, HardStop
<1>12. CASE TimePasses
  BY <1>1, <1>2, <1>12 DEF TimePasses
<1>13. ASSUME NEW r \in Rings, CloseRing(r) PROVE FlowInv'
  BY <1>13, CloseFlow
<1>14. CASE UNCHANGED pipelineVars
  BY <1>1, <1>2, <1>14 DEF pipelineVars
<1> QED
  BY <1>3, <1>4, <1>5, <1>6, <1>7, <1>8, <1>9, <1>10, <1>11, <1>12, <1>13, <1>14
     DEF PipelineNext

LEMMA PipelineInvariant == PipelineSpec => []PipelineInv
<1>1. PipelineInit => PipelineInv
  <2> SUFFICES ASSUME PipelineInit PROVE PipelineInv
    OBVIOUS
  <2>1. LatchInv
    BY DEF PipelineInit, LatchInv, Places, Workers
  <2>2. \A r \in Rings : RingOK(ring[r], Capacity[r], pushed[r], popped[r])
    BY EmptyRingOK, RingSets DEF PipelineInit
  <2>3. PassesOn("state", "state") /\ PassesOn("inference", "window")
    BY RingSets DEF PipelineInit, PassesOn, Rings
  <2>4. FlowInv
    BY <2>2, <2>3, RingSets DEF PipelineInit, FlowInv, Rings
  <2>5. HasItem
    BY DEF PipelineInit, HasItem, Workers
  <2> QED
    BY <2>1, <2>4, <2>5 DEF PipelineInv
<1>2. PipelineInv /\ [PipelineNext]_pipelineVars => PipelineInv'
  BY NextKeepsLatch, NextKeepsFlow, NextKeepsItems DEF PipelineInv
<1> QED
  BY <1>1, <1>2, PTL DEF PipelineSpec

\* What drain_latest returns is the newest packet: the ring is empty, so what was
\* popped last is what was pushed last.
LEMMA DrainedIsNewest ==
  ASSUME FlowInv, NEW w \in Consumers, Drained(w), item[w] # Nothing
  PROVE  item[w].packet = pushed[Source[w]]
<1> DEFINE r == Source[w]
           g == ring[r]
<1>1. r \in Rings /\ RingOK(g, Capacity[r], pushed[r], popped[r])
  BY RingSets DEF FlowInv
<1>2. g.head \in Nat /\ g.tail \in Nat /\ g.tail <= g.head
  BY <1>1 DEF RingOK, RingRecords
<1>3. g.tail = g.head
  BY <1>2 DEF Drained, Unread
<1>4. popped[r] = pushed[r]
  <2> DEFINE c == Capacity[r]
             last == pushed[r]
             got == popped[r]
             h == g.head
             t == g.tail
             f == g.slots
  <2>1. Ordered(f, c, t, h, last, got) /\ t = h
    BY <1>1, <1>3 DEF RingOK
  <2> HIDE DEF c, last, got, h, t, f
  <2>2. got = last
    BY <2>1 DEF Ordered
  <2> QED
    BY <2>2 DEF got, last
<1> QED
  BY <1>4 DEF FlowInv

\* Through all three rings, with items dropped and drained at any moment, no
\* worker gets an item that is older than one it had before, and what it drains is
\* the newest that was pushed, for any capacities from two on.
THEOREM LatestCorrect == PipelineSpec => LatestOnly
<1> DEFINE Latest(w) ==
             LET r == Source[w]
             IN /\ popped'[r] # popped[r] => popped'[r] > popped[r]
                /\ at[w] = "drain" /\ at'[w] # "drain" /\ item[w] # Nothing =>
                     item[w].packet = pushed[r]
<1>1. PipelineInv /\ [PipelineNext]_pipelineVars => [\A w \in Consumers : Latest(w)]_pipelineVars
  <2> SUFFICES ASSUME PipelineInv, PipelineNext, NEW w \in Consumers PROVE Latest(w)
    OBVIOUS
  <2>1. popped'[Source[w]] # popped[Source[w]] => popped'[Source[w]] > popped[Source[w]]
    <3>1. ASSUME NEW v \in Consumers, DrainOne(v)
          PROVE  popped'[Source[w]] # popped[Source[w]] => popped'[Source[w]] > popped[Source[w]]
      <4>1. Source[w] \in Rings
        BY RingSets
      <4> QED
        BY <3>1, <4>1, DrainFlow DEF PipelineInv
    <3>2. popped' = popped \/ \E v \in Consumers : DrainOne(v)
      BY DEF PipelineNext, EndLoop, BeginDrain, UseDrained, Capture, PrepareState, StateTooOld,
         StateFresh, PredictionRefused, PredictionAccepted, PredictRaises, RequestHold,
         Snapshot, AcceptWindow, HoldInstead, EndCycle, Stop, CloseRing, HardStop, TimePasses
    <3> QED
      BY <3>1, <3>2
  <2>2. ASSUME at[w] = "drain", at'[w] # "drain"
        PROVE  Drained(w)
    <3>1. w \in Workers /\ at \in [Workers -> Places]
      BY RingSets DEF PipelineInv, LatchInv
    <3>2. ASSUME NEW v \in Workers, NEW next, Goto(v, next), v # w PROVE FALSE
      BY <2>2, <3>1, <3>2 DEF Goto
    <3>3. at' # at
      BY <2>2
    <3>4. ASSUME NEW v \in Workers, EndLoop(v) PROVE FALSE
      BY <2>2, <3>2, <3>4 DEF EndLoop
    <3>5. ASSUME NEW v \in Consumers, BeginDrain(v) \/ DrainOne(v) PROVE FALSE
      BY <2>2, <3>2, <3>3, <3>5, RingSets DEF BeginDrain, DrainOne
    <3>6. ASSUME NEW v \in Consumers, UseDrained(v) PROVE Drained(w)
      BY <3>2, <3>6, RingSets DEF UseDrained
    <3>7. CASE Snapshot
      BY <3>2, <3>7, RingSets DEF Snapshot
    <3>8. CASE PrepareState
      BY <2>2, <3>2, <3>8, RingSets DEF PrepareState
    <3>9. CASE StateTooOld \/ StateFresh \/ PredictionRefused \/ PredictionAccepted \/ PredictRaises
      BY <2>2, <3>2, <3>9, RingSets DEF StateTooOld, StateFresh, PredictionRefused,
         PredictionAccepted, PredictRaises, RequestHold
    <3>10. CASE AcceptWindow \/ HoldInstead
      BY <2>2, <3>2, <3>10, RingSets DEF AcceptWindow, HoldInstead, EndCycle
    <3>11. CASE Capture \/ Stop \/ HardStop \/ TimePasses \/ \E r \in Rings : CloseRing(r)
      BY <3>3, <3>11 DEF Capture, Stop, HardStop, TimePasses, CloseRing
    <3> QED
      BY <3>4, <3>5, <3>6, <3>7, <3>8, <3>9, <3>10, <3>11 DEF PipelineNext
  <2>3. at[w] = "drain" /\ at'[w] # "drain" /\ item[w] # Nothing =>
          item[w].packet = pushed[Source[w]]
    BY <2>2, DrainedIsNewest DEF PipelineInv
  <2> QED
    BY <2>1, <2>3
<1>2. PipelineSpec => [][\A w \in Consumers : Latest(w)]_pipelineVars
  BY <1>1, PipelineInvariant, PTL DEF PipelineSpec
<1> QED
  BY <1>2 DEF LatestOnly

-----------------------------------------------------------------------------
(* RobotPipeline: the rings implement queues. *)

\* The packets in the slots f of a ring of capacity c from index t up to h.
Line(f, c, t, h) == [i \in 1 .. h - t |-> f[(t + i - 1) % c].packet]

\* What is known of those slots, and of the sequence read from them.
Stretch(f, c, t, h, last, got) ==
    /\ c \in Nat \ {0} /\ f \in Slots(c) /\ t \in Nat /\ h \in Nat /\ t <= h /\ h - t <= c
    /\ last \in Nat /\ got \in Nat /\ Ordered(f, c, t, h, last, got)

Reads(s, f, c, t, h) ==
    /\ s \in Seq(Nat) /\ Len(s) = h - t
    /\ \A i \in 1 .. h - t : s[i] = f[(t + i - 1) % c].packet

\* The slots after the one at index t is emptied, the one at index h filled.
Emptied(f, c, t) == [f EXCEPT ![t % c] = Nothing]

Filled(f, c, h, x) == [f EXCEPT ![h % c] = x]

LEMMA FunctionIsSequence ==
  ASSUME NEW n \in Nat, NEW s \in [1 .. n -> Nat]
  PROVE  s \in Seq(Nat) /\ Len(s) = n
OBVIOUS

LEMMA SameSequence ==
  ASSUME NEW n \in Nat, NEW s \in Seq(Nat), NEW u \in Seq(Nat), Len(s) = n, Len(u) = n,
         \A i \in 1 .. n : s[i] = u[i]
  PROVE  s = u
OBVIOUS

LEMMA TailOfSequence ==
  ASSUME NEW s \in Seq(Nat), NEW n \in Nat, Len(s) = n + 1
  PROVE  /\ Tail(s) \in Seq(Nat) /\ Len(Tail(s)) = n
         /\ \A i \in 1 .. n : Tail(s)[i] = s[i + 1]
OBVIOUS

LEMMA AppendToSequence ==
  ASSUME NEW s \in Seq(Nat), NEW n \in Nat, Len(s) = n, NEW y \in Nat
  PROVE  /\ Append(s, y) \in Seq(Nat) /\ Len(Append(s, y)) = n + 1
         /\ \A i \in 1 .. n + 1 : Append(s, y)[i] = IF i <= n THEN s[i] ELSE y
<1>1. /\ Append(s, y) \in Seq(Nat) /\ Len(Append(s, y)) = n + 1
      /\ \A i \in 1 .. n : Append(s, y)[i] = s[i]
      /\ Append(s, y)[n + 1] = y
  OBVIOUS
<1>2. \A i \in 1 .. n + 1 : (i <= n => i \in 1 .. n) /\ (~(i <= n) => i = n + 1)
  OBVIOUS
<1> QED
  BY <1>1, <1>2

LEMMA LineType ==
  ASSUME NEW c, NEW f, NEW t, NEW h, NEW last, NEW got, Stretch(f, c, t, h, last, got)
  PROVE  Reads(Line(f, c, t, h), f, c, t, h)
<1> USE DEF Stretch
<1> DEFINE s == Line(f, c, t, h)
<1>1. h - t \in Nat /\ DOMAIN s = 1 .. h - t
  BY DEF Line
<1>2. \A i \in 1 .. h - t : s[i] = f[(t + i - 1) % c].packet
  BY DEF Line
<1>3. ASSUME NEW i \in 1 .. h - t PROVE s[i] \in Nat
  <2>1. t + i - 1 \in t .. h - 1
    OBVIOUS
  <2>2. f[(t + i - 1) % c] \in Packets
    BY <2>1 DEF Ordered
  <2> QED
    BY <1>2, <2>2 DEF Packets
<1>4. s = [i \in 1 .. h - t |-> s[i]]
  BY DEF Line
<1> HIDE DEF s
<1>5. s \in [1 .. h - t -> Nat]
  BY <1>3, <1>4
<1>6. s \in Seq(Nat) /\ Len(s) = h - t
  BY <1>1, <1>5, FunctionIsSequence
<1> QED
  BY <1>2, <1>6 DEF s, Reads

\* The oldest is taken: by a pop, or by a push that makes room.
LEMMA LineTail ==
  ASSUME NEW c, NEW f, NEW t, NEW h, NEW last, NEW got, Stretch(f, c, t, h, last, got), t < h
  PROVE  /\ Line(Emptied(f, c, t), c, t + 1, h) = Tail(Line(f, c, t, h))
         /\ Line(f, c, t, h) # <<>> /\ Head(Line(f, c, t, h)) = f[t % c].packet
<1> DEFINE g == Emptied(f, c, t)
           s == Line(f, c, t, h)
           u == Line(g, c, t + 1, h)
<1> USE DEF Stretch
<1>1. Stretch(g, c, t + 1, h, last, f[t % c].packet) /\ f[t % c].packet \in Nat
  <2> DEFINE k == [f EXCEPT ![t % c] = Nothing]
  <2>1. k \in Slots(c) /\ Ordered(k, c, t + 1, h, last, f[t % c].packet)
    BY TailMoves, Zenon
  <2>2. g = k
    BY DEF Emptied
  <2>3. f[t % c].packet \in Nat
    BY DEF Ordered, Packets
  <2>4. t + 1 \in Nat /\ t + 1 <= h /\ h - (t + 1) <= c
    OBVIOUS
  <2> HIDE DEF k, g
  <2> QED
    BY <2>1, <2>2, <2>3, <2>4
<1>2. Reads(s, f, c, t, h)
  BY LineType
<1>3. \A n \in t + 1 .. h - 1 : g[n % c] = f[n % c]
  <2> SUFFICES ASSUME NEW n \in t + 1 .. h - 1 PROVE g[n % c] = f[n % c]
    OBVIOUS
  <2>1. n \in Nat /\ t < n /\ n - t < c
    OBVIOUS
  <2>2. t % c # n % c
    BY <2>1, SlotsDiffer
  <2>3. n % c \in 0 .. c - 1
    BY <2>1, DivisionFacts
  <2> QED
    BY <2>2, <2>3 DEF Slots, Emptied
<1> HIDE DEF g
<1>5. Reads(u, g, c, t + 1, h)
  BY <1>1, LineType
<1> HIDE DEF s, u
<1>6. \A i \in 1 .. h - (t + 1) : u[i] = s[i + 1]
  <2> SUFFICES ASSUME NEW i \in 1 .. h - (t + 1) PROVE u[i] = s[i + 1]
    OBVIOUS
  <2>1. /\ t + i \in t + 1 .. h - 1 /\ i + 1 \in 1 .. h - t
        /\ (t + 1) + i - 1 = t + i /\ t + (i + 1) - 1 = t + i
    OBVIOUS
  <2>2. u[i] = g[(t + i) % c].packet
    BY <1>5, <2>1 DEF Reads
  <2>3. s[i + 1] = f[(t + i) % c].packet
    BY <1>2, <2>1 DEF Reads
  <2> QED
    BY <1>3, <2>1, <2>2, <2>3
<1>7. u = Tail(s)
  <2> DEFINE n == h - (t + 1)
  <2>1. n \in Nat /\ Len(s) = n + 1 /\ Len(u) = n
    BY <1>2, <1>5 DEF Reads
  <2>2. \A i \in 1 .. n : u[i] = s[i + 1]
    BY <1>6
  <2> HIDE DEF n
  <2>3. /\ Tail(s) \in Seq(Nat) /\ Len(Tail(s)) = n
        /\ \A i \in 1 .. n : Tail(s)[i] = s[i + 1]
    BY <1>2, <2>1, TailOfSequence DEF Reads
  <2>4. \A i \in 1 .. n : u[i] = Tail(s)[i]
    BY <2>2, <2>3
  <2> QED
    BY <1>5, <2>1, <2>3, <2>4, SameSequence DEF Reads
<1>8. s # <<>> /\ Head(s) = s[1] /\ 1 \in 1 .. h - t /\ t + 1 - 1 = t
  BY <1>2 DEF Reads
<1>9. Head(s) = f[t % c].packet
  BY <1>2, <1>8 DEF Reads
<1> QED
  BY <1>7, <1>8, <1>9 DEF g, s, u

\* One more is pushed into a ring that has room.
LEMMA LineAppend ==
  ASSUME NEW c, NEW f, NEW t, NEW h, NEW last, NEW got, Stretch(f, c, t, h, last, got),
         h - t < c, NEW x \in Packets
  PROVE  Line(Filled(f, c, h, x), c, t, h + 1) = Append(Line(f, c, t, h), x.packet)
<1> DEFINE g == Filled(f, c, h, x)
           s == Line(f, c, t, h)
           u == Line(g, c, t, h + 1)
<1> USE DEF Stretch
<1>1. h % c \in 0 .. c - 1
  BY DivisionFacts
<1>2. g[h % c] = x
  BY <1>1 DEF Slots, Filled
<1>3. \A n \in t .. h - 1 : g[n % c] = f[n % c]
  <2> SUFFICES ASSUME NEW n \in t .. h - 1 PROVE g[n % c] = f[n % c]
    OBVIOUS
  <2>1. n \in Nat /\ n < h /\ h - n < c
    OBVIOUS
  <2>2. n % c # h % c
    BY <2>1, SlotsDiffer
  <2>3. n % c \in 0 .. c - 1
    BY <2>1, DivisionFacts
  <2> QED
    BY <2>2, <2>3 DEF Slots, Filled
<1>4. /\ s \in Seq(Nat) /\ Len(s) = h - t
      /\ \A i \in 1 .. h - t : s[i] = f[(t + i - 1) % c].packet
  <2>1. Reads(s, f, c, t, h)
    BY LineType
  <2> QED
    BY <2>1 DEF Reads
<1> HIDE DEF g, s
<1>5. \A i \in 1 .. (h + 1) - t :
        g[(t + i - 1) % c].packet = IF i <= h - t THEN s[i] ELSE x.packet
  <2> SUFFICES ASSUME NEW i \in 1 .. (h + 1) - t
               PROVE  g[(t + i - 1) % c].packet = IF i <= h - t THEN s[i] ELSE x.packet
    OBVIOUS
  <2>1. CASE i <= h - t
    <3>1. i \in 1 .. h - t /\ t + i - 1 \in t .. h - 1
      BY <2>1
    <3> QED
      BY <1>3, <1>4, <2>1, <3>1
  <2>2. CASE ~(i <= h - t)
    <3>1. t + i - 1 = h
      BY <2>2
    <3> QED
      BY <1>2, <2>2, <3>1
  <2> QED
    BY <2>1, <2>2
<1>6. x.packet \in Nat
  BY DEF Packets
<1>7. u = Append(s, x.packet)
  <2> DEFINE n == h - t
             v == Append(s, x.packet)
  <2>1. n \in Nat /\ Len(s) = n /\ (h + 1) - t = n + 1
    BY <1>4
  <2>2. u = [i \in 1 .. n + 1 |-> IF i <= n THEN s[i] ELSE x.packet]
    BY <1>5, <2>1 DEF Line
  <2> HIDE DEF n
  <2>3. /\ v \in Seq(Nat) /\ Len(v) = n + 1
        /\ \A i \in 1 .. n + 1 : v[i] = IF i <= n THEN s[i] ELSE x.packet
    BY <1>4, <1>6, <2>1, AppendToSequence
  <2> HIDE DEF v, u
  <2>4. v = [i \in 1 .. n + 1 |-> v[i]]
    BY <2>1, <2>3
  <2>5. u = v
    BY <2>2, <2>3, <2>4
  <2> QED
    BY <2>5 DEF v
<1> QED
  BY <1>7 DEF g, s, u

\* A ring of the pipeline as a queue.
LEMMA RingIsQueue ==
  ASSUME NEW c \in Nat \ {0, 1}, NEW g, NEW last, NEW got, RingOK(g, c, last, got)
  PROVE  /\ Queued(g) = Line(g.slots, c, g.tail, g.head)
         /\ Queued(g) \in Seq(Nat) /\ Len(Queued(g)) = g.head - g.tail
<1>1. /\ g.slots \in Slots(c) /\ g.capacity = c /\ g.head \in Nat /\ g.tail \in Nat
      /\ g.tail <= g.head /\ Ordered(g.slots, c, g.tail, g.head, last, got)
  BY DEF RingOK, RingRecords
<1>2. Queued(g) = Line(g.slots, c, g.tail, g.head)
  BY <1>1 DEF Queued, Line
<1>3. g.head - g.tail <= c /\ last \in Nat /\ got \in Nat
  BY DEF RingOK, RingRecords
<1>4. Stretch(g.slots, c, g.tail, g.head, last, got)
  BY <1>1, <1>3 DEF Stretch
<1> QED
  BY <1>2, <1>4, LineType DEF Reads

LEMMA PoppedQueue ==
  ASSUME NEW c \in Nat \ {0, 1}, NEW g, NEW last, NEW got, RingOK(g, c, last, got), Unread(g)
  PROVE  /\ Queued(g) # <<>> /\ Head(Queued(g)) = NextItem(g).packet
         /\ Queued(Popped(g)) = Tail(Queued(g)) /\ Popped(g).closed = g.closed
<1> DEFINE f == g.slots
           t == g.tail
           h == g.head
           k == Emptied(f, c, t)
           q == Popped(g)
<1>1. /\ f \in Slots(c) /\ g.capacity = c /\ h \in Nat /\ t \in Nat /\ last \in Nat /\ got \in Nat
      /\ t < h /\ h - t <= c /\ Ordered(f, c, t, h, last, got)
  BY DEF RingOK, RingRecords, Unread
<1>3. NextItem(g) = f[t % c]
  BY <1>1 DEF NextItem
<1>4. q = TailTo(g, k, t + 1)
  BY <1>1 DEF Emptied, TailTo, Popped, RingOK, RingRecords
<1>2. /\ Line(k, c, t + 1, h) = Tail(Line(f, c, t, h))
      /\ Line(f, c, t, h) # <<>> /\ Head(Line(f, c, t, h)) = f[t % c].packet
  <2>1. Stretch(f, c, t, h, last, got) /\ t < h
    BY <1>1 DEF Stretch
  <2> HIDE DEF f, t, h
  <2> QED
    BY <2>1, LineTail
<1> HIDE DEF k, q
<1>5. q.slots = k /\ q.tail = t + 1 /\ q.head = h /\ q.capacity = c /\ q.closed = g.closed
  BY <1>1, <1>4 DEF TailTo, RingOK, RingRecords
<1>6. Queued(q) = Line(k, c, t + 1, h)
  BY <1>5 DEF Queued, Line
<1>7. Queued(g) = Line(f, c, t, h)
  BY RingIsQueue
<1> QED
  BY <1>2, <1>3, <1>5, <1>6, <1>7 DEF q

\* Only a full ring loses an item to make room, and that is the oldest.
LEMMA QueueWithRoom ==
  ASSUME NEW c \in Nat \ {0, 1}, NEW g, NEW last, NEW got, RingOK(g, c, last, got)
  PROVE  Queued(WithRoom(g)) = IF Len(Queued(g)) < c THEN Queued(g) ELSE Tail(Queued(g))
<1>1. /\ g.capacity = c /\ g.head \in Nat /\ g.tail \in Nat /\ g.head - g.tail <= c
      /\ Len(Queued(g)) = g.head - g.tail
  BY RingIsQueue DEF RingOK, RingRecords
<1>2. CASE ~Full(g)
  BY <1>1, <1>2 DEF Full, WithRoom
<1>3. CASE Full(g)
  <2>1. WithRoom(g) = Popped(g) /\ Unread(g) /\ ~(Len(Queued(g)) < c)
    BY <1>1, <1>3 DEF Full, WithRoom, Popped, Unread
  <2> QED
    BY <2>1, PoppedQueue
<1> QED
  BY <1>2, <1>3

LEMMA PushedQueue ==
  ASSUME NEW c \in Nat \ {0, 1}, NEW g, NEW last, NEW got, RingOK(g, c, last, got),
         ~g.closed, NEW x \in Packets
  PROVE  /\ Queued(Push(g, x)) =
              Append(IF Len(Queued(g)) < c THEN Queued(g) ELSE Tail(Queued(g)), x.packet)
         /\ Push(g, x).closed = g.closed
<1> DEFINE r == WithRoom(g)
           f == r.slots
           t == r.tail
           h == r.head
           k == Filled(f, c, h, x)
           q == Push(g, x)
<1>1. RingOK(r, c, last, got) /\ h - t < c /\ r.closed = g.closed
  BY WithRoomOK
<1>2. q = [r EXCEPT !.slots[h % r.capacity] = x, !.head = @ + 1]
  BY DEF Push
<1>3. Queued(r) = IF Len(Queued(g)) < c THEN Queued(g) ELSE Tail(Queued(g))
  BY QueueWithRoom
<1> HIDE DEF r
<1>4. /\ f \in Slots(c) /\ r.capacity = c /\ h \in Nat /\ t \in Nat /\ last \in Nat /\ got \in Nat
      /\ t <= h /\ Ordered(f, c, t, h, last, got)
  BY <1>1 DEF RingOK, RingRecords
<1>5. Line(k, c, t, h + 1) = Append(Line(f, c, t, h), x.packet)
  <2>1. Stretch(f, c, t, h, last, got) /\ h - t < c
    BY <1>1, <1>4 DEF Stretch
  <2> HIDE DEF f, t, h
  <2> QED
    BY <2>1, LineAppend
<1>6. q = HeadTo(r, k, h + 1)
  BY <1>1, <1>2, <1>4 DEF Filled, HeadTo, RingOK, RingRecords
<1> HIDE DEF k, q
<1>7. q.slots = k /\ q.tail = t /\ q.head = h + 1 /\ q.capacity = c /\ q.closed = r.closed
  BY <1>1, <1>4, <1>6 DEF HeadTo, RingOK, RingRecords
<1>8. Queued(q) = Line(k, c, t, h + 1)
  BY <1>7 DEF Queued, Line
<1>9. Queued(r) = Line(f, c, t, h)
  BY <1>1, RingIsQueue
<1> QED
  BY <1>1, <1>3, <1>5, <1>7, <1>8, <1>9 DEF q

\* A step that changes one ring changes one queue.
LEMMA QueuesExcept ==
  ASSUME FlowInv, NEW r \in Rings, NEW g, ring' = [ring EXCEPT ![r] = g]
  PROVE  /\ QueuedPackets' = [QueuedPackets EXCEPT ![r] = Queued(g)]
         /\ ClosedRings' = [ClosedRings EXCEPT ![r] = g.closed]
         /\ QueuedPackets[r] = Queued(ring[r]) /\ ClosedRings[r] = ring[r].closed
<1>1. ring'[r] = g /\ \A s \in Rings : s # r => ring'[s] = ring[s]
  BY DEF FlowInv
<1>2. QueuedPackets' = [s \in Rings |-> Queued(ring'[s])]
  BY DEF QueuedPackets, Queued
<1>3. ClosedRings' = [s \in Rings |-> ring'[s].closed]
  BY DEF ClosedRings
<1>4. /\ QueuedPackets = [s \in Rings |-> Queued(ring[s])]
      /\ ClosedRings = [s \in Rings |-> ring[s].closed]
  BY DEF QueuedPackets, ClosedRings
<1>5. QueuedPackets' = [QueuedPackets EXCEPT ![r] = Queued(g)]
  <2> DEFINE Q(s) == Queued(ring[s])
             P(s) == Queued(ring'[s])
  <2>1. P(r) = Queued(g) /\ \A s \in Rings : s # r => P(s) = Q(s)
    BY <1>1
  <2>2. QueuedPackets' = [s \in Rings |-> P(s)] /\ QueuedPackets = [s \in Rings |-> Q(s)]
    BY <1>2, <1>4
  <2> HIDE DEF P, Q
  <2> QED
    BY <2>1, <2>2
<1>6. ClosedRings' = [ClosedRings EXCEPT ![r] = g.closed]
  <2> DEFINE Q(s) == ring[s].closed
             P(s) == ring'[s].closed
  <2>1. P(r) = g.closed /\ \A s \in Rings : s # r => P(s) = Q(s)
    BY <1>1
  <2>2. ClosedRings' = [s \in Rings |-> P(s)] /\ ClosedRings = [s \in Rings |-> Q(s)]
    BY <1>3, <1>4
  <2> HIDE DEF P, Q
  <2> QED
    BY <2>1, <2>2
<1>7. QueuedPackets[r] = Queued(ring[r]) /\ ClosedRings[r] = ring[r].closed
  BY <1>4
<1> QED
  BY <1>5, <1>6, <1>7

LEMMA PushMaps ==
  ASSUME FlowInv, NEW r \in Rings, NEW x \in Packets, pushed[r] < x.packet, PushInto(r, x),
         UNCHANGED popped
  PROVE  [Lossy!QueueNext]_(Lossy!queueVars)
<1>1. /\ RingOK(ring[r], Capacity[r], pushed[r], popped[r]) /\ Capacity[r] \in Nat \ {0, 1}
      /\ DOMAIN ring = Rings /\ DOMAIN pushed = Rings
  BY RingSets DEF FlowInv
<1>2. ring' = [ring EXCEPT ![r] = Push(ring[r], x)]
  BY DEF PushInto
<1>3. CASE ring[r].closed
  <2>1. Push(ring[r], x) = ring[r] /\ pushed' = pushed
    BY <1>1, <1>3 DEF PushInto, Push
  <2>2. /\ QueuedPackets' = [QueuedPackets EXCEPT ![r] = QueuedPackets[r]]
        /\ ClosedRings' = [ClosedRings EXCEPT ![r] = ClosedRings[r]]
    <3>1. ring' = [ring EXCEPT ![r] = ring[r]]
      BY <1>2, <2>1
    <3>2. /\ QueuedPackets' = [QueuedPackets EXCEPT ![r] = Queued(ring[r])]
          /\ ClosedRings' = [ClosedRings EXCEPT ![r] = ring[r].closed]
          /\ QueuedPackets[r] = Queued(ring[r]) /\ ClosedRings[r] = ring[r].closed
      BY <3>1, QueuesExcept
    <3> QED
      BY <3>2
  <2>3. QueuedPackets' = QueuedPackets /\ ClosedRings' = ClosedRings
    BY <2>2 DEF QueuedPackets, ClosedRings
  <2> QED
    BY <2>1, <2>3 DEF Lossy!queueVars
<1>4. CASE ~ring[r].closed
  <2>1. pushed' = [pushed EXCEPT ![r] = x.packet] /\ pushed'[r] = x.packet
    BY <1>1, <1>4 DEF PushInto
  <2>2. /\ Queued(Push(ring[r], x)) =
             Append(IF Len(Queued(ring[r])) < Capacity[r] THEN Queued(ring[r])
                                                          ELSE Tail(Queued(ring[r])), x.packet)
        /\ Push(ring[r], x).closed = ring[r].closed
    BY <1>1, <1>4, PushedQueue
  <2>3. /\ QueuedPackets' = [QueuedPackets EXCEPT ![r] = Queued(Push(ring[r], x))]
        /\ ClosedRings' = [ClosedRings EXCEPT ![r] = Push(ring[r], x).closed]
        /\ QueuedPackets[r] = Queued(ring[r]) /\ ClosedRings[r] = ring[r].closed
    BY <1>2, QueuesExcept
  <2>4. ClosedRings' = ClosedRings
    BY <2>2, <2>3 DEF ClosedRings
  <2>5. QueuedPackets' = [QueuedPackets EXCEPT ![r] =
          Append(IF Len(QueuedPackets[r]) < Capacity[r] THEN QueuedPackets[r]
                                                        ELSE Tail(QueuedPackets[r]), pushed'[r])]
    BY <2>1, <2>2, <2>3
  <2>6. pushed'[r] > pushed[r]
    BY <1>1, <2>1 DEF RingOK, Packets
  <2>7. Lossy!Offer(r, pushed'[r])
    BY <1>4, <2>1, <2>3, <2>4, <2>5, <2>6 DEF Lossy!Offer
  <2> QED
    BY <2>7 DEF Lossy!QueueNext
<1> QED
  BY <1>3, <1>4

LEMMA DrainMaps ==
  ASSUME FlowInv, NEW w \in Consumers, DrainOne(w)
  PROVE  Lossy!TakeOldest(Source[w])
<1> DEFINE r == Source[w]
<1>1. /\ r \in Rings /\ RingOK(ring[r], Capacity[r], pushed[r], popped[r])
      /\ Capacity[r] \in Nat \ {0, 1} /\ Unread(ring[r])
  BY RingSets DEF FlowInv, DrainOne
<1>2. /\ ring' = [ring EXCEPT ![r] = Popped(ring[r])]
      /\ popped' = [popped EXCEPT ![r] = NextItem(ring[r]).packet] /\ UNCHANGED pushed
  BY DEF DrainOne
<1> HIDE DEF r
<1>3. /\ Queued(ring[r]) # <<>> /\ Head(Queued(ring[r])) = NextItem(ring[r]).packet
      /\ Queued(Popped(ring[r])) = Tail(Queued(ring[r]))
      /\ Popped(ring[r]).closed = ring[r].closed
  BY <1>1, PoppedQueue
<1>4. /\ QueuedPackets' = [QueuedPackets EXCEPT ![r] = Queued(Popped(ring[r]))]
      /\ ClosedRings' = [ClosedRings EXCEPT ![r] = Popped(ring[r]).closed]
      /\ QueuedPackets[r] = Queued(ring[r]) /\ ClosedRings[r] = ring[r].closed
  BY <1>1, <1>2, QueuesExcept
<1>5. ClosedRings' = ClosedRings
  BY <1>3, <1>4 DEF ClosedRings
<1> QED
  BY <1>2, <1>3, <1>4, <1>5 DEF Lossy!TakeOldest, r

LEMMA CloseMaps ==
  ASSUME FlowInv, NEW r \in Rings, CloseRing(r)
  PROVE  Lossy!Close(r)
<1> DEFINE g == [ring[r] EXCEPT !.closed = TRUE]
<1>1. ring' = [ring EXCEPT ![r] = g] /\ ~ring[r].closed /\ UNCHANGED <<pushed, popped>>
  BY DEF CloseRing
<1>2. ring[r] \in RingRecords(Slots(Capacity[r]), Capacity[r])
  BY DEF FlowInv, RingOK
<1>3. /\ g.closed = TRUE /\ g.slots = ring[r].slots /\ g.head = ring[r].head
      /\ g.tail = ring[r].tail /\ g.capacity = ring[r].capacity
  BY <1>2 DEF RingRecords
<1> HIDE DEF g
<1>4. Queued(g) = Queued(ring[r])
  BY <1>3 DEF Queued
<1>5. /\ QueuedPackets' = [QueuedPackets EXCEPT ![r] = Queued(g)]
      /\ ClosedRings' = [ClosedRings EXCEPT ![r] = g.closed]
      /\ QueuedPackets[r] = Queued(ring[r]) /\ ClosedRings[r] = ring[r].closed
  BY <1>1, QueuesExcept
<1>6. QueuedPackets' = QueuedPackets
  BY <1>4, <1>5 DEF QueuedPackets
<1> QED
  BY <1>1, <1>3, <1>5, <1>6 DEF Lossy!Close

LEMMA PipelineNextMaps ==
  ASSUME PipelineInv, [PipelineNext]_pipelineVars
  PROVE  [Lossy!QueueNext]_(Lossy!queueVars)
<1>1. FlowInv /\ HasItem
  BY DEF PipelineInv
<1>2. ASSUME UNCHANGED <<ring, pushed, popped>>
      PROVE  [Lossy!QueueNext]_(Lossy!queueVars)
  BY <1>2 DEF Lossy!queueVars, QueuedPackets, Queued, ClosedRings
<1>3. ASSUME NEW w \in Consumers, DrainOne(w)
      PROVE  [Lossy!QueueNext]_(Lossy!queueVars)
  BY <1>1, <1>3, DrainMaps, RingSets DEF Lossy!QueueNext
<1>4. ASSUME NEW r \in Rings, CloseRing(r)
      PROVE  [Lossy!QueueNext]_(Lossy!queueVars)
  BY <1>1, <1>4, CloseMaps DEF Lossy!QueueNext
<1>5. CASE Capture
  <2> DEFINE x == [packet |-> captured + 1, capture_ns |-> now, expires_ns |-> 0]
  <2>1. x \in Packets /\ "sensor" \in Rings /\ PushInto("sensor", x) /\ UNCHANGED popped
    BY <1>1, <1>5 DEF Capture, FlowInv, Packets, Rings
  <2>2. pushed["sensor"] < x.packet
    BY <1>1, <2>1 DEF FlowInv, RingOK
  <2> HIDE DEF x
  <2> QED
    BY <1>1, <2>1, <2>2, PushMaps
<1>6. CASE PrepareState
  <2>1. item["state"] \in Packets /\ "state" \in Rings
    BY <1>1, <1>6, RingSets DEF PrepareState, HasItem, FlowInv, Rings
  <2>2. pushed["state"] < item["state"].packet
    BY <1>1, <1>6, RingSets DEF PrepareState, HasItem, FlowInv, PassesOn
  <2> QED
    BY <1>1, <1>6, <2>1, <2>2, PushMaps DEF PrepareState
<1>7. CASE PredictionAccepted
  <2> DEFINE x == [item["inference"] EXCEPT !.expires_ns = now + ControlWindow]
  <2>1. /\ item["inference"] \in Packets /\ "window" \in Rings /\ now \in Nat
        /\ PushInto("window", x) /\ UNCHANGED popped
    BY <1>1, <1>7, RingSets DEF PredictionAccepted, HasItem, FlowInv, Rings
  <2>2. x \in Packets
    BY <2>1, PipelineAssumption DEF PipelineAssumption, Packets
  <2>3. pushed["window"] < item["inference"].packet
    BY <1>1, <1>7, RingSets DEF PredictionAccepted, HasItem, FlowInv, PassesOn
  <2>4. x.packet = item["inference"].packet
    BY <2>1 DEF Packets
  <2> HIDE DEF x
  <2> QED
    BY <1>1, <2>1, <2>2, <2>3, <2>4, PushMaps
<1>8. CASE StateTooOld \/ StateFresh \/ PredictionRefused \/ PredictRaises \/ Snapshot
           \/ AcceptWindow \/ HoldInstead \/ Stop \/ HardStop \/ TimePasses
           \/ (\E w \in Workers : EndLoop(w))
           \/ (\E w \in Consumers : BeginDrain(w) \/ UseDrained(w))
  BY <1>2, <1>8 DEF StateTooOld, StateFresh, PredictionRefused, PredictRaises, RequestHold,
     Snapshot, AcceptWindow, HoldInstead, EndCycle, Stop, HardStop, TimePasses, EndLoop,
     BeginDrain, UseDrained
<1>9. CASE UNCHANGED pipelineVars
  BY <1>2, <1>9 DEF pipelineVars
<1> QED
  BY <1>3, <1>4, <1>5, <1>6, <1>7, <1>8, <1>9 DEF PipelineNext

LEMMA PipelineInitMaps == PipelineInit => Lossy!QueueInit
<1> SUFFICES ASSUME PipelineInit PROVE Lossy!QueueInit
  OBVIOUS
<1>1. \A r \in Rings : ring[r] = EmptyRing(Capacity[r])
  BY DEF PipelineInit
<1>2. \A c : Queued(EmptyRing(c)) = <<>> /\ EmptyRing(c).closed = FALSE
  BY DEF Queued, EmptyRing
<1>3. QueuedPackets = [r \in Rings |-> <<>>] /\ ClosedRings = [r \in Rings |-> FALSE]
  BY <1>1, <1>2 DEF QueuedPackets, ClosedRings
<1> QED
  BY <1>3 DEF PipelineInit, Lossy!QueueInit

\* The rings implement bounded queues that displace the oldest item, and only
\* when they are full, for any capacities from two on: slots addressed modulo the
\* capacity, and a read index that the producer moves too, lose, repeat or
\* reorder nothing else.
THEOREM QueuesImplemented == PipelineSpec => ImplementsLossyQueues
BY PipelineInitMaps, PipelineNextMaps, PipelineInvariant, PTL
   DEF PipelineSpec, ImplementsLossyQueues, Lossy!QueueSpec

-----------------------------------------------------------------------------
(* ShadowRca: what blocks a release is not hidden by a mean. *)

\* The sum of a mean is such a sum.
LEMMA MeanIsSum ==
  ASSUME NEW list, NEW field, NEW those, IsFiniteSet(those),
         \A i \in those : list[i][field] \in Int
  PROVE  \E sum : /\ Sums(sum, [i \in those |-> list[i][field]], those)
                  /\ MeanOf(list, those, field) = <<sum[those], Cardinality(those)>>
<1> DEFINE F == [i \in those |-> list[i][field]]
           Step(f, T) == IF T = {} THEN 0
                         ELSE LET x == CHOOSE x \in T : TRUE
                              IN  list[x][field] + f[T \ {x}]
           iter == CHOOSE f : f = [T \in SUBSET those |-> Step(f, T)]
<1>1. F \in [those -> Int]
  OBVIOUS
<1>2. PICK sum : Sums(sum, F, those)
  BY <1>1, SumExists
<1>3. sum = [T \in SUBSET those |-> Step(sum, T)]
  <2>1. sum \in [SUBSET those -> Int]
    BY <1>2 DEF Sums
  <2>2. ASSUME NEW T \in SUBSET those PROVE sum[T] = Step(sum, T)
    BY <1>2 DEF Sums
  <2> QED
    BY <2>1, <2>2
<1>4. iter = [T \in SUBSET those |-> Step(iter, T)]
  BY <1>3
<1> HIDE DEF iter
<1> DEFINE G == {T \in SUBSET those : iter[T] = sum[T]}
<1>5. G = SUBSET those
  <2>1. {} \in G
    BY <1>3, <1>4
  <2>2. ASSUME NEW T \in SUBSET those, T # {}, \A x \in T : T \ {x} \in G PROVE T \in G
    <3>1. (CHOOSE x \in T : TRUE) \in T
      BY <2>2
    <3> QED
      BY <1>3, <1>4, <2>2, <3>1
  <2>3. G \in SUBSET (SUBSET those)
    OBVIOUS
  <2> HIDE DEF G
  <2> QED
    BY <2>1, <2>2, <2>3, OneByOne
<1>6. MapThenSumSet(LAMBDA i : list[i][field], those) = iter[those]
  BY DEF MapThenSumSet, MapThenFoldSet, iter
<1> QED
  BY <1>2, <1>5, <1>6 DEF MeanOf

\* The distances from a mean sum up to zero.
LEMMA DistancesFromMean ==
  ASSUME NEW S, IsFiniteSet(S), NEW F \in [S -> Int], NEW sum, Sums(sum, F, S)
  PROVE  LET n == Cardinality(S)
             distance == [i \in S |-> F[i] * n - sum[S]]
         IN  \E rest : Sums(rest, distance, S) /\ rest[S] = 0
<1> DEFINE n == Cardinality(S)
           distance == [i \in S |-> F[i] * n - sum[S]]
           total == [T \in SUBSET S |-> sum[T] * n - Cardinality(T) * sum[S]]
<1>1. n \in Nat /\ \A T \in SUBSET S : Cardinality(T) \in Nat
  BY FS_Subset, FS_CardinalityType
<1>2. sum \in [SUBSET S -> Int] /\ sum[{}] = 0 /\ sum[S] \in Int
  BY DEF Sums
<1>3. total \in [SUBSET S -> Int]
  BY <1>1, <1>2
<1>4. total[{}] = 0
  BY <1>1, <1>2, FS_EmptySet
<1>5. ASSUME NEW T \in SUBSET S, T # {}
      PROVE  total[T] = distance[CHOOSE x \in T : TRUE] + total[T \ {CHOOSE x \in T : TRUE}]
  <2> DEFINE x == CHOOSE x \in T : TRUE
  <2>1. /\ x \in T /\ T \ {x} \in SUBSET S
        /\ Cardinality(T \ {x}) \in Nat /\ Cardinality(T) = Cardinality(T \ {x}) + 1
    <3>1. x \in T
      BY <1>5
    <3> HIDE DEF x
    <3> QED
      BY <1>1, <3>1, OneLess
  <2>2. sum[T] = F[x] + sum[T \ {x}] /\ F[x] \in Int /\ sum[T \ {x}] \in Int
    BY <1>5, <2>1 DEF Sums
  <2> HIDE DEF x, n
  <2>3. sum[T] * n = F[x] * n + sum[T \ {x}] * n
    BY <1>1, <2>2, Distributes
  <2>4. Cardinality(T) * sum[S] = Cardinality(T \ {x}) * sum[S] + sum[S]
    <3>1. (Cardinality(T \ {x}) + 1) * sum[S] = Cardinality(T \ {x}) * sum[S] + 1 * sum[S]
      BY <1>2, <2>1, Distributes
    <3> QED
      BY <1>2, <2>1, <3>1
  <2>5. /\ F[x] * n \in Int /\ sum[T \ {x}] * n \in Int
        /\ Cardinality(T \ {x}) * sum[S] \in Int
    BY <1>1, <1>2, <2>1, <2>2
  <2>6. sum[T] * n - Cardinality(T) * sum[S] =
          (F[x] * n - sum[S]) + (sum[T \ {x}] * n - Cardinality(T \ {x}) * sum[S])
    BY <1>2, <2>3, <2>4, <2>5
  <2> QED
    BY <2>1, <2>6 DEF x
<1>6. total[S] = 0
  BY <1>1, <1>2
<1> HIDE DEF total
<1> QED
  BY <1>3, <1>4, <1>5, <1>6 DEF Sums

\* If the residuals are not all the same, some are above their mean and some not.
LEMMA MeanSplits ==
  ASSUME NEW list \in Seq(Windows), NEW i \in DOMAIN list, NEW j \in DOMAIN list,
         list[i].candidate_residual # list[j].candidate_residual
  PROVE  HighError(list) # {} /\ LowError(list) # {}
<1> DEFINE S == DOMAIN list
           F == [k \in S |-> list[k]["candidate_residual"]]
           n == Cardinality(S)
<1>1. Len(list) \in Nat \ {0} /\ IsFiniteSet(S) /\ n = Len(list)
  <2>1. S = 1 .. Len(list) /\ Len(list) \in Nat
    OBVIOUS
  <2>2. /\ IsFiniteSet(1 .. Len(list))
        /\ Cardinality(1 .. Len(list)) = IF 1 > Len(list) THEN 0 ELSE Len(list) - 1 + 1
    BY <2>1, FS_Interval
  <2> QED
    BY <2>1, <2>2
<1>2. \A k \in S : list[k]["candidate_residual"] \in Int
  <2>1. \A k \in S : list[k] \in Windows
    OBVIOUS
  <2> QED
    BY <2>1, ShadowRcaAssumption
<1>3. F \in [S -> Int]
  BY <1>2
<1>4. PICK sum : /\ Sums(sum, F, S)
                 /\ MeanOf(list, S, "candidate_residual") = <<sum[S], n>>
  BY <1>1, <1>2, MeanIsSum, ZenonT(40)
<1>5. sum[S] \in Int
  BY <1>4 DEF Sums
<1> DEFINE distance == [k \in S |-> F[k] * n - sum[S]]
<1>6. PICK rest : Sums(rest, distance, S) /\ rest[S] = 0
  BY <1>1, <1>3, <1>4, DistancesFromMean
<1>7. distance \in [S -> Int]
  BY <1>1, <1>3, <1>5
<1>8. \A k \in S : HasHighError(list, k) <=> distance[k] > 0
  <2> SUFFICES ASSUME NEW k \in S PROVE HasHighError(list, k) <=> distance[k] > 0
    OBVIOUS
  <2>1. HasHighError(list, k) <=> F[k] * n > sum[S] * 1
    BY <1>4 DEF HasHighError, MeanOfAll, Exceeds
  <2>2. F[k] * n \in Int /\ distance[k] = F[k] * n - sum[S]
    BY <1>1, <1>3
  <2>3. F[k] * n > sum[S] * 1 <=> distance[k] > 0
    BY <1>5, <2>2
  <2> QED
    BY <2>1, <2>3, Zenon
<1>9. distance[i] # distance[j]
  <2>1. F[i] \in Int /\ F[j] \in Int /\ F[i] # F[j] /\ n \in Nat \ {0}
    BY <1>1, <1>3
  <2> HIDE DEF n
  <2>2. F[i] * n # F[j] * n /\ F[i] * n \in Int /\ F[j] * n \in Int
    BY <2>1, Cancels
  <2>3. distance[i] = F[i] * n - sum[S] /\ distance[j] = F[j] * n - sum[S]
    OBVIOUS
  <2> HIDE DEF distance, F
  <2> QED
    BY <1>5, <2>2, <2>3
<1> HIDE DEF distance
<1>10. HighError(list) # {}
  <2>1. SUFFICES ASSUME \A k \in S : ~HasHighError(list, k) PROVE FALSE
    BY DEF HighError
  <2>2. \A k \in S : distance[k] <= 0
    BY <1>7, <1>8, <2>1
  <2>3. \A k \in S : distance[k] = 0
    BY <1>1, <1>6, <1>7, <2>2, SignOfSum
  <2> QED
    BY <1>9, <2>3
<1>11. LowError(list) # {}
  <2>1. SUFFICES ASSUME \A k \in S : HasHighError(list, k) PROVE FALSE
    BY DEF LowError
  <2>2. S = {}
    BY <1>1, <1>6, <1>7, <1>8, <2>1, SignOfSum
  <2> QED
    BY <2>2
<1> QED
  BY <1>10, <1>11

\* What must block a release is among the hypotheses, whatever else is.
LEMMA BlockingHypothesis ==
  ASSUME NEW list \in Seq(Windows), Len(list) >= MinRecords,
         \/ Thermal(list) \cup Invalid(list) # {}
         \/ /\ MissedHold(list) # {}
            /\ \E i, j \in DOMAIN list :
                 list[i].candidate_residual # list[j].candidate_residual
         \/ Frequent(Skewed(list), list, 5)
  PROVE  \E h \in Hypotheses(list) : h.blocking
<1>1. \A c : [cause |-> c, blocking |-> TRUE].blocking
  OBVIOUS
<1>2. SUFFICES \E h \in Patterns(list) : h.blocking
  <2>1. Len(list) \in Nat
    OBVIOUS
  <2>2. ~(Len(list) < MinRecords)
    BY <2>1, ShadowRcaAssumption
  <2> QED
    BY <1>2, <2>2 DEF Hypotheses
<1>3. CASE Thermal(list) # {}
  <2>1. If(LatencyRegressed(list) \/ Thermal(list) # {}, "EDGE_RUNTIME",
           Thermal(list) # {}) = {[cause |-> "EDGE_RUNTIME", blocking |-> TRUE]}
    BY <1>3 DEF If
  <2>2. [cause |-> "EDGE_RUNTIME", blocking |-> TRUE] \in Patterns(list)
    BY <2>1 DEF Patterns
  <2> QED
    BY <1>1, <2>2
<1>4. CASE Invalid(list) # {}
  <2>1. If(Invalid(list) # {}, "ENGINE_OR_QUANTIZATION", TRUE)
          = {[cause |-> "ENGINE_OR_QUANTIZATION", blocking |-> TRUE]}
    BY <1>4 DEF If
  <2>2. [cause |-> "ENGINE_OR_QUANTIZATION", blocking |-> TRUE] \in Patterns(list)
    BY <2>1 DEF Patterns
  <2> QED
    BY <1>1, <2>2
<1>5. CASE /\ MissedHold(list) # {}
           /\ \E i, j \in DOMAIN list :
                list[i].candidate_residual # list[j].candidate_residual
  <2>1. Miscalibrated(list)
    BY <1>5, MeanSplits DEF Miscalibrated
  <2>2. If(Miscalibrated(list), "UNCERTAINTY_MISCALIBRATION", MissedHold(list) # {})
          = {[cause |-> "UNCERTAINTY_MISCALIBRATION", blocking |-> TRUE]}
    BY <1>5, <2>1 DEF If
  <2>3. [cause |-> "UNCERTAINTY_MISCALIBRATION", blocking |-> TRUE] \in Patterns(list)
    BY <2>2 DEF Patterns
  <2> QED
    BY <1>1, <2>3
<1>6. CASE Frequent(Skewed(list), list, 5)
  <2>1. IsFiniteSet(Skewed(list)) /\ Len(list) \in Nat
    <3>1. IsFiniteSet(1 .. Len(list)) /\ Skewed(list) \subseteq 1 .. Len(list)
      BY FS_Interval DEF Skewed
    <3> QED
      BY <3>1, FS_Subset
  <2>2. Cardinality(Skewed(list)) # 0
    BY <1>6, <2>1 DEF Frequent
  <2>3. Skewed(list) # {}
    BY <2>2, FS_EmptySet
  <2>4. If(Skewed(list) \cup LowQuality(list) # {}, "SENSOR_OR_CALIBRATION",
           Frequent(Skewed(list), list, 5))
          = {[cause |-> "SENSOR_OR_CALIBRATION", blocking |-> TRUE]}
    BY <1>6, <2>3 DEF If
  <2>5. [cause |-> "SENSOR_OR_CALIBRATION", blocking |-> TRUE] \in Patterns(list)
    BY <2>4 DEF Patterns
  <2> QED
    BY <1>1, <2>5
<1> QED
  BY <1>3, <1>4, <1>5, <1>6

\* A report is of the windows it was made from, and a proposal of its report.
RcaInv ==
  /\ windows \in Seq(Windows)
  /\ rca # NotYet => rca.of \in Seq(Windows) /\ rca.hypotheses = Hypotheses(rca.of)
  /\ proposal # NotYet =>
       /\ proposal.of \in Seq(Windows)
       /\ (\E h \in Hypotheses(proposal.of) : h.blocking) =>
            proposal.ci_cd_action = "create_diagnostic_dr_config_but_keep_release_paused"

LEMMA RcaInvCorrect == RcaSpec => []RcaInv
<1>1. RcaInit => RcaInv
  BY DEF RcaInit, RcaInv
<1>2. RcaInv /\ [RcaNext]_rcaVars => RcaInv'
  <2> SUFFICES ASSUME RcaInv, [RcaNext]_rcaVars PROVE RcaInv'
    OBVIOUS
  <2>1. ASSUME NEW window \in Windows, Observe(window) PROVE RcaInv'
    BY <2>1 DEF RcaInv, Observe
  <2>2. CASE Analyze
    BY <2>2 DEF RcaInv, Analyze
  <2>3. ASSUME NEW config \in Configs, Propose(config) PROVE RcaInv'
    <3>1. rca.of \in Seq(Windows) /\ rca.hypotheses = Hypotheses(rca.of)
      BY <2>3 DEF RcaInv, Propose
    <3>2. /\ proposal'.of = rca.of
          /\ (\E h \in rca.hypotheses : h.blocking) =>
               proposal'.ci_cd_action = "create_diagnostic_dr_config_but_keep_release_paused"
      BY <2>3 DEF Propose
    <3>3. UNCHANGED <<windows, rca>>
      BY <2>3 DEF Propose
    <3> QED
      BY <3>1, <3>2, <3>3 DEF RcaInv
  <2>4. CASE UNCHANGED rcaVars
    BY <2>4 DEF RcaInv, rcaVars
  <2> QED
    BY <2>1, <2>2, <2>3, <2>4 DEF RcaNext
<1> QED
  BY <1>1, <1>2, PTL DEF RcaSpec

\* Among enough records of which some differ in their residuals, a missed hold keeps
\* the release paused, and a thermal guard, an invalid output or frequent skew does
\* so anyway, for any windows, configurations and number of records: the mean that
\* divides high from low errors never leaves one side empty
\* (ShadowDegradationAnalyzer.analyze, RootCauseDrivenDRPolicy.propose).
THEOREM PauseCorrect == RcaSpec => []MissedHoldPausesRelease
<1>1. RcaInv => MissedHoldPausesRelease
  <2> SUFFICES ASSUME RcaInv, proposal # NotYet, Len(proposal.of) >= MinRecords,
                      \/ Thermal(proposal.of) \cup Invalid(proposal.of) # {}
                      \/ /\ MissedHold(proposal.of) # {}
                         /\ \E i, j \in DOMAIN proposal.of :
                              proposal.of[i].candidate_residual # proposal.of[j].candidate_residual
                      \/ Frequent(Skewed(proposal.of), proposal.of, 5)
               PROVE  proposal.ci_cd_action = "create_diagnostic_dr_config_but_keep_release_paused"
    BY DEF MissedHoldPausesRelease
  <2>1. proposal.of \in Seq(Windows)
    BY DEF RcaInv
  <2>2. \E h \in Hypotheses(proposal.of) : h.blocking
    BY <2>1, BlockingHypothesis
  <2> QED
    BY <2>2 DEF RcaInv
<1> QED
  BY <1>1, RcaInvCorrect, PTL
=============================================================================
