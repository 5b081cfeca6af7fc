---------------------- MODULE DistributedUpdateProofs -----------------------
(***************************************************************************)
(* Proofs about DistributedUpdate, for any number of ranks, any telemetry, *)
(* topology, work lists, batch sizes and precision modes.                  *)
(***************************************************************************)
EXTENDS DistributedUpdate, FiniteSums

Alive(r) == status[r] # "failed"

\* The collective that a rank at p enters next, or waits in.
NextCollective(p) ==
  CASE p \in {"restore", "check", "topology"} ->
         IF planner = "topology" THEN "topology" ELSE "telemetry"
    [] p \in {"begin", "micro_batches", "gradients"} -> "gradients"
    [] p \in {"optimizer", "count"} -> "count"
    [] p = "manifest" -> "manifest"
    [] p = "manifest_digest" -> "manifest_digest"
    [] p = "telemetry" -> "telemetry"
    [] p = "plan" -> "plan"
    [] p = "plan_digest" -> "plan_digest"

ControlTypes ==
  /\ place \in [RankIds -> Places]
  /\ status \in [RankIds -> {"computing", "waiting", "failed"}]
  /\ planner \in {"topology", "dynamic"}

\* Between two collectives no rank is ahead of the others.
LockStep ==
  /\ \A r, s \in RankIds :
       Alive(r) /\ Alive(s) => NextCollective(place[r]) = NextCollective(place[s])
  /\ \A r \in RankIds : status[r] = "waiting" => place[r] = NextCollective(place[r])

\* Only the last micro-batch of a rank brings it to the gradient reduction.
SynchronisedLast ==
  \A r \in RankIds : status[r] = "waiting" /\ place[r] = "gradients" =>
    seen[r].batches = plan[r].ranks[r].micro_batches

ControlInv ==
  /\ ControlTypes /\ LockStep /\ SynchronisedLast
  /\ DOMAIN seen = RankIds /\ DOMAIN plan = RankIds

-----------------------------------------------------------------------------
(***************************************************************************)
(* The order of the collectives.                                           *)
(***************************************************************************)

LEMMA RankZero == 0 \in RankIds
BY PlannerAssumption DEF PlannerAssumption, RankIds

\* What a rank's step does to places: the rank raises, or it goes on towards
\* the collective that is its next.
Advances(r) ==
  /\ ControlTypes' /\ UNCHANGED planner
  /\ \A s \in RankIds : s # r => place'[s] = place[s] /\ status'[s] = status[s]
  /\ \/ status'[r] = "failed"
     \/ /\ status[r] = "computing"
        /\ NextCollective(place'[r]) = NextCollective(place[r])
        /\ status'[r] = "waiting" => place'[r] = NextCollective(place[r])

LEMMA EnterAdvances ==
  ASSUME ControlTypes, NEW r \in RankIds, status[r] = "computing", UNCHANGED planner,
         NEW c \in Collectives, Enter(r, c) \/ Raise(r),
         NextCollective(place[r]) = c, c = "topology" => planner = "topology"
  PROVE  Advances(r)
<1>1. CASE Raise(r)
  BY <1>1 DEF Raise, Advances, ControlTypes
<1>2. CASE Enter(r, c)
  <2>1. c \in Places
    BY DEF Places
  <2>2. place' = [place EXCEPT ![r] = c] /\ status' = [status EXCEPT ![r] = "waiting"]
    BY <1>2 DEF Enter
  <2>3. NextCollective(c) = c
    BY DEF NextCollective, Collectives, ControlTypes
  <2> QED
    BY <2>1, <2>2, <2>3 DEF Advances, ControlTypes
<1> QED
  BY <1>1, <1>2

LEMMA GoOnAdvances ==
  ASSUME ControlTypes, NEW r \in RankIds, status[r] = "computing", UNCHANGED planner,
         NEW p \in Places, GoOn(r, p) \/ Raise(r), NextCollective(place[r]) = NextCollective(p)
  PROVE  Advances(r)
BY DEF Raise, GoOn, Advances, ControlTypes

\* A rank's step leaves what other ranks have seen, and their plans, alone.
OnlyOwn(r) ==
  /\ DOMAIN seen' = RankIds /\ DOMAIN plan' = RankIds
  /\ \A s \in RankIds : s # r => seen'[s] = seen[s] /\ plan'[s] = plan[s]
  /\ status'[r] = "waiting" /\ place'[r] = "gradients" =>
       seen'[r].batches = plan'[r].ranks[r].micro_batches

LEMMA AdvanceKeepsControl ==
  ASSUME ControlInv, NEW r \in RankIds, Advances(r), OnlyOwn(r)
  PROVE  ControlInv'
<1>1. ControlTypes' /\ DOMAIN seen' = RankIds /\ DOMAIN plan' = RankIds
  BY DEF Advances, OnlyOwn
<1>2. ASSUME NEW s \in RankIds, Alive(s)'
      PROVE  Alive(s) /\ NextCollective(place[s])' = NextCollective(place[s])
  BY <1>2, ZenonT(40) DEF Advances, Alive, ControlInv, ControlTypes, NextCollective
<1>3. ASSUME NEW s \in RankIds, status'[s] = "waiting"
      PROVE  place'[s] = NextCollective(place[s])'
  BY <1>2, <1>3 DEF Advances, Alive, ControlInv, LockStep
<1>4. LockStep'
  BY <1>2, <1>3 DEF LockStep, ControlInv
<1>5. SynchronisedLast'
  BY DEF SynchronisedLast, ControlInv, OnlyOwn, Advances
<1> QED
  BY <1>1, <1>4, <1>5 DEF ControlInv

LEMMA WaitingOwn ==
  ASSUME ControlInv, NEW r \in RankIds, UNCHANGED <<seen, plan>>,
         status'[r] = "waiting" => place'[r] # "gradients"
  PROVE  OnlyOwn(r)
BY DEF OnlyOwn, ControlInv

LEMMA RankKeepsControl ==
  ASSUME ControlInv, NEW r \in RankIds, RankNext(r)
  PROVE  Advances(r) /\ OnlyOwn(r)
<1> USE DEF Computing
<1>0. ControlTypes /\ place[r] \in Places /\ DOMAIN seen = RankIds /\ DOMAIN plan = RankIds
  BY DEF ControlInv, ControlTypes
<1>1. ASSUME NEW mode \in Modes, NEW scaler \in BOOLEAN, NEW target \in BOOLEAN,
             Restore(r, mode, scaler, target)
      PROVE  Advances(r) /\ OnlyOwn(r)
  <2>1. Computing(r, "restore") /\ (GoOn(r, "topology") \/ Raise(r)) /\ UNCHANGED planner
        /\ UNCHANGED <<seen, plan>>
    BY <1>1 DEF Restore, Group
  <2>2. NextCollective("restore") = NextCollective("topology") /\ "topology" \in Places
    BY DEF NextCollective, Places, Collectives
  <2> HIDE DEF Computing
  <2>4. Advances(r)
    BY <1>0, <2>1, <2>2, GoOnAdvances DEF Computing
  <2>3. status'[r] = "waiting" => place'[r] # "gradients"
    BY <1>0, <2>1 DEF Computing, GoOn, Raise, ControlTypes
  <2> QED
    BY <2>1, <2>4, <2>3, WaitingOwn
<1>2. ASSUME NEW telemetry \in Telemetries, NEW work \in WorkLists,
             EnterTopology(r, telemetry, work)
      PROVE  Advances(r) /\ OnlyOwn(r)
  <2>1. Computing(r, "topology") /\ Enter(r, "topology") /\ planner = "topology"
        /\ UNCHANGED planner /\ UNCHANGED <<seen, plan>>
    BY <1>2 DEF EnterTopology, Training
  <2>2. Advances(r)
    BY <1>0, <2>1, EnterAdvances DEF NextCollective, Collectives
  <2> QED
    BY <1>0, <2>1, <2>2, WaitingOwn DEF Enter, ControlTypes
<1>3. ASSUME NEW telemetry \in Telemetries, EnterWithoutTopology(r, telemetry)
      PROVE  Advances(r) /\ OnlyOwn(r)
  <2>1. Computing(r, "topology") /\ Enter(r, "telemetry") /\ planner = "dynamic"
        /\ UNCHANGED planner /\ UNCHANGED <<seen, plan>>
    BY <1>3 DEF EnterWithoutTopology, Training
  <2>2. Advances(r)
    BY <1>0, <2>1, EnterAdvances DEF NextCollective, Collectives
  <2> QED
    BY <1>0, <2>1, <2>2, WaitingOwn DEF Enter, ControlTypes
<1>4. ASSUME NEW c \in {"manifest", "manifest_digest", "telemetry", "plan_digest"},
             Computing(r, c), Enter(r, c) \/ Raise(r), UNCHANGED planner,
             UNCHANGED <<seen, plan>>
      PROVE  Advances(r) /\ OnlyOwn(r)
  <2>1. Advances(r)
    BY <1>0, <1>4, EnterAdvances DEF NextCollective, Collectives
  <2>2. status'[r] = "waiting" => place'[r] # "gradients"
    BY <1>0, <1>4 DEF Enter, Raise, ControlTypes
  <2> QED
    BY <1>4, <2>1, <2>2, WaitingOwn
<1>5. CASE EnterManifest(r)
  BY <1>4, <1>5 DEF EnterManifest, Training
<1>6. CASE EnterManifestDigest(r)
  BY <1>4, <1>6 DEF EnterManifestDigest, EnterIf, Training, Group
<1>7. CASE EnterTelemetry(r)
  BY <1>4, <1>7 DEF EnterTelemetry, EnterIf, Training, Group
<1>8. CASE EnterPlanDigest(r)
  BY <1>4, <1>8 DEF EnterPlanDigest, EnterIf, Training, Group
<1>9. CASE EnterDynamicPlanDigest(r)
  BY <1>4, <1>9 DEF EnterDynamicPlanDigest, EnterIf, Training, Group
<1>10. ASSUME NEW plannable, NEW planned, NEW valid, EnterPlanAs(r, plannable, planned, valid)
       PROVE  Advances(r) /\ OnlyOwn(r)
  <2>1. Computing(r, "plan") /\ (Enter(r, "plan") \/ Raise(r)) /\ UNCHANGED planner
        /\ UNCHANGED seen
    BY <1>10 DEF EnterPlanAs, EnterIf, Training
  <2>2. DOMAIN plan' = RankIds /\ \A s \in RankIds : s # r => plan'[s] = plan[s]
    BY <1>10, <1>0 DEF EnterPlanAs
  <2>3. Advances(r)
    BY <1>0, <2>1, EnterAdvances DEF NextCollective, Collectives
  <2>4. status'[r] = "waiting" => place'[r] # "gradients"
    BY <1>0, <2>1 DEF Enter, Raise, ControlTypes
  <2> QED
    BY <1>0, <2>1, <2>2, <2>3, <2>4 DEF OnlyOwn
<1>11. CASE EnterPlan(r)
  BY <1>10, <1>11 DEF EnterPlan
<1>12. CASE EnterDynamicPlan(r)
  BY <1>10, <1>12 DEF EnterDynamicPlan
<1>13. CASE BeginUpdate(r)
  <2>1. Computing(r, "begin") /\ (GoOn(r, "micro_batches") \/ Raise(r)) /\ UNCHANGED planner
        /\ UNCHANGED plan /\ seen' = [seen EXCEPT ![r] = Nothing]
    BY <1>13 DEF BeginUpdate, Training
  <2>2. Advances(r)
    BY <1>0, <2>1, GoOnAdvances DEF NextCollective, Places
  <2> QED
    BY <1>0, <2>1, <2>2 DEF OnlyOwn, GoOn, Raise, ControlTypes
<1>14. ASSUME NEW samples \in 0 .. BatchSize[r], MicroBatch(r, samples)
       PROVE  Advances(r) /\ OnlyOwn(r)
  <2> DEFINE batches == seen[r].batches + 1
             after == [batches |-> batches, samples |-> seen[r].samples + samples]
  <2>1. Computing(r, "micro_batches") /\ UNCHANGED planner /\ UNCHANGED plan
    BY <1>14 DEF MicroBatch, Training
  <2>2. CASE seen' = [seen EXCEPT ![r] = after] /\ Synchronises(r, batches)
             /\ Enter(r, "gradients")
    <3>1. Advances(r)
      BY <1>0, <2>1, <2>2, EnterAdvances DEF NextCollective, Collectives
    <3>2. seen'[r].batches = batches
      BY <1>0, <2>2
    <3> HIDE DEF after, batches
    <3> QED
      BY <1>0, <2>1, <2>2, <3>1, <3>2 DEF OnlyOwn, Synchronises
  <2>3. CASE seen' = [seen EXCEPT ![r] = after] /\ UNCHANGED <<place, status>>
    <3> HIDE DEF after, batches
    <3> QED
      BY <1>0, <2>1, <2>3 DEF OnlyOwn, Advances, ControlTypes
  <2>4. CASE Raise(r) /\ UNCHANGED seen
    BY <1>0, <2>1, <2>4 DEF OnlyOwn, Advances, ControlTypes, Raise
  <2>5. \/ seen' = [seen EXCEPT ![r] = after] /\ Synchronises(r, batches) /\ Enter(r, "gradients")
        \/ seen' = [seen EXCEPT ![r] = after] /\ UNCHANGED <<place, status>>
        \/ Raise(r) /\ UNCHANGED seen
    BY <1>14, Zenon DEF MicroBatch
  <2> QED
    BY <2>2, <2>3, <2>4, <2>5
<1>15. CASE StepOptimizer(r)
  <2>1. Computing(r, "optimizer") /\ (Enter(r, "count") \/ Raise(r)) /\ UNCHANGED planner
        /\ UNCHANGED <<seen, plan>>
    BY <1>15 DEF StepOptimizer, Group
  <2>2. Advances(r)
    BY <1>0, <2>1, EnterAdvances DEF NextCollective, Collectives
  <2> QED
    BY <1>0, <2>1, <2>2, WaitingOwn DEF Enter, Raise, ControlTypes
<1>16. CASE FinishUpdate(r)
  <2>1. Computing(r, "check") /\ (GoOn(r, "topology") \/ Raise(r)) /\ UNCHANGED planner
        /\ UNCHANGED <<seen, plan>>
    BY <1>16 DEF FinishUpdate, Group, Training
  <2>2. NextCollective("check") = NextCollective("topology") /\ "topology" \in Places
    BY DEF NextCollective, Places, Collectives
  <2> HIDE DEF Computing
  <2>3. Advances(r)
    BY <1>0, <2>1, <2>2, GoOnAdvances DEF Computing
  <2> QED
    BY <1>0, <2>1, <2>3, WaitingOwn DEF Computing, GoOn, Raise, ControlTypes
<1>17. CASE Lose(r)
  BY <1>0, <1>17, WaitingOwn DEF Lose, Raise, Advances, ControlTypes, Group, Training
<1> QED
  BY <1>1, <1>2, <1>3, <1>5, <1>6, <1>7, <1>8, <1>9, <1>11, <1>12, <1>13, <1>14, <1>15, <1>16,
     <1>17 DEF RankNext

\* When a collective is over, all ranks are at the same next place.
LEMMA ReleaseKeepsControl ==
  ASSUME ControlInv, UNCHANGED planner, NEW p \in Places, Release(Everywhere(p)),
         DOMAIN seen' = RankIds, DOMAIN plan' = RankIds
  PROVE  ControlInv'
<1>1. place' = [r \in RankIds |-> p] /\ status' = [r \in RankIds |-> "computing"]
  BY DEF Release, Everywhere
<1> QED
  BY <1>1 DEF ControlInv, ControlTypes, LockStep, SynchronisedLast

\* All ranks have had their last micro-batch when the gradients are reduced.
LEMMA GradientsReleaseAll ==
  ASSUME ControlInv, ReduceGradients
  PROVE  Release(Everywhere("optimizer"))
<1>1. \A r \in RankIds : seen[r].batches = plan[r].ranks[r].micro_batches
  BY DEF ReduceGradients, AllWaitIn, ControlInv, SynchronisedLast
<1>2. ReduceGradients => Release([r \in RankIds |->
        IF seen[r].batches = plan[r].ranks[r].micro_batches THEN "optimizer"
                                                           ELSE "micro_batches"])
  BY DEF ReduceGradients
<1> QED
  BY <1>1, <1>2 DEF Release, Everywhere

LEMMA StutterKeepsControl ==
  ASSUME ControlInv, UNCHANGED <<planner, place, status, seen, plan>>
  PROVE  ControlInv'
<1>1. ControlTypes' /\ SynchronisedLast'
  BY DEF ControlInv, ControlTypes, SynchronisedLast
<1>2. \A r \in RankIds :
        Alive(r)' = Alive(r) /\ NextCollective(place[r])' = NextCollective(place[r])
  BY DEF Alive, NextCollective
<1>3. LockStep'
  BY <1>2 DEF ControlInv, LockStep
<1> QED
  BY <1>1, <1>3 DEF ControlInv

LEMMA StepKeepsControl ==
  ASSUME ControlInv, [UpdateNext]_updateVars
  PROVE  ControlInv'
<1>0. DOMAIN seen = RankIds /\ DOMAIN plan = RankIds
  BY DEF ControlInv
<1>1. CASE UNCHANGED updateVars
  BY <1>1, StutterKeepsControl DEF updateVars
<1>2. ASSUME NEW r \in RankIds, RankNext(r)
      PROVE  ControlInv'
  BY <1>2, RankKeepsControl, AdvanceKeepsControl
<1>3. CASE Snapshot
  BY <1>3, StutterKeepsControl DEF Snapshot, Group
<1>4. CASE GatherTopology
  BY <1>4, ReleaseKeepsControl DEF GatherTopology, LeaveLastUpdate, Everywhere, Training, Places,
     Collectives
<1>5. CASE GatherTelemetry
  BY <1>5, ReleaseKeepsControl DEF GatherTelemetry, LeaveLastUpdate, Everywhere, Training, Places,
     Collectives
<1>6. ASSUME NEW c, NEW p \in Places, Gather(c, p)
      PROVE  ControlInv'
  BY <1>0, <1>6, ReleaseKeepsControl DEF Gather, Group, Training
<1>7. ASSUME NEW damaged \in SUBSET (RankIds \ {0}),
             BroadcastManifest(damaged) \/ BroadcastPlan(damaged)
      PROVE  ControlInv'
  <2>1. \E p \in Places : Release(Everywhere(p))
    BY <1>7 DEF BroadcastManifest, BroadcastPlan, Places, Collectives
  <2>2. UNCHANGED planner /\ DOMAIN seen' = RankIds
    BY <1>0, <1>7 DEF BroadcastManifest, BroadcastPlan, Training
  <2>3. ASSUME BroadcastManifest(damaged) PROVE DOMAIN plan' = RankIds
    BY <1>0, <2>3 DEF BroadcastManifest
  <2>4. ASSUME BroadcastPlan(damaged) PROVE DOMAIN plan' = RankIds
    <3> DEFINE sent(r) == IF r \in damaged THEN [plan[0] EXCEPT !.version = @ + 1] ELSE plan[0]
    <3>1. plan' = [r \in RankIds |-> sent(r)]
      BY <2>4, Zenon DEF BroadcastPlan
    <3> HIDE DEF sent
    <3> QED
      BY <3>1
  <2>5. DOMAIN plan' = RankIds
    BY <1>7, <2>3, <2>4
  <2> QED
    BY <2>1, <2>2, <2>5, ReleaseKeepsControl
<1>8. CASE ReduceGradients
  <2>1. UNCHANGED <<planner, seen, plan>>
    BY <1>8 DEF ReduceGradients, Training
  <2> QED
    BY <1>0, <1>8, <2>1, GradientsReleaseAll, ReleaseKeepsControl DEF Places
<1>9. ASSUME NEW late \in SUBSET RankIds, Rendezvous(late)
      PROVE  ControlInv'
  <2>1. Release(Everywhere("restore"))
    BY <1>9 DEF Rendezvous, Release, Everywhere
  <2> QED
    BY <1>9, <2>1, ReleaseKeepsControl DEF Rendezvous, Everywhere, Places
<1> QED
  BY <1>1, <1>2, <1>3, <1>4, <1>5, <1>6, <1>7, <1>8, <1>9 DEF UpdateNext, Places, Collectives

LEMMA InitControl == UpdateInit => ControlInv
BY DEF UpdateInit, Everywhere, ControlInv, ControlTypes, LockStep, SynchronisedLast, Places,
   Collectives

\* The ranks go through an update in lock step: types, and where a rank can be
\* while another waits or has failed.
THEOREM ControlCorrect == UpdateSpec => []ControlInv
BY InitControl, StepKeepsControl, PTL DEF UpdateSpec

\* Ranks that wait, wait in the same collective, however many micro-batches the
\* plan gives to each of them and whichever of them raise.
THEOREM CollectivesCorrect == UpdateSpec => []CollectivesMatch
<1>1. ControlInv => CollectivesMatch
  BY DEF ControlInv, LockStep, CollectivesMatch, Alive
<1> QED
  BY <1>1, ControlCorrect, PTL

-----------------------------------------------------------------------------
(***************************************************************************)
(* One plan and the mean of the gradients.                                 *)
(***************************************************************************)

\* The planner of the model fills in these fields; the broadcast may change the
\* version only.
PlanForm(p) ==
  /\ DOMAIN p = {"version", "manifest", "work", "world", "samples", "ranks"}
  /\ \A r \in RankIds : /\ p.ranks[r].size = BatchSize[r]
                         /\ p.ranks[r].scale = <<WorldSize, p.samples>>

\* The rank has compared the epoch of the manifest, and holds that manifest.
EpochChecked(r) ==
  \/ status[r] = "waiting" /\ place[r] = "manifest_digest"
  \/ Alive(r) /\ place[r] \in {"telemetry", "plan", "plan_digest", "begin"}
  \/ Updating(r)

PlanHeld(r) ==
  \/ r = 0 /\ status[r] = "waiting" /\ place[r] = "plan"
  \/ Alive(r) /\ place[r] \in {"plan_digest", "begin"}
  \/ Updating(r)

PlanAccepted(r) ==
  \/ status[r] = "waiting" /\ place[r] = "plan_digest"
  \/ Alive(r) /\ place[r] = "begin"
  \/ Updating(r)

\* What a rank knows, at its place, of what it holds itself.
RankInv(r) ==
  /\ planner = "topology" /\ EpochChecked(r) => manifest[r].epoch = epochs[r]
  /\ planner = "dynamic" /\ Alive(r) /\ place[r] \notin {"restore", "topology", "check"} =>
       local[r].work = {}
  /\ PlanHeld(r) => PlanForm(plan[r]) /\ (planner = "dynamic" => plan[r].work = {})
  /\ PlanAccepted(r) => /\ plan[r].work = local[r].work
                        /\ planner = "topology" => plan[r].manifest = manifest[r]
  /\ Updating(r) => /\ ValidPlanStructure(plan[r])
                    /\ seen[r].batches \in Nat
                    /\ seen[r].samples = seen[r].batches * BatchSize[r]
  /\ Updating(r) /\ place[r] # "micro_batches" =>
       seen[r].batches = plan[r].ranks[r].micro_batches

\* The ranks that compute gradients have compared their plans.
SamePlans == \A r \in RankIds : Updating(r) => SameBytes(plan)

MeanInv ==
  /\ ControlInv
  /\ \A r \in RankIds : RankInv(r)
  /\ SamePlans
  /\ GlobalMean
  /\ DOMAIN local = RankIds /\ DOMAIN manifest = RankIds

LEMMA MadePlanForm ==
  ASSUME NEW number, NEW m, NEW work, NEW counts, NEW items
  PROVE  /\ PlanForm(PlanOf(number, m, work, counts, BatchSize, items))
         /\ PlanOf(number, m, work, counts, BatchSize, items).work = work
<1> DEFINE total == SumOver([r \in RankIds |-> counts[r] * BatchSize[r]])
           rankPlan(r) == RankPlan(counts[r], BatchSize[r], total, items[r])
           p == PlanOf(number, m, work, counts, BatchSize, items)
<1>1. p = [version |-> number, manifest |-> m, work |-> work, world |-> WorldSize,
           samples |-> total, ranks |-> [r \in RankIds |-> rankPlan(r)]]
  BY DEF PlanOf
<1>2. \A r \in RankIds : rankPlan(r).size = BatchSize[r] /\ rankPlan(r).scale = <<WorldSize, total>>
  BY DEF RankPlan
<1> HIDE DEF p, total, rankPlan
<1>3. /\ DOMAIN p = {"version", "manifest", "work", "world", "samples", "ranks"}
      /\ p.work = work /\ p.samples = total /\ p.ranks = [r \in RankIds |-> rankPlan(r)]
  BY <1>1
<1>4. PlanForm(p) /\ p.work = work
  BY <1>2, <1>3 DEF PlanForm
<1> QED
  BY <1>4 DEF p

LEMMA DamagedPlanForm ==
  ASSUME NEW p, NEW v, PlanForm(p)
  PROVE  PlanForm([p EXCEPT !.version = v]) /\ [p EXCEPT !.version = v].work = p.work
<1> DEFINE q == [p EXCEPT !.version = v]
<1>1. DOMAIN q = DOMAIN p /\ q.work = p.work /\ q.ranks = p.ranks /\ q.samples = p.samples
  BY DEF PlanForm
<1> HIDE DEF q
<1>2. PlanForm(q) /\ q.work = p.work
  BY <1>1 DEF PlanForm
<1> QED
  BY <1>2 DEF q

\* What a rank's step leaves of the ranks' data.
RankFrame(r) ==
  /\ DOMAIN local' = RankIds /\ DOMAIN manifest' = RankIds
  /\ \A s \in RankIds : s # r => local'[s] = local[s] /\ manifest'[s] = manifest[s]
  /\ UNCHANGED <<planner, epochs, reduced>>
  /\ UNCHANGED plan \/ (Computing(r, "plan") /\ place'[r] = "plan")
  /\ ~Computing(r, "optimizer")'
  /\ Updating(r)' => Updating(r) \/ SameBytes(plan)

LEMMA RankKeepsFrame ==
  ASSUME ControlInv, DOMAIN local = RankIds, DOMAIN manifest = RankIds,
         NEW r \in RankIds, RankNext(r)
  PROVE  RankFrame(r)
<1>0. DOMAIN place = RankIds /\ DOMAIN status = RankIds
  BY DEF ControlInv, ControlTypes
<1>1. ASSUME UNCHANGED <<planner, epochs, reduced, plan>>,
             UNCHANGED manifest, DOMAIN local' = RankIds,
             \A s \in RankIds : s # r => local'[s] = local[s],
             NEW p, GoOn(r, p) \/ Enter(r, p) \/ Raise(r), p # "optimizer",
             Computing(r, place[r]), place[r] # "optimizer" \/ p = "count",
             p \in {"micro_batches", "gradients", "count"} =>
               SameBytes(plan) \/ place[r] \in {"micro_batches", "optimizer"}
      PROVE  RankFrame(r)
  <2>1. status'[r] = "failed" \/ place'[r] = p
    BY <1>0, <1>1 DEF GoOn, Enter, Raise
  <2>2. ~Computing(r, "optimizer")'
    BY <2>1, <1>1 DEF Computing
  <2>3. Updating(r)' => Updating(r) \/ SameBytes(plan)
    BY <2>1, <1>1 DEF Updating, Computing
  <2> QED
    BY <1>1, <2>2, <2>3 DEF RankFrame
<1>2. ASSUME UNCHANGED Group, UNCHANGED <<planner, epochs>>,
             NEW p, GoOn(r, p) \/ Enter(r, p) \/ Raise(r),
             Computing(r, place[r]),
             \/ p \in {"topology", "manifest_digest", "telemetry", "plan_digest"}
                 /\ place[r] # "optimizer"
             \/ p = "count" /\ place[r] = "optimizer"
      PROVE  RankFrame(r)
  BY <1>1, <1>2 DEF Group
<1>3. ASSUME NEW mode \in Modes, NEW scaler \in BOOLEAN, NEW target \in BOOLEAN,
             Restore(r, mode, scaler, target)
      PROVE  RankFrame(r)
  BY <1>2, <1>3 DEF Restore, Computing
<1>4. ASSUME NEW telemetry \in Telemetries, NEW work \in WorkLists,
             EnterTopology(r, telemetry, work)
      PROVE  RankFrame(r)
  <2> DEFINE own == [telemetry |-> telemetry, work |-> work]
  <2>1. local' = [local EXCEPT ![r] = own]
    BY <1>4 DEF EnterTopology
  <2> HIDE DEF own
  <2>2. DOMAIN local' = RankIds /\ \A s \in RankIds : s # r => local'[s] = local[s]
    BY <2>1
  <2> QED
    BY <1>1, <1>4, <2>2 DEF EnterTopology, Computing, Training
<1>5. ASSUME NEW telemetry \in Telemetries, EnterWithoutTopology(r, telemetry)
      PROVE  RankFrame(r)
  <2> DEFINE own == [telemetry |-> telemetry, work |-> {}]
  <2>1. local' = [local EXCEPT ![r] = own]
    BY <1>5 DEF EnterWithoutTopology
  <2> HIDE DEF own
  <2>2. DOMAIN local' = RankIds /\ \A s \in RankIds : s # r => local'[s] = local[s]
    BY <2>1
  <2> QED
    BY <1>1, <1>5, <2>2 DEF EnterWithoutTopology, Computing, Training
<1>6. CASE EnterManifest(r)
  <2> DEFINE new == [epoch |-> epochs[0], ranks |-> Topology]
  <2>1. manifest' = IF r = 0 THEN [manifest EXCEPT ![0] = new] ELSE manifest
    BY <1>6 DEF EnterManifest
  <2> HIDE DEF new
  <2>2. DOMAIN manifest' = RankIds /\ \A s \in RankIds : s # r => manifest'[s] = manifest[s]
    BY <2>1
  <2>3. place'[r] = "manifest"
    BY <1>0, <1>6 DEF EnterManifest, Enter
  <2> QED
    BY <1>6, <2>2, <2>3 DEF EnterManifest, RankFrame, Training, Updating, Computing
<1>7. CASE EnterManifestDigest(r)
  BY <1>2, <1>7 DEF EnterManifestDigest, EnterIf, Training, Computing
<1>8. CASE EnterTelemetry(r)
  BY <1>2, <1>8 DEF EnterTelemetry, EnterIf, Training, Computing
<1>9. CASE EnterPlanDigest(r)
  BY <1>2, <1>9 DEF EnterPlanDigest, EnterIf, Training, Computing
<1>10. CASE EnterDynamicPlanDigest(r)
  BY <1>2, <1>10 DEF EnterDynamicPlanDigest, EnterIf, Training, Computing
<1>11. ASSUME NEW plannable, NEW planned, NEW valid, EnterPlanAs(r, plannable, planned, valid)
       PROVE  RankFrame(r)
  <2>1. Computing(r, "plan") /\ (Enter(r, "plan") \/ Raise(r))
    BY <1>11 DEF EnterPlanAs, EnterIf
  <2>2. place'[r] = "plan"
    BY <1>0, <2>1 DEF Enter, Raise, Computing
  <2> QED
    BY <1>11, <2>1, <2>2 DEF EnterPlanAs, RankFrame, Training, Updating, Computing
<1>12. CASE EnterPlan(r)
  BY <1>11, <1>12 DEF EnterPlan
<1>13. CASE EnterDynamicPlan(r)
  BY <1>11, <1>13 DEF EnterDynamicPlan
<1>14. CASE BeginUpdate(r)
  <2>1. CASE SameBytes(plan) /\ GoOn(r, "micro_batches")
    BY <1>1, <1>14, <2>1 DEF BeginUpdate, Training, Computing
  <2>2. CASE Raise(r)
    BY <1>1, <1>14, <2>2 DEF BeginUpdate, Training, Computing
  <2> QED
    BY <1>14, <2>1, <2>2 DEF BeginUpdate
<1>15. ASSUME NEW samples \in 0 .. BatchSize[r], MicroBatch(r, samples)
       PROVE  RankFrame(r)
  <2>1. /\ UNCHANGED <<planner, epochs, reduced, plan, manifest, local>>
        /\ Computing(r, "micro_batches")
        /\ Enter(r, "gradients") \/ Raise(r) \/ UNCHANGED <<place, status>>
    BY <1>15 DEF MicroBatch, Training
  <2>2. CASE UNCHANGED <<place, status>>
    BY <2>1, <2>2 DEF RankFrame, Computing, Updating
  <2> QED
    BY <1>1, <2>1, <2>2 DEF Computing
<1>16. CASE StepOptimizer(r)
  BY <1>2, <1>16 DEF StepOptimizer, Computing
<1>17. CASE FinishUpdate(r)
  BY <1>2, <1>17 DEF FinishUpdate, Training, Computing
<1>18. CASE Lose(r)
  <2>1. status'[r] = "failed"
    BY <1>0, <1>18 DEF Lose, Raise
  <2> QED
    BY <1>18, <2>1 DEF Lose, RankFrame, Group, Training, Computing, Updating
<1> QED
  BY <1>3, <1>4, <1>5, <1>6, <1>7, <1>8, <1>9, <1>10, <1>12, <1>13, <1>14, <1>15, <1>16, <1>17,
     <1>18 DEF RankNext

LEMMA IdleRankInv ==
  ASSUME NEW r, status'[r] = "failed" \/ place'[r] \in {"restore", "topology", "check"}
  PROVE  RankInv(r)'
BY DEF RankInv, EpochChecked, PlanHeld, PlanAccepted, Updating, Alive

\* The rank's own step.
LEMMA OwnStepKeepsRankInv ==
  ASSUME MeanInv, NEW r \in RankIds, RankNext(r)
  PROVE  RankInv(r)'
<1>0. /\ DOMAIN place = RankIds /\ DOMAIN status = RankIds /\ DOMAIN local = RankIds
      /\ DOMAIN manifest = RankIds /\ DOMAIN seen = RankIds /\ DOMAIN plan = RankIds
      /\ planner \in {"topology", "dynamic"} /\ RankInv(r)
  BY DEF MeanInv, ControlInv, ControlTypes
<1>1. CASE Raise(r)
  BY <1>0, <1>1, IdleRankInv DEF Raise
<1>2. ASSUME NEW mode \in Modes, NEW scaler \in BOOLEAN, NEW target \in BOOLEAN,
             Restore(r, mode, scaler, target)
      PROVE  RankInv(r)'
  BY <1>0, <1>1, <1>2, IdleRankInv DEF Restore, GoOn
<1>3. ASSUME NEW telemetry \in Telemetries, NEW work \in WorkLists,
             EnterTopology(r, telemetry, work)
      PROVE  RankInv(r)'
  BY <1>0, <1>3, IdleRankInv DEF EnterTopology, Enter
<1>4. ASSUME NEW telemetry \in Telemetries, EnterWithoutTopology(r, telemetry)
      PROVE  RankInv(r)'
  <2> DEFINE own == [telemetry |-> telemetry, work |-> {}]
  <2>1. local' = [local EXCEPT ![r] = own] /\ own.work = {}
    BY <1>4 DEF EnterWithoutTopology
  <2> HIDE DEF own
  <2>2. local'[r].work = {} /\ place'[r] = "telemetry" /\ planner' = "dynamic"
    BY <1>0, <1>4, <2>1 DEF EnterWithoutTopology, Enter, Training
  <2> QED
    BY <2>2 DEF RankInv, EpochChecked, PlanHeld, PlanAccepted, Updating
<1>5. CASE EnterManifest(r)
  <2>1. place'[r] = "manifest" /\ place[r] = "manifest" /\ status[r] = "computing"
        /\ UNCHANGED <<planner, local>>
    BY <1>0, <1>5 DEF EnterManifest, Enter, Training, Computing
  <2> QED
    BY <1>0, <2>1 DEF RankInv, EpochChecked, PlanHeld, PlanAccepted, Updating, Alive
<1>6. ASSUME NEW c \in {"manifest_digest", "telemetry"}, Computing(r, c), Enter(r, c),
             UNCHANGED Group, UNCHANGED Training,
             c = "manifest_digest" => manifest[r].epoch = epochs[r]
      PROVE  RankInv(r)'
  <2>1. place'[r] = c /\ place[r] = c /\ status[r] = "computing"
        /\ UNCHANGED <<planner, local, manifest, epochs>>
    BY <1>0, <1>6 DEF Enter, Training, Group, Computing
  <2> QED
    BY <1>0, <1>6, <2>1 DEF RankInv, EpochChecked, PlanHeld, PlanAccepted, Updating, Alive
<1>7. CASE EnterManifestDigest(r)
  BY <1>1, <1>6, <1>7 DEF EnterManifestDigest, EnterIf, CurrentEpoch
<1>8. CASE EnterTelemetry(r)
  BY <1>1, <1>6, <1>8 DEF EnterTelemetry, EnterIf
<1>9. ASSUME NEW plannable, NEW planned, NEW valid, EnterPlanAs(r, plannable, planned, valid),
             PlanForm(planned), planner = "dynamic" => planned.work = {}
      PROVE  RankInv(r)'
  <2>1. CASE Enter(r, "plan") /\ (r = 0 => plan' = [plan EXCEPT ![r] = planned])
    <3>1. /\ place'[r] = "plan" /\ status'[r] = "waiting" /\ place[r] = "plan"
          /\ status[r] = "computing"
          /\ UNCHANGED <<planner, local, manifest, epochs>>
      BY <1>0, <1>9, <2>1 DEF EnterPlanAs, Enter, Computing, Training
    <3>2. r = 0 => plan'[r] = planned
      BY <1>0, <2>1
    <3>3. PlanHeld(r)' => PlanForm(plan'[r]) /\ (planner' = "dynamic" => plan'[r].work = {})
      BY <1>9, <3>1, <3>2 DEF PlanHeld, Updating
    <3>4. PlanForm(plan'[r]) => PlanForm(plan[r])'
      BY DEF PlanForm
    <3> QED
      BY <1>0, <3>1, <3>3, <3>4 DEF RankInv, EpochChecked, PlanAccepted, Updating, Alive
  <2>2. \/ Enter(r, "plan") /\ (r = 0 => plan' = [plan EXCEPT ![r] = planned])
        \/ Raise(r)
    BY <1>9 DEF EnterPlanAs, EnterIf
  <2> QED
    BY <1>1, <2>1, <2>2
<1>10. CASE EnterPlan(r)
  <2> DEFINE counts == Counts(manifest[r], reported[r], BatchSize)
             assigned == AssignWork(manifest[r], reported[r], counts, local[r].work)
             planned == MakePlan(version + 1, manifest[r], reported[r], BatchSize, local[r].work)
  <2>1. planned = PlanOf(version + 1, manifest[r], local[r].work, counts, BatchSize,
                         [s \in RankIds |-> assigned[s].items])
    BY DEF MakePlan
  <2>2. PlanForm(planned)
    BY <2>1, MadePlanForm
  <2>3. /\ planner = "topology"
        /\ EnterPlanAs(r, Plannable(manifest[r], reported[r], BatchSize, local[r].work),
                       planned, ValidUpdatePlan(planned, manifest[r], local[r].work))
    BY <1>10 DEF EnterPlan
  <2> HIDE DEF planned
  <2> QED
    BY <1>9, <2>2, <2>3
<1>11. CASE EnterDynamicPlan(r)
  <2> DEFINE counts == [s \in RankIds |-> Fitting(reported[r][s].rate, TargetMs, BatchSize[s])]
             planned == MakeDynamicPlan(version + 1, reported[r], BatchSize)
  <2>1. planned = PlanOf(version + 1, None, {}, counts, BatchSize, [s \in RankIds |-> <<>>])
    BY DEF MakeDynamicPlan
  <2>2. PlanForm(planned) /\ planned.work = {}
    BY <2>1, MadePlanForm
  <2>3. EnterPlanAs(r, DynamicPlannable(reported[r], BatchSize), planned,
                    ValidPlanStructure(planned))
    BY <1>11 DEF EnterDynamicPlan
  <2> HIDE DEF planned
  <2> QED
    BY <1>9, <2>2, <2>3
<1>12. ASSUME Computing(r, "plan_digest"), Enter(r, "plan_digest"),
              UNCHANGED Group, UNCHANGED Training,
              plan[r].work = local[r].work,
              planner = "topology" => plan[r].manifest = manifest[r]
       PROVE  RankInv(r)'
  <2>1. place'[r] = "plan_digest" /\ place[r] = "plan_digest" /\ status[r] = "computing"
        /\ UNCHANGED <<planner, local, manifest, epochs, plan>>
    BY <1>0, <1>12 DEF Enter, Training, Group, Computing
  <2>2. PlanForm(plan[r]) => PlanForm(plan[r])'
    BY <2>1 DEF PlanForm
  <2> QED
    BY <1>0, <1>12, <2>1, <2>2 DEF RankInv, EpochChecked, PlanHeld, PlanAccepted, Updating, Alive
<1>13. CASE EnterPlanDigest(r)
  <2>1. Accepts(r) => plan[r].work = local[r].work /\ plan[r].manifest = manifest[r]
    BY DEF Accepts, ValidUpdatePlan
  <2> QED
    BY <1>1, <1>12, <1>13, <2>1 DEF EnterPlanDigest, EnterIf
<1>14. CASE EnterDynamicPlanDigest(r)
  <2>1. planner = "dynamic" /\ Computing(r, "plan_digest")
    BY <1>14 DEF EnterDynamicPlanDigest
  <2>2. plan[r].work = {} /\ local[r].work = {}
    BY <1>0, <2>1 DEF RankInv, PlanHeld, Alive, Computing
  <2> QED
    BY <1>1, <1>12, <1>14, <2>1, <2>2 DEF EnterDynamicPlanDigest, EnterIf
<1>15. CASE BeginUpdate(r)
  <2>1. CASE SameBytes(plan) /\ ValidPlanStructure(plan[r]) /\ GoOn(r, "micro_batches")
    <3>1. /\ place'[r] = "micro_batches" /\ place[r] = "begin" /\ status[r] = "computing"
          /\ UNCHANGED <<planner, local, manifest, epochs, plan>>
      BY <1>0, <1>15, <2>1 DEF BeginUpdate, GoOn, Training, Computing
    <3>2. seen'[r] = Nothing
      BY <1>0, <1>15 DEF BeginUpdate
    <3>3. seen'[r].batches = 0 /\ seen'[r].samples = 0
      BY <3>2 DEF Nothing
    <3>4. 0 = 0 * BatchSize[r]
      BY UpdateAssumption DEF UpdateAssumption
    <3>5. PlanForm(plan[r]) => PlanForm(plan[r])'
      BY <3>1 DEF PlanForm
    <3>6. ValidPlanStructure(plan[r])'
      BY <2>1, <3>1 DEF ValidPlanStructure
    <3> QED
      BY <1>0, <3>1, <3>3, <3>4, <3>5, <3>6
      DEF RankInv, EpochChecked, PlanHeld, PlanAccepted, Updating, Alive
  <2> QED
    BY <1>1, <1>15, <2>1 DEF BeginUpdate
<1>16. ASSUME NEW samples \in 0 .. BatchSize[r], MicroBatch(r, samples)
       PROVE  RankInv(r)'
  <2> DEFINE batches == seen[r].batches + 1
             after == [batches |-> batches, samples |-> seen[r].samples + samples]
  <2>1. /\ Computing(r, "micro_batches")
        /\ UNCHANGED <<planner, local, manifest, epochs, plan>>
    BY <1>16 DEF MicroBatch, Training
  <2>2. Updating(r)
    BY <2>1 DEF Updating, Computing
  <2>3. CASE /\ PlannedSize(r, samples) /\ seen' = [seen EXCEPT ![r] = after]
             /\ \/ Synchronises(r, batches) /\ Enter(r, "gradients")
                \/ UNCHANGED <<place, status>>
    <3>1. samples = BatchSize[r]
      BY <1>0, <2>2, <2>3 DEF PlannedSize, RankInv, PlanHeld, PlanForm
    <3>2. seen[r].batches \in Nat /\ seen[r].samples = seen[r].batches * BatchSize[r]
          /\ BatchSize[r] \in Nat
      BY <1>0, <2>2, UpdateAssumption DEF RankInv, UpdateAssumption
    <3>3. batches \in Nat /\ seen[r].samples + samples = batches * BatchSize[r]
      BY <3>1, <3>2
    <3>4. after.batches = batches /\ after.samples = seen[r].samples + samples
      OBVIOUS
    <3> HIDE DEF after
    <3>5. seen'[r] = after
      BY <1>0, <2>3
    <3> HIDE DEF batches
    <3>6. PlanForm(plan[r]) => PlanForm(plan[r])'
      BY <2>1 DEF PlanForm
    <3>7. ValidPlanStructure(plan[r])'
      BY <1>0, <2>1, <2>2 DEF RankInv, ValidPlanStructure
    <3>8. /\ status'[r] # "failed" /\ place'[r] \in {"micro_batches", "gradients"}
          /\ place'[r] = "gradients" => batches = plan[r].ranks[r].micro_batches
      BY <1>0, <2>1, <2>3 DEF Enter, Synchronises, Computing
    <3> QED
      BY <1>0, <2>1, <2>2, <3>3, <3>4, <3>5, <3>6, <3>7, <3>8
      DEF RankInv, EpochChecked, PlanHeld, PlanAccepted, Updating, Alive
  <2>4. \/ /\ PlannedSize(r, samples) /\ seen' = [seen EXCEPT ![r] = after]
           /\ \/ Synchronises(r, batches) /\ Enter(r, "gradients")
              \/ UNCHANGED <<place, status>>
        \/ Raise(r)
    BY <1>16, Zenon DEF MicroBatch
  <2> QED
    BY <1>1, <2>3, <2>4
<1>17. CASE StepOptimizer(r)
  <2>1. CASE Enter(r, "count")
    <3>1. /\ place'[r] = "count" /\ place[r] = "optimizer" /\ status[r] = "computing"
          /\ UNCHANGED <<planner, local, manifest, epochs, plan, seen>>
      BY <1>0, <1>17, <2>1 DEF StepOptimizer, Enter, Group, Computing
    <3>2. PlanForm(plan[r]) => PlanForm(plan[r])'
      BY <3>1 DEF PlanForm
    <3>3. ValidPlanStructure(plan[r]) => ValidPlanStructure(plan[r])'
      BY <3>1 DEF ValidPlanStructure
    <3> QED
      BY <1>0, <3>1, <3>2, <3>3
      DEF RankInv, EpochChecked, PlanHeld, PlanAccepted, Updating, Alive
  <2> QED
    BY <1>1, <1>17, <2>1 DEF StepOptimizer
<1>18. CASE FinishUpdate(r)
  BY <1>0, <1>1, <1>18, IdleRankInv DEF FinishUpdate, GoOn
<1> QED
  BY <1>1, <1>2, <1>3, <1>4, <1>5, <1>7, <1>8, <1>10, <1>11, <1>13, <1>14, <1>15, <1>16, <1>17,
     <1>18 DEF RankNext, Lose

\* A rank whose data a step leaves alone.
LEMMA SameDataKeepsRankInv ==
  ASSUME NEW r, RankInv(r), UNCHANGED <<planner, epochs>>,
         place'[r] = place[r], status'[r] = status[r], local'[r] = local[r],
         manifest'[r] = manifest[r], seen'[r] = seen[r], plan'[r] = plan[r]
  PROVE  RankInv(r)'
<1>1. PlanForm(plan[r]) => PlanForm(plan[r])'
  BY DEF PlanForm
<1>2. ValidPlanStructure(plan[r]) => ValidPlanStructure(plan[r])'
  BY DEF ValidPlanStructure
<1> QED
  BY <1>1, <1>2 DEF RankInv, EpochChecked, PlanHeld, PlanAccepted, Updating, Alive

LEMMA RankKeepsMean ==
  ASSUME MeanInv, NEW r \in RankIds, RankNext(r)
  PROVE  MeanInv'
<1>1. Advances(r) /\ OnlyOwn(r) /\ RankFrame(r)
  BY RankKeepsControl, RankKeepsFrame DEF MeanInv
<1>2. ControlInv'
  BY <1>1, AdvanceKeepsControl DEF MeanInv
<1>3. ASSUME NEW s \in RankIds PROVE RankInv(s)'
  <2>1. CASE s = r
    BY <2>1, OwnStepKeepsRankInv
  <2>2. CASE s # r
    BY <1>1, <2>2, SameDataKeepsRankInv DEF RankFrame, OnlyOwn, Advances, MeanInv
  <2> QED
    BY <2>1, <2>2
<1>4. ASSUME NEW s \in RankIds, s # r
      PROVE  status'[s] = status[s] /\ place'[s] = place[s]
  BY <1>1, <1>4 DEF Advances
<1>5. ASSUME NEW s \in RankIds, Updating(s)' PROVE plan' = plan
  <2>1. SUFFICES ASSUME Computing(r, "plan"), place'[r] = "plan" PROVE FALSE
    BY <1>1 DEF RankFrame
  <2>2. s # r
    BY <1>5, <2>1 DEF Updating
  <2>3. Updating(s)
    BY <1>4, <1>5, <2>2 DEF Updating
  <2>4. NextCollective(place[s]) = NextCollective("plan")
    BY <2>1, <2>3 DEF MeanInv, ControlInv, LockStep, Alive, Computing, Updating
  <2> QED
    BY <2>3, <2>4 DEF NextCollective, Updating
<1>6. SamePlans'
  <2> SUFFICES ASSUME NEW s \in RankIds, Updating(s)' PROVE SameBytes(plan)'
    BY DEF SamePlans
  <2>1. CASE s = r
    BY <1>1, <1>5, <2>1 DEF RankFrame, MeanInv, SamePlans, SameBytes
  <2>2. CASE s # r
    BY <1>4, <1>5, <2>2 DEF MeanInv, SamePlans, SameBytes, Updating
  <2> QED
    BY <2>1, <2>2
<1>7. GlobalMean'
  <2>1. ASSUME NEW s \in RankIds, Computing(s, "optimizer")'
        PROVE  Computing(s, "optimizer") /\ plan' = plan /\ reduced' = reduced
    <3>1. s # r
      BY <1>1, <2>1 DEF RankFrame
    <3>2. Computing(s, "optimizer")
      BY <1>4, <2>1, <3>1 DEF Computing
    <3>3. Updating(s)'
      BY <2>1 DEF Updating, Computing
    <3> QED
      BY <1>1, <1>5, <3>2, <3>3 DEF RankFrame
  <2> SUFFICES ASSUME NEW s \in RankIds, Computing(s, "optimizer")'
               PROVE  /\ \A t, q \in RankIds : reduced'[t].scale = reduced'[q].scale
                      /\ \A t \in RankIds : reduced'[t].samples = plan'[s].ranks[t].samples
                      /\ reduced'[s].scale[1]
                           * SumOver([t \in RankIds |-> reduced'[t].samples])
                           = WorldSize * reduced'[s].scale[2]
    BY Zenon DEF GlobalMean
  <2>2. Computing(s, "optimizer") /\ plan' = plan /\ reduced' = reduced
    BY <2>1
  <2>3. [t \in RankIds |-> reduced'[t].samples] = [t \in RankIds |-> reduced[t].samples]
    BY <2>2
  <2>4. GlobalMean
    BY DEF MeanInv
  <2> QED
    BY <2>2, <2>3, <2>4 DEF GlobalMean
<1>8. DOMAIN local' = RankIds /\ DOMAIN manifest' = RankIds
  BY <1>1 DEF RankFrame
<1> QED
  BY <1>2, <1>3, <1>6, <1>7, <1>8 DEF MeanInv

\* A collective after which no rank is in an update.
LEMMA QuietReleaseKeepsMean ==
  ASSUME NEW p, Release(Everywhere(p)), ControlInv',
         p \notin {"micro_batches", "gradients", "optimizer", "count"},
         DOMAIN local' = RankIds, DOMAIN manifest' = RankIds,
         \A r \in RankIds : RankInv(r)'
  PROVE  MeanInv'
<1>1. \A r \in RankIds : ~Updating(r)' /\ ~Computing(r, "optimizer")'
  BY DEF Release, Everywhere, Updating, Computing
<1> QED
  BY <1>1 DEF MeanInv, SamePlans, GlobalMean

\* The reduction of the gradients makes their mean.
LEMMA ReductionMeans ==
  ASSUME MeanInv, ReduceGradients
  PROVE  GlobalMean'
<1>1. ASSUME NEW r \in RankIds
      PROVE  /\ status[r] = "waiting" /\ place[r] = "gradients" /\ Updating(r)
             /\ SameBytes(plan)
             /\ PlanForm(plan[r]) /\ ValidPlanStructure(plan[r])
             /\ seen[r].samples = plan[r].ranks[r].samples
  <2>1. status[r] = "waiting" /\ place[r] = "gradients" /\ Updating(r)
    BY DEF ReduceGradients, AllWaitIn, Updating
  <2>2. /\ RankInv(r) /\ SameBytes(plan)
        /\ PlanForm(plan[r]) /\ ValidPlanStructure(plan[r])
    BY <2>1 DEF MeanInv, SamePlans, RankInv, PlanHeld
  <2>3. /\ seen[r].batches = plan[r].ranks[r].micro_batches
        /\ seen[r].samples = seen[r].batches * plan[r].ranks[r].size
    BY <2>1, <2>2 DEF RankInv, PlanForm
  <2>4. plan[r].ranks[r].samples = plan[r].ranks[r].micro_batches * plan[r].ranks[r].size
    BY <2>2 DEF ValidPlanStructure
  <2> QED
    BY <2>1, <2>2, <2>3, <2>4
<1> DEFINE share(r) == [samples |-> seen[r].samples, scale |-> plan[r].ranks[r].scale]
<1>2. reduced' = [r \in RankIds |-> share(r)] /\ plan' = plan
  BY DEF ReduceGradients
<1>3. \A r \in RankIds : share(r).samples = seen[r].samples
                         /\ share(r).scale = plan[r].ranks[r].scale
  OBVIOUS
<1> HIDE DEF share
<1>4. ASSUME NEW r \in RankIds
      PROVE  /\ reduced'[r].samples = plan[r].ranks[r].samples
             /\ reduced'[r].scale = <<WorldSize, plan[r].samples>>
  BY <1>1, <1>2, <1>3 DEF PlanForm
<1>5. \A r, s \in RankIds : plan[r] = plan[s]
  BY <1>1, RankZero DEF SameBytes
<1>6. ASSUME NEW r \in RankIds
      PROVE  plan[r].samples = SumOver([s \in RankIds |-> reduced'[s].samples])
  <2>1. [s \in RankIds |-> reduced'[s].samples] = [s \in RankIds |-> plan[r].ranks[s].samples]
    <3>1. \A s \in RankIds : reduced'[s].samples = plan[r].ranks[s].samples
      BY <1>4, <1>5
    <3> QED
      BY <3>1
  <2>2. plan[r].samples = SumOver([s \in RankIds |-> plan[r].ranks[s].samples])
    BY <1>1 DEF ValidPlanStructure
  <2> QED
    BY <2>1, <2>2
<1> SUFFICES ASSUME NEW r \in RankIds
             PROVE  /\ \A s, q \in RankIds : reduced'[s].scale = reduced'[q].scale
                    /\ \A s \in RankIds : reduced'[s].samples = plan'[r].ranks[s].samples
                    /\ reduced'[r].scale[1] * SumOver([s \in RankIds |-> reduced'[s].samples])
                         = WorldSize * reduced'[r].scale[2]
  BY DEF GlobalMean
<1>7. \A s, q \in RankIds : reduced'[s].scale = reduced'[q].scale
  BY <1>4, <1>5
<1>8. \A s \in RankIds : reduced'[s].samples = plan'[r].ranks[s].samples
  BY <1>2, <1>4, <1>5
<1>9. reduced'[r].scale[1] = WorldSize /\ reduced'[r].scale[2] = plan[r].samples
  BY <1>4
<1> QED
  BY <1>6, <1>7, <1>8, <1>9

LEMMA StepKeepsMean ==
  ASSUME MeanInv, [UpdateNext]_updateVars
  PROVE  MeanInv'
<1>0. /\ DOMAIN place = RankIds /\ DOMAIN status = RankIds /\ DOMAIN local = RankIds
      /\ DOMAIN manifest = RankIds /\ planner \in {"topology", "dynamic"}
      /\ \A r \in RankIds : RankInv(r)
  BY DEF MeanInv, ControlInv, ControlTypes
<1>c. ControlInv'
  BY StepKeepsControl DEF MeanInv
<1>1. ASSUME UNCHANGED <<planner, epochs, place, status, local, manifest, seen, plan, reduced>>
      PROVE  MeanInv'
  <2>1. \A r \in RankIds : RankInv(r)'
    BY <1>0, <1>1, SameDataKeepsRankInv
  <2>2. SamePlans'
    BY <1>1 DEF MeanInv, SamePlans, SameBytes, Updating
  <2>3. GlobalMean'
    <3>1. [t \in RankIds |-> reduced'[t].samples] = [t \in RankIds |-> reduced[t].samples]
      BY <1>1
    <3>2. GlobalMean
      BY DEF MeanInv
    <3> QED
      BY <1>1, <3>1, <3>2 DEF GlobalMean, Computing
  <2> QED
    BY <1>0, <1>1, <1>c, <2>1, <2>2, <2>3 DEF MeanInv
<1>2. ASSUME NEW p, Release(Everywhere(p)), NEW r \in RankIds
      PROVE  place'[r] = p /\ status'[r] = "computing"
  BY <1>2 DEF Release, Everywhere
<1>3. CASE GatherTopology
  <2>1. planner = "topology"
    BY <1>3, RankZero DEF GatherTopology, AllWaitIn, MeanInv, ControlInv, LockStep, NextCollective
  <2>2. \A r \in RankIds : RankInv(r)'
    BY <1>2, <1>3, <2>1 DEF GatherTopology, Training, RankInv, EpochChecked, PlanHeld,
       PlanAccepted, Updating
  <2>3. Release(Everywhere("manifest")) /\ DOMAIN local' = RankIds /\ DOMAIN manifest' = RankIds
    BY <1>0, <1>3 DEF GatherTopology, Everywhere
  <2> QED
    BY <1>c, <2>2, <2>3, QuietReleaseKeepsMean
<1>4. CASE GatherTelemetry
  <2>1. UNCHANGED <<planner, epochs, local, manifest>>
    BY <1>4 DEF GatherTelemetry, Training
  <2>2. ASSUME NEW r \in RankIds PROVE RankInv(r)'
    BY <1>0, <1>2, <1>4, <2>1 DEF GatherTelemetry, AllWaitIn, RankInv, EpochChecked, PlanHeld,
       PlanAccepted, Updating, Alive
  <2>3. Release(Everywhere("plan"))
    BY <1>4 DEF GatherTelemetry
  <2> QED
    BY <1>0, <1>c, <2>1, <2>2, <2>3, QuietReleaseKeepsMean
<1>5. CASE Gather("manifest_digest", "telemetry")
  <2>1. UNCHANGED <<planner, epochs, local, manifest>>
    BY <1>5 DEF Gather, Group, Training
  <2>2. ASSUME NEW r \in RankIds PROVE RankInv(r)'
    BY <1>0, <1>2, <1>5, <2>1 DEF Gather, AllWaitIn, RankInv, EpochChecked, PlanHeld,
       PlanAccepted, Updating, Alive
  <2>3. Release(Everywhere("telemetry"))
    BY <1>5 DEF Gather
  <2> QED
    BY <1>0, <1>c, <2>1, <2>2, <2>3, QuietReleaseKeepsMean
<1>6. CASE Gather("plan_digest", "begin")
  <2>1. UNCHANGED <<planner, epochs, local, manifest, plan>>
    BY <1>6 DEF Gather, Group, Training
  <2>2. ASSUME NEW r \in RankIds PROVE RankInv(r)'
    <3>1. PlanForm(plan[r]) => PlanForm(plan[r])'
      BY <2>1 DEF PlanForm
    <3> QED
      BY <1>0, <1>2, <1>6, <2>1, <3>1 DEF Gather, AllWaitIn, RankInv, EpochChecked, PlanHeld,
         PlanAccepted, Updating, Alive
  <2>3. Release(Everywhere("begin"))
    BY <1>6 DEF Gather
  <2> QED
    BY <1>0, <1>c, <2>1, <2>2, <2>3, QuietReleaseKeepsMean
<1>7. CASE Gather("count", "check")
  <2>1. UNCHANGED <<local, manifest>>
    BY <1>7 DEF Gather, Group
  <2>2. ASSUME NEW r \in RankIds PROVE RankInv(r)'
    BY <1>2, <1>7, IdleRankInv DEF Gather
  <2>3. Release(Everywhere("check"))
    BY <1>7 DEF Gather
  <2> QED
    BY <1>0, <1>c, <2>1, <2>2, <2>3, QuietReleaseKeepsMean
<1>8. ASSUME NEW damaged \in SUBSET (RankIds \ {0}), BroadcastManifest(damaged)
      PROVE  MeanInv'
  <2>1. UNCHANGED <<planner, local>> /\ Release(Everywhere("manifest_digest"))
    BY <1>8 DEF BroadcastManifest, Training
  <2>2. ASSUME NEW r \in RankIds PROVE RankInv(r)'
    <3>1. place[r] = "manifest" /\ status[r] = "waiting"
      BY <1>8 DEF BroadcastManifest, AllWaitIn
    <3> QED
      BY <1>0, <1>2, <2>1, <3>1 DEF RankInv, EpochChecked, PlanHeld, PlanAccepted, Updating, Alive
  <2>3. DOMAIN manifest' = RankIds
    <3> DEFINE sent(r) == IF r \in damaged THEN [manifest[0] EXCEPT !.ranks[0].floor_ms = @ + 1]
                                           ELSE manifest[0]
    <3>1. manifest' = [r \in RankIds |-> sent(r)]
      BY <1>8, Zenon DEF BroadcastManifest
    <3> HIDE DEF sent
    <3> QED
      BY <3>1
  <2> QED
    BY <1>0, <1>c, <2>1, <2>2, <2>3, QuietReleaseKeepsMean
<1>9. ASSUME NEW damaged \in SUBSET (RankIds \ {0}), BroadcastPlan(damaged)
      PROVE  MeanInv'
  <2>1. /\ UNCHANGED <<planner, epochs, local, manifest>> /\ Release(Everywhere("plan_digest"))
        /\ \A r \in RankIds : place[r] = "plan" /\ status[r] = "waiting"
    BY <1>9 DEF BroadcastPlan, Training, AllWaitIn
  <2>2. PlanForm(plan[0]) /\ (planner = "dynamic" => plan[0].work = {})
    BY <1>0, <2>1, RankZero DEF RankInv, PlanHeld
  <2> DEFINE sent(r) == IF r \in damaged THEN [plan[0] EXCEPT !.version = @ + 1] ELSE plan[0]
  <2>3. \A r \in RankIds : PlanForm(sent(r)) /\ sent(r).work = plan[0].work
    BY <2>2, DamagedPlanForm
  <2>4. plan' = [r \in RankIds |-> sent(r)]
    BY <1>9, Zenon DEF BroadcastPlan
  <2> HIDE DEF sent
  <2>5. ASSUME NEW r \in RankIds
        PROVE  PlanForm(plan[r])' /\ (planner' = "dynamic" => plan'[r].work = {})
    <3>1. PlanForm(plan'[r]) /\ plan'[r].work = plan[0].work
      BY <2>3, <2>4
    <3> QED
      BY <2>1, <2>2, <3>1 DEF PlanForm
  <2>6. ASSUME NEW r \in RankIds PROVE RankInv(r)'
    BY <1>0, <1>2, <2>1, <2>5 DEF RankInv, EpochChecked, PlanHeld, PlanAccepted, Updating, Alive
  <2> QED
    BY <1>0, <1>c, <2>1, <2>6, QuietReleaseKeepsMean
<1>10. CASE ReduceGradients
  <2>1. /\ Release(Everywhere("optimizer"))
        /\ UNCHANGED <<planner, epochs, local, manifest, plan, seen>>
    BY <1>10, GradientsReleaseAll DEF MeanInv, ReduceGradients, Training
  <2>2. \A r \in RankIds : place[r] = "gradients" /\ status[r] = "waiting"
    BY <1>10 DEF ReduceGradients, AllWaitIn
  <2>3. ASSUME NEW r \in RankIds PROVE RankInv(r)'
    <3>1. PlanForm(plan[r]) => PlanForm(plan[r])'
      BY <2>1 DEF PlanForm
    <3>2. ValidPlanStructure(plan[r]) => ValidPlanStructure(plan[r])'
      BY <2>1 DEF ValidPlanStructure
    <3> QED
      BY <1>0, <1>2, <2>1, <2>2, <3>1, <3>2
      DEF RankInv, EpochChecked, PlanHeld, PlanAccepted, Updating, Alive
  <2>4. SamePlans'
    BY <2>1, <2>2, RankZero DEF MeanInv, SamePlans, SameBytes, Updating
  <2> QED
    BY <1>0, <1>10, <1>c, <2>1, <2>3, <2>4, ReductionMeans DEF MeanInv
<1>11. ASSUME NEW late \in SUBSET RankIds, Rendezvous(late)
       PROVE  MeanInv'
  <2>1. Release(Everywhere("restore")) /\ DOMAIN local' = RankIds /\ DOMAIN manifest' = RankIds
    BY <1>11 DEF Rendezvous, Release, Everywhere
  <2>2. ASSUME NEW r \in RankIds PROVE RankInv(r)'
    BY <1>2, <2>1, IdleRankInv
  <2> QED
    BY <1>c, <2>1, <2>2, QuietReleaseKeepsMean
<1>12. CASE Snapshot
  BY <1>1, <1>12 DEF Snapshot, Group
<1>13. CASE UNCHANGED updateVars
  BY <1>1, <1>13 DEF updateVars
<1> QED
  BY <1>3, <1>4, <1>5, <1>6, <1>7, <1>8, <1>9, <1>10, <1>11, <1>12, <1>13, RankKeepsMean
  DEF UpdateNext

LEMMA InitMean == UpdateInit => MeanInv
<1> SUFFICES ASSUME UpdateInit PROVE MeanInv
  OBVIOUS
<1>1. /\ \A r \in RankIds : place[r] = "topology" /\ status[r] = "computing"
      /\ DOMAIN local = RankIds /\ DOMAIN manifest = RankIds
  BY DEF UpdateInit, Everywhere
<1>2. ControlInv
  BY InitControl
<1> QED
  BY <1>1, <1>2 DEF MeanInv, RankInv, EpochChecked, PlanHeld, PlanAccepted, Updating, Alive,
     SamePlans, GlobalMean, Computing

\* The inductive invariant of an update's data: who holds which plan, and what
\* share of it has gone into the gradient.
THEOREM MeanInvCorrect == UpdateSpec => []MeanInv
BY InitMean, StepKeepsMean, PTL DEF UpdateSpec

\* Whoever computes gradients does so under one plan, for the work that each
\* rank was itself given, and on the topology of its own incarnation of the
\* group, whatever a broadcast damages.
THEOREM OnePlanCorrect == UpdateSpec => []OnePlan
<1>1. MeanInv => OnePlan
  <2> SUFFICES ASSUME MeanInv, NEW r \in RankIds, NEW s \in RankIds, Updating(r), Updating(s)
               PROVE  /\ plan[r] = plan[s]
                      /\ plan[r].work = local[s].work
                      /\ planner = "topology" => epochs[r] = epochs[s]
    BY DEF OnePlan
  <2>1. plan[r] = plan[s] /\ RankInv(r) /\ RankInv(s)
    BY DEF MeanInv, SamePlans, SameBytes
  <2> QED
    BY <2>1 DEF RankInv, EpochChecked, PlanAccepted
<1> QED
  BY <1>1, MeanInvCorrect, PTL

\* The gradient that a rank applies is the mean over all samples of the update,
\* for every partition of the micro-batches that the planners make.
THEOREM GlobalMeanCorrect == UpdateSpec => []GlobalMean
<1>1. MeanInv => GlobalMean
  BY DEF MeanInv
<1> QED
  BY <1>1, MeanInvCorrect, PTL

-----------------------------------------------------------------------------
(***************************************************************************)
(* The replicas.                                                           *)
(***************************************************************************)

\* The training state after the optimizer has stepped.
Stepped(parts) ==
  [part \in Parts |-> IF part \in PartsOf(saved.mode) THEN parts[part] + 1 ELSE parts[part]]

\* A part that the precision mode does not have stays as it was created, which
\* is why a restore may leave it out.
StateTypes ==
  /\ state \in [RankIds -> [Parts -> Nat]]
  /\ saved \in [mode : Modes, parts : [Parts -> Nat]]
  /\ \A part \in Parts \ PartsOf(saved.mode) :
       saved.parts[part] = 0 /\ \A r \in RankIds : state[r][part] = 0

\* Ranks on the same side of the optimizer agree, a rank that has stepped is one
\* step ahead, and until all are restored the others have not left the snapshot.
InStep(r, s) ==
  /\ place[r] # "restore" /\ place[s] # "restore"
       /\ (place[r] = "count" <=> place[s] = "count") => state[r] = state[s]
  /\ place[r] = "count" /\ place[s] = "optimizer" => state[r] = Stepped(state[s])
  /\ place[r] = "restore" /\ place[s] # "restore" => state[s] = saved.parts

ReplicaInv ==
  /\ ControlInv
  /\ StateTypes
  /\ \A r, s \in RankIds : Alive(r) /\ Alive(s) => InStep(r, s)

\* A step of a rank that keeps it where it was, as far as InStep can tell.
SameSide(r) ==
  /\ UNCHANGED <<state, saved>>
  /\ Alive(r)' => /\ Alive(r)
                  /\ place'[r] = "restore" <=> place[r] = "restore"
                  /\ place'[r] = "count" <=> place[r] = "count"
                  /\ place'[r] = "optimizer" => place[r] = "optimizer"

LEMMA RankStaysOrMoves ==
  ASSUME ControlInv, NEW r \in RankIds, RankNext(r)
  PROVE  \/ SameSide(r)
         \/ StepOptimizer(r)
         \/ \E mode \in Modes, scaler, target \in BOOLEAN : Restore(r, mode, scaler, target)
<1>0. DOMAIN place = RankIds /\ DOMAIN status = RankIds
  BY DEF ControlInv, ControlTypes
<1> USE <1>0 DEF Training, Computing, GoOn, Enter, EnterIf, Raise, SameSide, Alive
<1>2. ASSUME NEW telemetry \in Telemetries, NEW work \in WorkLists,
             EnterTopology(r, telemetry, work)
      PROVE  SameSide(r)
  BY <1>2 DEF EnterTopology
<1>3. ASSUME NEW telemetry \in Telemetries, EnterWithoutTopology(r, telemetry)
      PROVE  SameSide(r)
  BY <1>3 DEF EnterWithoutTopology
<1>4. CASE EnterManifest(r)
  BY <1>4 DEF EnterManifest
<1>5. CASE EnterManifestDigest(r)
  BY <1>5 DEF EnterManifestDigest
<1>6. CASE EnterTelemetry(r)
  BY <1>6 DEF EnterTelemetry
<1>7. ASSUME NEW plannable, NEW planned, NEW valid, EnterPlanAs(r, plannable, planned, valid)
      PROVE  SameSide(r)
  BY <1>7 DEF EnterPlanAs
<1>8. CASE EnterPlan(r)
  BY <1>7, <1>8 DEF EnterPlan
<1>9. CASE EnterDynamicPlan(r)
  BY <1>7, <1>9 DEF EnterDynamicPlan
<1>10. CASE EnterPlanDigest(r)
  BY <1>10 DEF EnterPlanDigest
<1>11. CASE EnterDynamicPlanDigest(r)
  BY <1>11 DEF EnterDynamicPlanDigest
<1>12. CASE BeginUpdate(r)
  BY <1>12 DEF BeginUpdate
<1>13. ASSUME NEW samples \in 0 .. BatchSize[r], MicroBatch(r, samples)
       PROVE  SameSide(r)
  <2>1. /\ UNCHANGED Training /\ Computing(r, "micro_batches")
        /\ Enter(r, "gradients") \/ Raise(r) \/ UNCHANGED <<place, status>>
    BY <1>13 DEF MicroBatch
  <2>2. CASE UNCHANGED <<place, status>>
    BY <2>1, <2>2
  <2>3. CASE Enter(r, "gradients")
    BY <2>1, <2>3
  <2>4. CASE Raise(r)
    BY <2>1, <2>4
  <2> QED
    BY <2>1, <2>2, <2>3, <2>4
<1>14. CASE FinishUpdate(r)
  BY <1>14 DEF FinishUpdate
<1>15. CASE Lose(r)
  BY <1>15 DEF Lose
<1> QED
  BY <1>2, <1>3, <1>4, <1>5, <1>6, <1>8, <1>9, <1>10, <1>11, <1>12, <1>13, <1>14, <1>15
  DEF RankNext

LEMMA SameSideKeepsReplicas ==
  ASSUME ReplicaInv, ControlInv', UNCHANGED <<state, saved>>, \A r \in RankIds : SameSide(r)
  PROVE  ReplicaInv'
<1>1. StateTypes'
  BY DEF ReplicaInv, StateTypes, PartsOf
<1>2. ASSUME NEW r \in RankIds, NEW s \in RankIds, Alive(r)', Alive(s)'
      PROVE  InStep(r, s)'
  <2>1. SameSide(r) /\ SameSide(s) /\ InStep(r, s)
    BY <1>2 DEF ReplicaInv, SameSide
  <2>2. Stepped(state[s])' = Stepped(state[s])
    BY DEF Stepped, PartsOf
  <2> QED
    BY <1>2, <2>1, <2>2 DEF InStep, SameSide
<1> QED
  BY <1>1, <1>2 DEF ReplicaInv

\* The ranks leave a collective together.
LEMMA ReleaseKeepsReplicas ==
  ASSUME ReplicaInv, ControlInv', UNCHANGED <<state, saved>>,
         NEW c, NEW p, AllWaitIn(c), c # "restore", p # "restore", Release(Everywhere(p))
  PROVE  ReplicaInv'
<1>1. StateTypes'
  BY DEF ReplicaInv, StateTypes, PartsOf
<1>2. ASSUME NEW r \in RankIds, NEW s \in RankIds
      PROVE  state[r] = state[s] /\ place'[r] = p /\ place'[s] = p
  BY <1>2 DEF ReplicaInv, AllWaitIn, Alive, InStep, Release, Everywhere
<1>3. \A r, s \in RankIds : InStep(r, s)'
  BY <1>2 DEF InStep
<1> QED
  BY <1>1, <1>3 DEF ReplicaInv

LEMMA SteppedTypes ==
  ASSUME StateTypes, NEW parts \in [Parts -> Nat],
         \A part \in Parts \ PartsOf(saved.mode) : parts[part] = 0
  PROVE  /\ Stepped(parts) \in [Parts -> Nat]
         /\ \A part \in Parts \ PartsOf(saved.mode) : Stepped(parts)[part] = 0
BY DEF Stepped

LEMMA OptimizerKeepsReplicas ==
  ASSUME ReplicaInv, ControlInv', NEW r \in RankIds, StepOptimizer(r)
  PROVE  ReplicaInv'
<1>0. DOMAIN place = RankIds /\ DOMAIN status = RankIds /\ UNCHANGED <<saved, planner>>
      /\ Computing(r, "optimizer")
  BY DEF ReplicaInv, ControlInv, ControlTypes, StepOptimizer
<1>1. CASE Raise(r) /\ UNCHANGED state
  <2>1. \A s \in RankIds : SameSide(s)
    BY <1>0, <1>1 DEF Raise, SameSide, Alive
  <2> QED
    BY <1>0, <1>1, <2>1, SameSideKeepsReplicas
<1>2. CASE Enter(r, "count") /\ state' = [state EXCEPT ![r] = Stepped(state[r])]
  <2>1. \A s \in RankIds :
          s # r => state'[s] = state[s] /\ place'[s] = place[s] /\ status'[s] = status[s]
    BY <1>0, <1>2 DEF Enter, ReplicaInv, StateTypes
  <2>2. place'[r] = "count" /\ state'[r] = Stepped(state[r]) /\ Alive(r) /\ place[r] = "optimizer"
    BY <1>0, <1>2 DEF Enter, ReplicaInv, StateTypes, Alive, Computing
  <2>3. StateTypes'
    <3>1. Stepped(state[r]) \in [Parts -> Nat]
          /\ \A part \in Parts \ PartsOf(saved.mode) : Stepped(state[r])[part] = 0
      BY SteppedTypes DEF ReplicaInv, StateTypes
    <3>2. state' \in [RankIds -> [Parts -> Nat]]
      BY <1>2, <3>1 DEF ReplicaInv, StateTypes
    <3>3. PartsOf(saved.mode)' = PartsOf(saved.mode)
      BY <1>0 DEF PartsOf
    <3> QED
      BY <1>0, <2>1, <2>2, <3>1, <3>2, <3>3 DEF ReplicaInv, StateTypes
  <2>4. ASSUME NEW s \in RankIds, Alive(s)
        PROVE  place[s] \in {"optimizer", "count"}
    <3>1. NextCollective(place[s]) = "count" /\ place[s] \in Places
      BY <2>2, <2>4 DEF ReplicaInv, ControlInv, ControlTypes, LockStep, NextCollective
    <3> QED
      BY <3>1 DEF NextCollective, Places, Collectives
  <2>5. ASSUME NEW s \in RankIds, s # r, Alive(s)'
        PROVE  InStep(r, s)' /\ InStep(s, r)'
    <3>1. Alive(s) /\ place'[s] = place[s] /\ state'[s] = state[s]
      BY <2>1, <2>5 DEF Alive
    <3>2. InStep(r, s) /\ InStep(s, r) /\ place[s] \in {"optimizer", "count"}
      BY <2>2, <2>4, <3>1 DEF ReplicaInv
    <3>3. Stepped(state[s])' = Stepped(state[s])
      BY <1>0, <3>1 DEF Stepped, PartsOf
    <3> QED
      BY <2>2, <3>1, <3>2, <3>3 DEF InStep
  <2>6. ASSUME NEW s \in RankIds, NEW q \in RankIds, s # r, q # r, Alive(s)', Alive(q)'
        PROVE  InStep(s, q)'
    <3>1. /\ Alive(s) /\ place'[s] = place[s] /\ state'[s] = state[s]
          /\ Alive(q) /\ place'[q] = place[q] /\ state'[q] = state[q]
      BY <2>1, <2>6 DEF Alive
    <3>2. InStep(s, q)
      BY <3>1 DEF ReplicaInv
    <3>3. Stepped(state[q])' = Stepped(state[q])
      BY <1>0, <3>1 DEF Stepped, PartsOf
    <3> QED
      BY <1>0, <3>1, <3>2, <3>3 DEF InStep
  <2>7. InStep(r, r)'
    BY <2>2 DEF InStep
  <2> QED
    BY <2>3, <2>5, <2>6, <2>7 DEF ReplicaInv
<1>3. \/ Raise(r) /\ UNCHANGED state
      \/ Enter(r, "count") /\ state' = [state EXCEPT ![r] = Stepped(state[r])]
  BY Zenon DEF StepOptimizer, Stepped
<1> QED
  BY <1>1, <1>2, <1>3

LEMMA RestoreKeepsReplicas ==
  ASSUME ReplicaInv, ControlInv', NEW r \in RankIds, NEW mode, NEW scaler, NEW target,
         Restore(r, mode, scaler, target)
  PROVE  ReplicaInv'
<1>0. DOMAIN place = RankIds /\ DOMAIN status = RankIds /\ UNCHANGED <<saved, planner>>
      /\ Computing(r, "restore")
  BY DEF ReplicaInv, ControlInv, ControlTypes, Restore
<1> DEFINE complete == scaler = (saved.mode = "fp16") /\ target = (saved.mode = "fp8")
           parts == IF complete THEN PartsOf(saved.mode) ELSE {"model", "ema", "optimizer"}
           new == [part \in Parts |-> IF part \in parts THEN saved.parts[part] ELSE state[r][part]]
           matches == mode = saved.mode
<1>1. /\ state' = [state EXCEPT ![r] = IF matches THEN new ELSE state[r]]
      /\ IF matches /\ complete THEN GoOn(r, "topology") ELSE Raise(r)
  BY Zenon DEF Restore
<1>2. /\ new \in [Parts -> Nat]
      /\ \A part \in Parts \ PartsOf(saved.mode) : new[part] = 0
      /\ complete => new = saved.parts
  <2>1. /\ saved.parts \in [Parts -> Nat] /\ state[r] \in [Parts -> Nat]
        /\ \A part \in Parts \ PartsOf(saved.mode) : saved.parts[part] = 0 /\ state[r][part] = 0
    BY DEF ReplicaInv, StateTypes
  <2> HIDE DEF parts
  <2>2. new \in [Parts -> Nat] /\ \A part \in Parts \ PartsOf(saved.mode) : new[part] = 0
    BY <2>1
  <2>3. ASSUME complete PROVE new = saved.parts
    <3>1. parts = PartsOf(saved.mode)
      BY <2>3 DEF parts
    <3>2. \A part \in Parts : new[part] = saved.parts[part]
      BY <2>1, <3>1
    <3> QED
      BY <2>1, <2>2, <3>2
  <2> QED
    BY <2>2, <2>3
<1> HIDE DEF new, complete, parts, matches
<1>3. \A s \in RankIds :
        s # r => state'[s] = state[s] /\ place'[s] = place[s] /\ status'[s] = status[s]
  BY <1>0, <1>1 DEF GoOn, Raise, ReplicaInv, StateTypes
<1>4. StateTypes'
  <2>1. state' \in [RankIds -> [Parts -> Nat]] /\ state'[r] \in {state[r], new}
    BY <1>1, <1>2 DEF ReplicaInv, StateTypes
  <2>2. PartsOf(saved.mode)' = PartsOf(saved.mode)
    BY <1>0 DEF PartsOf
  <2> QED
    BY <1>0, <1>2, <1>3, <2>1, <2>2 DEF ReplicaInv, StateTypes
<1>5. ASSUME Alive(r)'
      PROVE  Alive(r) /\ place[r] = "restore" /\ place'[r] = "topology" /\ state'[r] = saved.parts
  <2>1. matches /\ complete /\ GoOn(r, "topology")
    BY <1>0, <1>1, <1>5 DEF Raise, Alive
  <2> QED
    BY <1>0, <1>1, <1>2, <2>1 DEF GoOn, Computing, Alive, ReplicaInv, StateTypes
<1>6. ASSUME NEW s \in RankIds, s # r, Alive(s)', Alive(r)'
      PROVE  InStep(r, s)' /\ InStep(s, r)'
  <2>1. Alive(s) /\ place'[s] = place[s] /\ state'[s] = state[s]
    BY <1>3, <1>6 DEF Alive
  <2>2. InStep(r, s)
    BY <1>5, <1>6, <2>1 DEF ReplicaInv
  <2>3. place[s] \in {"restore", "check", "topology", "telemetry"}
    <3>1. place[s] \in Places /\ NextCollective(place[s]) \in {"topology", "telemetry"}
      BY <1>5, <1>6, <2>1, ZenonT(40) DEF ReplicaInv, ControlInv, ControlTypes, LockStep, NextCollective
    <3> QED
      BY <3>1 DEF NextCollective, Places, Collectives
  <2> QED
    BY <1>0, <1>5, <1>6, <2>1, <2>2, <2>3 DEF InStep
<1>7. ASSUME NEW s \in RankIds, NEW q \in RankIds, s # r, q # r, Alive(s)', Alive(q)'
      PROVE  InStep(s, q)'
  <2>1. /\ Alive(s) /\ place'[s] = place[s] /\ state'[s] = state[s]
        /\ Alive(q) /\ place'[q] = place[q] /\ state'[q] = state[q]
    BY <1>3, <1>7 DEF Alive
  <2>2. InStep(s, q)
    BY <2>1 DEF ReplicaInv
  <2>3. Stepped(state[q])' = Stepped(state[q])
    BY <1>0, <2>1 DEF Stepped, PartsOf
  <2> QED
    BY <1>0, <2>1, <2>2, <2>3 DEF InStep
<1>8. ASSUME Alive(r)' PROVE InStep(r, r)'
  BY <1>5, <1>8 DEF InStep
<1> QED
  BY <1>4, <1>6, <1>7, <1>8 DEF ReplicaInv

\* Rank 0 takes its snapshot when no update runs.
LEMMA SnapshotKeepsReplicas ==
  ASSUME ReplicaInv, ControlInv', Snapshot
  PROVE  ReplicaInv'
<1>0. /\ Computing(0, "topology") /\ UNCHANGED <<planner, place, status, state>> /\ 0 \in RankIds
      /\ Alive(0) /\ place[0] = "topology"
  BY RankZero DEF Snapshot, Computing, Alive
<1>1. saved' = [saved EXCEPT !.parts = state[0]]
  BY DEF Snapshot
<1>2. /\ saved'.mode = saved.mode /\ saved'.parts = state[0]
      /\ saved' \in [mode : Modes, parts : [Parts -> Nat]]
  BY <1>0, <1>1 DEF ReplicaInv, StateTypes
<1>3. StateTypes'
  BY <1>0, <1>2 DEF ReplicaInv, StateTypes
<1>4. ASSUME NEW r \in RankIds, Alive(r)
      PROVE  /\ place[r] \in {"restore", "check", "topology", "telemetry"}
             /\ place[r] # "restore" => state[r] = state[0]
  <2>1. place[r] \in Places /\ NextCollective(place[r]) \in {"topology", "telemetry"}
    BY <1>0, <1>4, ZenonT(40) DEF ReplicaInv, ControlInv, ControlTypes, LockStep, NextCollective
  <2>2. place[r] \in {"restore", "check", "topology", "telemetry"}
    BY <2>1 DEF NextCollective, Places, Collectives
  <2> QED
    BY <1>0, <1>4, <2>2 DEF ReplicaInv, InStep
<1>5. ASSUME NEW r \in RankIds, NEW s \in RankIds, Alive(r)', Alive(s)'
      PROVE  InStep(r, s)'
  BY <1>0, <1>2, <1>4, <1>5 DEF InStep, Alive
<1> QED
  BY <1>3, <1>5 DEF ReplicaInv

LEMMA StepKeepsReplicas ==
  ASSUME ReplicaInv, [UpdateNext]_updateVars
  PROVE  ReplicaInv'
<1>0. ControlInv /\ ControlInv'
  BY StepKeepsControl DEF ReplicaInv
<1>1. ASSUME NEW r \in RankIds, RankNext(r)
      PROVE  ReplicaInv'
  <2>1. CASE SameSide(r)
    <3>1. \A s \in RankIds : s # r => place'[s] = place[s] /\ status'[s] = status[s]
      BY <1>0, <1>1, RankKeepsControl DEF Advances
    <3>2. \A s \in RankIds : SameSide(s)
      BY <2>1, <3>1 DEF SameSide, Alive
    <3>3. UNCHANGED <<state, saved>>
      BY <2>1 DEF SameSide
    <3> QED
      BY <1>0, <3>2, <3>3, SameSideKeepsReplicas
  <2> QED
    BY <1>0, <1>1, <2>1, RankStaysOrMoves, OptimizerKeepsReplicas, RestoreKeepsReplicas
<1>2. CASE GatherTopology
  BY <1>0, <1>2, ReleaseKeepsReplicas DEF GatherTopology, Training
<1>3. CASE GatherTelemetry
  BY <1>0, <1>3, ReleaseKeepsReplicas DEF GatherTelemetry, Training
<1>4. ASSUME NEW c, NEW p, c # "restore", p # "restore", Gather(c, p)
      PROVE  ReplicaInv'
  BY <1>0, <1>4, ReleaseKeepsReplicas DEF Gather, Training
<1>5. ASSUME NEW damaged \in SUBSET (RankIds \ {0}), BroadcastManifest(damaged)
      PROVE  ReplicaInv'
  <2>1. /\ AllWaitIn("manifest") /\ Release(Everywhere("manifest_digest"))
        /\ UNCHANGED <<state, saved>>
    BY <1>5 DEF BroadcastManifest, Training
  <2> QED
    BY <1>0, <2>1, ReleaseKeepsReplicas
<1>6. ASSUME NEW damaged \in SUBSET (RankIds \ {0}), BroadcastPlan(damaged)
      PROVE  ReplicaInv'
  <2>1. AllWaitIn("plan") /\ Release(Everywhere("plan_digest")) /\ UNCHANGED <<state, saved>>
    BY <1>6 DEF BroadcastPlan, Training
  <2> QED
    BY <1>0, <2>1, ReleaseKeepsReplicas
<1>7. CASE ReduceGradients
  <2>1. AllWaitIn("gradients") /\ UNCHANGED <<state, saved>>
    BY <1>7 DEF ReduceGradients, Training
  <2> QED
    BY <1>0, <1>7, <2>1, GradientsReleaseAll, ReleaseKeepsReplicas
<1>8. ASSUME NEW late \in SUBSET RankIds, Rendezvous(late)
      PROVE  ReplicaInv'
  <2>1. /\ place' = [r \in RankIds |-> "restore"] /\ state' = [r \in RankIds |-> Fresh]
        /\ UNCHANGED saved
    BY <1>8 DEF Rendezvous, Everywhere
  <2>2. Fresh \in [Parts -> Nat] /\ \A part \in Parts : Fresh[part] = 0
    BY DEF Fresh
  <2>3. PartsOf(saved.mode)' = PartsOf(saved.mode)
    BY <2>1 DEF PartsOf
  <2> HIDE DEF Fresh
  <2>4. StateTypes'
    BY <2>1, <2>2, <2>3 DEF ReplicaInv, StateTypes
  <2>5. \A r, s \in RankIds : InStep(r, s)'
    BY <2>1 DEF InStep
  <2> QED
    BY <1>0, <2>4, <2>5 DEF ReplicaInv
<1>9. CASE Snapshot
  BY <1>0, <1>9, SnapshotKeepsReplicas
<1>10. CASE UNCHANGED updateVars
  <2>1. \A s \in RankIds : SameSide(s)
    BY <1>10 DEF updateVars, SameSide, Alive
  <2> QED
    BY <1>0, <1>10, <2>1, SameSideKeepsReplicas DEF updateVars
<1> QED
  BY <1>1, <1>2, <1>3, <1>4, <1>5, <1>6, <1>7, <1>8, <1>9, <1>10 DEF UpdateNext

LEMMA InitReplicas == UpdateInit => ReplicaInv
<1> SUFFICES ASSUME UpdateInit PROVE ReplicaInv
  OBVIOUS
<1>1. Fresh \in [Parts -> Nat] /\ \A part \in Parts : Fresh[part] = 0
  BY DEF Fresh
<1>2. /\ state = [r \in RankIds |-> Fresh] /\ place = [r \in RankIds |-> "topology"]
      /\ saved \in [mode : Modes, parts : {Fresh}]
  BY DEF UpdateInit, Everywhere
<1> HIDE DEF Fresh
<1>3. StateTypes
  BY <1>1, <1>2 DEF StateTypes
<1>4. \A r, s \in RankIds : InStep(r, s)
  BY <1>2 DEF InStep
<1> QED
  BY <1>3, <1>4, InitControl DEF ReplicaInv

\* The inductive invariant of the training states: replicas differ at most by the
\* step that only some of them have taken yet.
THEOREM ReplicaInvCorrect == UpdateSpec => []ReplicaInv
BY InitReplicas, StepKeepsReplicas, PTL DEF UpdateSpec

\* Ranks that are about to reduce gradients hold the same training state,
\* whatever snapshot the group was rebuilt from, and whichever ranks a restore
\* refused.
THEOREM ReplicasCorrect == UpdateSpec => []ReplicasAgree
<1>1. ReplicaInv => ReplicasAgree
  BY DEF ReplicaInv, ReplicasAgree, InStep, Alive
<1> QED
  BY <1>1, ReplicaInvCorrect, PTL

-----------------------------------------------------------------------------
(***************************************************************************)
(* The plans.                                                              *)
(***************************************************************************)

LEMMA RanksAreFinite ==
  /\ IsFiniteSet(RankIds) /\ RankIds # {} /\ RankIds \subseteq Int
  /\ WorldSize \in Nat \ {0}
<1>1. WorldSize \in Nat \ {0}
  BY PlannerAssumption DEF PlannerAssumption
<1>2. IsFiniteSet(0 .. WorldSize - 1)
  BY <1>1, FS_Interval
<1>3. 0 \in 0 .. WorldSize - 1 /\ 0 .. WorldSize - 1 \subseteq Int
  BY <1>1
<1> QED
  BY <1>1, <1>2, <1>3 DEF RankIds

\* A sum over the ranks, and what follows from its terms.
LEMMA SumOverRanks ==
  ASSUME NEW F \in [RankIds -> Int]
  PROVE  \E f : Sums(f, F, RankIds) /\ SumOver(F) = f[RankIds]
<1>1. DOMAIN F = RankIds
  OBVIOUS
<1> QED
  BY <1>1, RanksAreFinite, SumIsSum DEF SumOver

LEMMA SumsCompare ==
  ASSUME NEW F \in [RankIds -> Int], NEW H \in [RankIds -> Int],
         \A r \in RankIds : F[r] <= H[r]
  PROVE  /\ SumOver(F) \in Int /\ SumOver(F) <= SumOver(H)
         /\ SumOver(F) = SumOver(H) => F = H
<1>1. PICK f : Sums(f, F, RankIds) /\ SumOver(F) = f[RankIds]
  BY SumOverRanks
<1>2. PICK h : Sums(h, H, RankIds) /\ SumOver(H) = h[RankIds]
  BY SumOverRanks
<1>3. f[RankIds] <= h[RankIds] /\ (f[RankIds] = h[RankIds] => F = H)
  <2>1. IsFiniteSet(RankIds) /\ Sums(f, F, RankIds) /\ Sums(h, H, RankIds)
    BY <1>1, <1>2, RanksAreFinite
  <2> QED
    BY <2>1, SumMonotone
<1>4. f[RankIds] \in Int
  BY <1>1 DEF Sums
<1> QED
  BY <1>1, <1>2, <1>3, <1>4

LEMMA SumOfZeros == SumOver([r \in RankIds |-> 0]) = 0
<1> DEFINE Z == [r \in RankIds |-> 0]
<1>1. Z \in [RankIds -> Int]
  OBVIOUS
<1>2. PICK z : Sums(z, Z, RankIds) /\ SumOver(Z) = z[RankIds]
  BY <1>1, SumOverRanks
<1> DEFINE G == {T \in SUBSET RankIds : z[T] = 0}
<1>3. {} \in G /\ G \in SUBSET (SUBSET RankIds)
  BY <1>2 DEF Sums
<1>4. ASSUME NEW T \in SUBSET RankIds, T # {}, \A x \in T : T \ {x} \in G PROVE T \in G
  <2>1. (CHOOSE x \in T : TRUE) \in T
    BY <1>4
  <2>2. z[T] = Z[CHOOSE x \in T : TRUE] + z[T \ {CHOOSE x \in T : TRUE}]
    BY <1>2, <1>4 DEF Sums
  <2>3. Z[CHOOSE x \in T : TRUE] = 0 /\ z[T \ {CHOOSE x \in T : TRUE}] = 0
    BY <1>4, <2>1
  <2> QED
    BY <1>4, <2>2, <2>3
<1> HIDE DEF G
<1>5. G = SUBSET RankIds
  BY <1>3, <1>4, RanksAreFinite, OneByOne
<1> QED
  BY <1>2, <1>5 DEF G

LEMMA SumOfPositive ==
  ASSUME NEW F \in [RankIds -> Nat \ {0}]
  PROVE  SumOver(F) \in Nat \ {0}
<1> DEFINE Z == [r \in RankIds |-> 0]
<1>1. Z \in [RankIds -> Int] /\ F \in [RankIds -> Int] /\ \A r \in RankIds : Z[r] <= F[r]
  OBVIOUS
<1>2. Z # F
  BY RanksAreFinite
<1>3. SumOver(Z) = 0
  BY SumOfZeros
<1>4. SumOver(F) \in Int
  BY <1>1, SumsCompare
<1> HIDE DEF Z
<1>5. SumOver(Z) <= SumOver(F) /\ SumOver(Z) # SumOver(F)
  BY <1>1, <1>2, SumsCompare
<1> QED
  BY <1>3, <1>4, <1>5

\* The counts are within the limits, whatever the budgets are.
LEMMA FittingInLimits ==
  ASSUME NEW rate \in Nat, NEW time \in Int, NEW size \in Nat \ {0}
  PROVE  Fitting(rate, time, size) \in MinMicroBatches .. MaxMicroBatches
<1> DEFINE n == rate * time
           d == 1000 * size
<1>1. n \in Int /\ d \in Nat \ {0}
  OBVIOUS
<1> HIDE DEF n, d
<1>2. RoundQuotient(n, d) \in Int
  <2>1. n \div d \in Int
    BY <1>1
  <2> QED
    BY <2>1 DEF RoundQuotient
<1>3. \A q \in Int : Greater(MinMicroBatches, Lesser(MaxMicroBatches, q))
                       \in MinMicroBatches .. MaxMicroBatches
  BY PlannerAssumption DEF PlannerAssumption, Greater, Lesser
<1> QED
  BY <1>2, <1>3 DEF Fitting, n, d

LEMMA LimitsArePositive == MinMicroBatches .. MaxMicroBatches \subseteq Nat \ {0}
BY PlannerAssumption DEF PlannerAssumption

\* What the planner can work with.
PlannerInput(topology, telemetry, sizes) ==
  /\ topology.ranks \in [RankIds -> LocalTopologyRecord]
  /\ telemetry \in [RankIds -> RankTelemetry]
  /\ sizes \in [RankIds -> Nat \ {0}]

LEMMA CountsInLimits ==
  ASSUME NEW topology, NEW telemetry, NEW sizes, PlannerInput(topology, telemetry, sizes)
  PROVE  Counts(topology, telemetry, sizes) \in [RankIds -> MinMicroBatches .. MaxMicroBatches]
<1> SUFFICES ASSUME NEW r \in RankIds
             PROVE  MicroBatches(topology.ranks[r], telemetry[r], sizes[r])
                      \in MinMicroBatches .. MaxMicroBatches
  BY DEF Counts
<1>1. topology.ranks[r] \in LocalTopologyRecord /\ telemetry[r] \in RankTelemetry
      /\ sizes[r] \in Nat \ {0}
  BY DEF PlannerInput
<1>2. ComputeBudget(topology.ranks[r], telemetry[r]) \in Int
  BY <1>1, PlannerAssumption DEF PlannerAssumption, ComputeBudget, Greater, LocalTopologyRecord,
     RankTelemetry
<1>3. telemetry[r].rate \in Nat
  BY <1>1 DEF RankTelemetry
<1> QED
  BY <1>1, <1>2, <1>3, FittingInLimits DEF MicroBatches

\* Quotients are compared by cross multiplication: a < c follows from a < b < c.
LEMMA QuotientsCompare ==
  ASSUME NEW a \in Int, NEW b \in Int, NEW c \in Int,
         NEW p \in Nat \ {0}, NEW q \in Nat \ {0}, NEW s \in Nat \ {0},
         a * q <= b * p, b * s <= c * q
  PROVE  /\ a * s <= c * p
         /\ a * q # b * p \/ b * s # c * q => a * s # c * p
<1>1. \A x, y \in Int, n \in Nat \ {0} : x < y => x * n < y * n
  <2> SUFFICES ASSUME NEW x \in Int, NEW y \in Int, NEW n \in Nat \ {0}, x < y
               PROVE  x * n < y * n
    OBVIOUS
  <2>1. (x + (y - x)) * n = x * n + (y - x) * n
    BY Distributes
  <2>2. \A d \in Nat \ {0} : d * n \in Nat \ {0}
    OBVIOUS
  <2>3. x + (y - x) = y /\ (y - x) * n \in Nat \ {0} /\ x * n \in Int
    BY <2>2
  <2> QED
    BY <2>1, <2>3
<1>2. a * q \in Int /\ b * p \in Int /\ b * s \in Int /\ c * q \in Int
  OBVIOUS
<1>3. (a * q) * s <= (b * p) * s /\ (a * q # b * p => (a * q) * s # (b * p) * s)
  BY <1>1, <1>2
<1>4. (b * s) * p <= (c * q) * p /\ (b * s # c * q => (b * s) * p # (c * q) * p)
  BY <1>1, <1>2
<1>5. (b * p) * s = (b * s) * p /\ (a * q) * s = (a * s) * q /\ (c * q) * p = (c * p) * q
  OBVIOUS
<1>6. a * s \in Int /\ c * p \in Int /\ (a * s) * q \in Int /\ (c * p) * q \in Int
      /\ (b * p) * s \in Int
  OBVIOUS
<1>7. (a * s) * q <= (c * p) * q
      /\ (a * q # b * p \/ b * s # c * q => (a * s) * q # (c * p) * q)
  BY <1>3, <1>4, <1>5, <1>6
<1>8. a * s <= c * p
  BY <1>1, <1>6, <1>7
<1> QED
  BY <1>7, <1>8

\* The destination is one of the free ranks: there is always a first one.
LEMMA DestinationIsFree ==
  ASSUME NEW topology, NEW telemetry, NEW sizes, PlannerInput(topology, telemetry, sizes),
         NEW free \in SUBSET RankIds, free # {}, NEW load \in [RankIds -> Nat],
         NEW item \in WorkItem
  PROVE  Destination(topology, telemetry, free, load, item) \in free
<1> DEFINE finish(r) == WeightedFinish(topology.ranks[r], telemetry[r], load[r], item)
           rate(r) == telemetry[r].rate
           Sooner(r, s) == \/ finish(r) * rate(s) < finish(s) * rate(r)
                           \/ finish(r) * rate(s) = finish(s) * rate(r) /\ r < s
           Before == {p \in RankIds \X RankIds : Sooner(p[1], p[2])}
<1>1. \A r \in RankIds : finish(r) \in Int /\ rate(r) \in Nat \ {0}
  <2> SUFFICES ASSUME NEW r \in RankIds PROVE finish(r) \in Int /\ rate(r) \in Nat \ {0}
    OBVIOUS
  <2>1. /\ topology.ranks[r].distance \in Nat /\ telemetry[r].rate \in Nat \ {0}
        /\ load[r] \in Nat /\ item.cost \in Nat
    BY DEF PlannerInput, LocalTopologyRecord, RankTelemetry, WorkItem
  <2>2. \A x \in {0, RemotePenaltyMs} : topology.ranks[r].distance + 2 * x \in Int
    BY <2>1, PlannerAssumption DEF PlannerAssumption
  <2>3. \A x \in Int : telemetry[r].rate * x \in Int
    BY <2>1
  <2>4. 2000 * (load[r] + item.cost) \in Int
    BY <2>1
  <2> QED
    BY <2>1, <2>2, <2>3, <2>4, SMTT(30) DEF WeightedFinish
<1>2. \A r, s \in RankIds : <<r, s>> \in Before <=> Sooner(r, s)
  OBVIOUS
<1> HIDE DEF finish, rate
<1>3. \A r, s \in RankIds : r # s => Sooner(r, s) \/ Sooner(s, r)
  <2> SUFFICES ASSUME NEW r \in RankIds, NEW s \in RankIds, r # s
               PROVE  Sooner(r, s) \/ Sooner(s, r)
    OBVIOUS
  <2>1. finish(r) * rate(s) \in Int /\ finish(s) * rate(r) \in Int /\ r \in Int /\ s \in Int
    BY <1>1, RanksAreFinite
  <2> QED
    BY <2>1
<1>4. \A r, s, t \in RankIds : Sooner(r, s) /\ Sooner(s, t) => Sooner(r, t)
  <2> SUFFICES ASSUME NEW r \in RankIds, NEW s \in RankIds, NEW t \in RankIds,
                      Sooner(r, s), Sooner(s, t)
               PROVE  Sooner(r, t)
    OBVIOUS
  <2>1. /\ finish(r) \in Int /\ finish(s) \in Int /\ finish(t) \in Int
        /\ rate(r) \in Nat \ {0} /\ rate(s) \in Nat \ {0} /\ rate(t) \in Nat \ {0}
        /\ r \in Int /\ s \in Int /\ t \in Int
    BY <1>1, RanksAreFinite
  <2>2. /\ finish(r) * rate(s) \in Int /\ finish(s) * rate(r) \in Int
        /\ finish(s) * rate(t) \in Int /\ finish(t) * rate(s) \in Int
        /\ finish(r) * rate(t) \in Int /\ finish(t) * rate(r) \in Int
    BY <2>1
  <2>3. /\ finish(r) * rate(s) <= finish(s) * rate(r)
        /\ finish(s) * rate(t) <= finish(t) * rate(s)
    BY <2>2
  <2>4. /\ finish(r) * rate(t) <= finish(t) * rate(r)
        /\ finish(r) * rate(s) # finish(s) * rate(r) \/ finish(s) * rate(t) # finish(t) * rate(s)
             => finish(r) * rate(t) # finish(t) * rate(r)
    BY <2>1, <2>3, QuotientsCompare
  <2>5. CASE r < s /\ s < t
    BY <2>1, <2>2, <2>4, <2>5
  <2>6. CASE ~(r < s /\ s < t)
    BY <2>2, <2>4, <2>6
  <2> QED
    BY <2>5, <2>6
<1>5. \E r \in free : \A s \in free \ {r} : <<r, s>> \in Before
  <2> HIDE DEF Before, Sooner
  <2>1. \A r, s \in RankIds : r # s => <<r, s>> \in Before \/ <<s, r>> \in Before
    BY <1>2, <1>3, Zenon
  <2>2. \A r, s, t \in RankIds :
          <<r, s>> \in Before /\ <<s, t>> \in Before => <<r, t>> \in Before
    BY <1>2, <1>4
  <2>3. IsFiniteSet(RankIds)
    BY RanksAreFinite
  <2>4. ASSUME NEW T \in SUBSET RankIds, T # {}
        PROVE  \E x \in T : \A y \in T \ {x} : <<x, y>> \in Before
    BY <2>1, <2>2, <2>3, <2>4, FirstExists, SMTT(30)
  <2> QED
    BY <2>4
<1>6. PICK first \in free : \A s \in free \ {first} : Sooner(first, s)
  BY <1>2, <1>5
<1>7. Destination(topology, telemetry, free, load, item)
        = CHOOSE r \in free : \A s \in free \ {r} : Sooner(r, s)
  BY DEF Destination, finish, rate
<1> HIDE DEF Sooner
<1> QED
  BY <1>6, <1>7

WorkList(work) ==
  /\ work \subseteq WorkItem /\ IsFiniteSet(work)
  /\ \A i, j \in work : i.id = j.id => i = j

LEMMA LastItemIsOne ==
  ASSUME NEW work, WorkList(work), NEW items \in SUBSET work, items # {}
  PROVE  LastItem(items) \in items
<1> DEFINE After == {p \in work \X work : CostOrder(p[2], p[1])}
<1>1. \A i, j \in work : <<i, j>> \in After <=> CostOrder(j, i)
  OBVIOUS
<1>2. \A i \in work : i.cost \in Nat /\ i.id \in Nat
  BY DEF WorkList, WorkItem
<1>3. \A i, j \in work : i # j => CostOrder(i, j) \/ CostOrder(j, i)
  BY <1>2 DEF CostOrder, WorkList
<1>4. \A i, j, k \in work : CostOrder(i, j) /\ CostOrder(j, k) => CostOrder(i, k)
  BY <1>2 DEF CostOrder
<1> HIDE DEF After
<1>5. \E last \in items : \A i \in items \ {last} : <<last, i>> \in After
  <2>1. \A i, j \in work : i # j => <<i, j>> \in After \/ <<j, i>> \in After
    BY <1>1, <1>3
  <2>2. \A i, j, k \in work : <<i, j>> \in After /\ <<j, k>> \in After => <<i, k>> \in After
    BY <1>1, <1>4
  <2>3. IsFiniteSet(work)
    BY DEF WorkList
  <2> QED
    BY <2>1, <2>2, <2>3, FirstExists
<1>6. \E last \in items : \A i \in items \ {last} : CostOrder(i, last)
  BY <1>1, <1>5
<1> QED
  BY <1>6 DEF LastItem

Assignments == [RankIds -> [items : Seq(Nat), cost : Nat]]

LEMMA HandOutType ==
  ASSUME NEW topology, NEW telemetry, NEW counts, NEW item \in WorkItem,
         NEW assigned \in Assignments
  PROVE  HandOut(topology, telemetry, counts, item, assigned) \in Assignments
<1> DEFINE load == [r \in RankIds |-> assigned[r].cost]
           rank == Destination(topology, telemetry, FreeRanks(assigned, counts), load, item)
           next == [items |-> Append(assigned[rank].items, item.id),
                    cost |-> assigned[rank].cost + item.cost]
<1>1. HandOut(topology, telemetry, counts, item, assigned) = [assigned EXCEPT ![rank] = next]
  BY DEF HandOut
<1>2. rank \in RankIds => next \in [items : Seq(Nat), cost : Nat]
  <2>1. rank \in RankIds => assigned[rank].items \in Seq(Nat) /\ assigned[rank].cost \in Nat
    BY DEF Assignments
  <2>2. item.id \in Nat /\ item.cost \in Nat
    BY DEF WorkItem
  <2> HIDE DEF rank
  <2>3. rank \in RankIds => /\ Append(assigned[rank].items, item.id) \in Seq(Nat)
                            /\ assigned[rank].cost + item.cost \in Nat
    BY <2>1, <2>2
  <2> QED
    BY <2>3
<1> HIDE DEF rank, next
<1>3. [assigned EXCEPT ![rank] = next] \in Assignments
  BY <1>2 DEF Assignments
<1> QED
  BY <1>1, <1>3

\* The assignment of a work list hands out its items one by one, the last item last.
HandsOut(fold, topology, telemetry, counts, work) ==
  /\ fold \in [SUBSET work -> Assignments]
  /\ fold[{}] = NothingAssigned
  /\ \A T \in SUBSET work : T # {} =>
       fold[T] = HandOut(topology, telemetry, counts, LastItem(T), fold[T \ {LastItem(T)}])

LEMMA AssignmentIsFold ==
  ASSUME NEW topology, NEW telemetry, NEW counts, NEW work, WorkList(work)
  PROVE  \E fold : /\ HandsOut(fold, topology, telemetry, counts, work)
                   /\ AssignWork(topology, telemetry, counts, work) = fold[work]
<1> DEFINE Hand(i, a) == HandOut(topology, telemetry, counts, i, a)
           step == [p \in work \X Assignments |-> Hand(p[1], p[2])]
           pick == [T \in SUBSET work |-> LastItem(T)]
           Step(f, T) == IF T = {} THEN NothingAssigned
                         ELSE LET x == LastItem(T) IN Hand(x, f[T \ {x}])
           iter == CHOOSE f : f = [T \in SUBSET work |-> Step(f, T)]
<1>1. IsFiniteSet(work) /\ work \subseteq WorkItem
  BY DEF WorkList
<1>2. \A i \in work, a \in Assignments : Hand(i, a) \in Assignments
  BY <1>1, HandOutType
<1>3. NothingAssigned \in Assignments
  BY DEF NothingAssigned, Assignments
<1> HIDE DEF Hand
<1>4. step \in [work \X Assignments -> Assignments]
      /\ \A i \in work, a \in Assignments : step[<<i, a>>] = Hand(i, a)
  BY <1>2
<1>5. \A T \in SUBSET work : pick[T] = LastItem(T) /\ (T # {} => pick[T] \in T)
  BY LastItemIsOne
<1> HIDE DEF step, pick
<1>6. PICK fold \in [SUBSET work -> Assignments] : Folds(fold, work, NothingAssigned, step, pick)
  BY <1>1, <1>3, <1>4, <1>5, FoldExists
<1>7. ASSUME NEW T \in SUBSET work, T # {}
      PROVE  fold[T] = Hand(LastItem(T), fold[T \ {LastItem(T)}])
  <2>1. fold[T] = step[<<pick[T], fold[T \ {pick[T]}]>>]
    BY <1>6, <1>7 DEF Folds
  <2>2. pick[T] = LastItem(T) /\ LastItem(T) \in work
    BY <1>5, <1>7
  <2>3. fold[T \ {LastItem(T)}] \in Assignments
    BY <1>6
  <2> QED
    BY <1>4, <2>1, <2>2, <2>3
<1>8. fold[{}] = NothingAssigned
  BY <1>6 DEF Folds
<1>9. fold = [T \in SUBSET work |-> Step(fold, T)]
  <2>1. ASSUME NEW T \in SUBSET work PROVE fold[T] = Step(fold, T)
    BY <1>7, <1>8
  <2> HIDE DEF Step
  <2> QED
    BY <1>6, <2>1
<1>10. iter = [T \in SUBSET work |-> Step(iter, T)]
  BY <1>9
<1> HIDE DEF iter
<1> DEFINE G == {T \in SUBSET work : iter[T] = fold[T]}
<1>11. G = SUBSET work
  <2>1. {} \in G
    BY <1>9, <1>10
  <2>2. ASSUME NEW T \in SUBSET work, T # {}, \A x \in T : T \ {x} \in G PROVE T \in G
    <3>1. LastItem(T) \in T
      BY <2>2, LastItemIsOne
    <3>2. iter[T] = Step(iter, T) /\ fold[T] = Step(fold, T)
      BY <1>9, <1>10, <2>2
    <3>3. iter[T \ {LastItem(T)}] = fold[T \ {LastItem(T)}]
      BY <2>2, <3>1
    <3> QED
      BY <2>2, <3>2, <3>3
  <2>3. G \in SUBSET (SUBSET work)
    OBVIOUS
  <2> HIDE DEF G
  <2>4. \A T \in SUBSET work : T # {} /\ (\A x \in T : T \ {x} \in G) => T \in G
    BY <2>2
  <2>5. IsFiniteSet(work)
    BY <1>1
  <2> QED
    BY <2>1, <2>3, <2>4, <2>5, OneByOne, Zenon
<1>12. AssignWork(topology, telemetry, counts, work) = iter[work]
  BY DEF AssignWork, MapThenFoldSet, iter, Hand
<1>13. iter[work] = fold[work]
  BY <1>11
<1>14. HandsOut(fold, topology, telemetry, counts, work)
  BY <1>6, <1>7, <1>8 DEF HandsOut, Hand
<1> QED
  BY <1>12, <1>13, <1>14

\* What has been handed out of a work list: as many items to every rank as it has
\* slots at most, and each item once.
HandedOut(assigned, counts, items) ==
  /\ \A r \in RankIds : Len(assigned[r].items) <= counts[r]
  /\ UNION {ToSet(assigned[r].items) : r \in RankIds} = {i.id : i \in items}
  /\ SumOver([r \in RankIds |-> Len(assigned[r].items)]) = Cardinality(items)

LEMMA NothingHandedOut ==
  ASSUME NEW counts \in [RankIds -> Nat]
  PROVE  HandedOut(NothingAssigned, counts, {})
<1> DEFINE Z == [r \in RankIds |-> 0]
<1>1. \A r \in RankIds : NothingAssigned[r].items = <<>>
  BY DEF NothingAssigned
<1>2. [r \in RankIds |-> Len(NothingAssigned[r].items)] = Z
  BY <1>1
<1>3. \A r \in RankIds : ToSet(NothingAssigned[r].items) = {}
  BY <1>1 DEF ToSet
<1>4. UNION {ToSet(NothingAssigned[r].items) : r \in RankIds} = {}
  BY <1>3
<1>5. SumOver(Z) = 0
  BY SumOfZeros
<1>6. Cardinality({}) = 0
  BY FS_EmptySet
<1>7. \A r \in RankIds : Len(NothingAssigned[r].items) <= counts[r]
  BY <1>1
<1>8. SumOver([r \in RankIds |-> Len(NothingAssigned[r].items)]) = Cardinality({})
  BY <1>2, <1>5, <1>6
<1>9. {i.id : i \in {}} = {}
  OBVIOUS
<1> QED
  BY <1>4, <1>7, <1>8, <1>9 DEF HandedOut

\* As long as there are fewer items out than slots some rank is free.
LEMMA SomeRankIsFree ==
  ASSUME NEW counts \in [RankIds -> Nat], NEW assigned \in Assignments,
         SumOver([r \in RankIds |-> Len(assigned[r].items)]) < SumOver(counts)
  PROVE  FreeRanks(assigned, counts) # {}
<1> DEFINE L == [r \in RankIds |-> Len(assigned[r].items)]
<1>1. L \in [RankIds -> Nat]
  BY DEF Assignments
<1>2. SUFFICES ASSUME FreeRanks(assigned, counts) = {} PROVE FALSE
  OBVIOUS
<1>3. \A r \in RankIds : ~(L[r] < counts[r])
  BY <1>2 DEF FreeRanks
<1>4. \A r \in RankIds : counts[r] <= L[r]
  BY <1>1, <1>3
<1>5. L \in [RankIds -> Int] /\ counts \in [RankIds -> Int]
  BY <1>1
<1> HIDE DEF L
<1>6. SumOver(counts) \in Int /\ SumOver(counts) <= SumOver(L) /\ SumOver(L) \in Int
  BY <1>4, <1>5, SumsCompare
<1> QED
  BY <1>6 DEF L

LEMMA OneMoreHandedOut ==
  ASSUME NEW topology, NEW telemetry, NEW sizes, PlannerInput(topology, telemetry, sizes),
         NEW counts \in [RankIds -> Nat], NEW assigned \in Assignments,
         NEW items, IsFiniteSet(items), NEW item \in items, items \subseteq WorkItem,
         HandedOut(assigned, counts, items \ {item}), Cardinality(items) <= SumOver(counts)
  PROVE  HandedOut(HandOut(topology, telemetry, counts, item, assigned), counts, items)
<1> DEFINE load == [r \in RankIds |-> assigned[r].cost]
           rank == Destination(topology, telemetry, FreeRanks(assigned, counts), load, item)
           next == [items |-> Append(assigned[rank].items, item.id),
                    cost |-> assigned[rank].cost + item.cost]
           given == [assigned EXCEPT ![rank] = next]
           L == [r \in RankIds |-> Len(assigned[r].items)]
           M == [r \in RankIds |-> Len(given[r].items)]
<1>1. HandOut(topology, telemetry, counts, item, assigned) = given
  BY DEF HandOut
<1>2. Cardinality(items \ {item}) = Cardinality(items) - 1 /\ Cardinality(items) \in Nat
  BY FS_RemoveElement, FS_CardinalityType
<1>3. SumOver(counts) \in Int
  <2>1. counts \in [RankIds -> Int] /\ \A r \in RankIds : counts[r] <= counts[r]
    OBVIOUS
  <2> QED
    BY <2>1, SumsCompare
<1>4. SumOver(L) = Cardinality(items) - 1
  BY <1>2 DEF HandedOut
<1>5. rank \in FreeRanks(assigned, counts)
  <2>1. SumOver(L) < SumOver(counts)
    BY <1>2, <1>3, <1>4
  <2>2. FreeRanks(assigned, counts) # {}
    BY <2>1, SomeRankIsFree
  <2>3. FreeRanks(assigned, counts) \in SUBSET RankIds
    BY DEF FreeRanks
  <2>4. load \in [RankIds -> Nat] /\ item \in WorkItem
    BY DEF Assignments
  <2> HIDE DEF load
  <2> QED
    BY <2>2, <2>3, <2>4, DestinationIsFree
<1> HIDE DEF rank
<1>6. rank \in RankIds /\ Len(assigned[rank].items) < counts[rank]
  BY <1>5 DEF FreeRanks
<1>7. \A r \in RankIds : assigned[r].items \in Seq(Nat)
  BY DEF Assignments
<1>8. item.id \in Nat
  BY DEF WorkItem
<1>9. /\ given[rank].items = Append(assigned[rank].items, item.id)
      /\ \A r \in RankIds : r # rank => given[r] = assigned[r]
  BY <1>6 DEF Assignments
<1> HIDE DEF given
<1>10. /\ Len(given[rank].items) = Len(assigned[rank].items) + 1
       /\ ToSet(given[rank].items) = ToSet(assigned[rank].items) \cup {item.id}
  <2> DEFINE s == assigned[rank].items
  <2>1. s \in Seq(Nat)
    BY <1>6, <1>7
  <2> HIDE DEF s
  <2>2. /\ Len(Append(s, item.id)) = Len(s) + 1
        /\ ToSet(Append(s, item.id)) = ToSet(s) \cup {item.id}
    <3> DEFINE t == Append(s, item.id)
    <3>1. /\ Len(t) = Len(s) + 1 /\ Len(s) \in Nat
          /\ DOMAIN s = 1 .. Len(s) /\ DOMAIN t = 1 .. Len(s) + 1
          /\ t[Len(s) + 1] = item.id /\ \A i \in 1 .. Len(s) : t[i] = s[i]
      BY <1>8, <2>1
    <3> HIDE DEF t
    <3>2. ToSet(t) = {t[i] : i \in 1 .. Len(s) + 1} /\ ToSet(s) = {s[i] : i \in 1 .. Len(s)}
      BY <3>1 DEF ToSet
    <3>3. 1 .. Len(s) + 1 = (1 .. Len(s)) \cup {Len(s) + 1}
      BY <3>1
    <3>4. ToSet(t) = ToSet(s) \cup {item.id}
      BY <3>1, <3>2, <3>3
    <3> QED
      BY <3>1, <3>4 DEF t
  <2> QED
    BY <1>9, <2>2, SMTT(30) DEF s
<1>11. \A r \in RankIds : Len(given[r].items) <= counts[r]
  <2> SUFFICES ASSUME NEW r \in RankIds PROVE Len(given[r].items) <= counts[r]
    OBVIOUS
  <2>1. Len(assigned[r].items) \in Nat /\ counts[r] \in Nat
        /\ Len(assigned[r].items) <= counts[r]
    BY <1>7 DEF HandedOut
  <2> QED
    BY <1>6, <1>9, <1>10, <2>1
<1>12. UNION {ToSet(given[r].items) : r \in RankIds} = {i.id : i \in items}
  <2>1. UNION {ToSet(assigned[r].items) : r \in RankIds} = {i.id : i \in items \ {item}}
    BY DEF HandedOut
  <2>2. \A r \in RankIds : r # rank => ToSet(given[r].items) = ToSet(assigned[r].items)
    BY <1>9
  <2>3. UNION {ToSet(given[r].items) : r \in RankIds}
          = (UNION {ToSet(assigned[r].items) : r \in RankIds}) \cup {item.id}
    BY <1>6, <1>10, <2>2
  <2>4. {i.id : i \in items} = {i.id : i \in items \ {item}} \cup {item.id}
    OBVIOUS
  <2> QED
    BY <2>1, <2>3, <2>4
<1>13. SumOver(M) = SumOver(L) + 1
  <2>1. L \in [RankIds -> Int] /\ M \in [RankIds -> Int]
    BY <1>6, <1>7, <1>9, <1>10
  <2>2. M[rank] = L[rank] + 1 /\ \A r \in RankIds \ {rank} : L[r] = M[r]
    BY <1>6, <1>9, <1>10
  <2> HIDE DEF L, M
  <2>3. PICK l : Sums(l, L, RankIds) /\ SumOver(L) = l[RankIds]
    BY <2>1, SumOverRanks
  <2>4. PICK m : Sums(m, M, RankIds) /\ SumOver(M) = m[RankIds]
    BY <2>1, SumOverRanks
  <2>5. /\ IsFiniteSet(RankIds) /\ rank \in RankIds
        /\ Sums(l, L, RankIds) /\ Sums(m, M, RankIds)
    BY <1>6, <2>3, <2>4, RanksAreFinite
  <2>6. m[RankIds] = l[RankIds] + 1
    BY <2>1, <2>2, <2>5, SumGrows, SMTT(30)
  <2> QED
    BY <2>3, <2>4, <2>6
<1>14. SumOver(M) = Cardinality(items)
  BY <1>2, <1>4, <1>13
<1> QED
  BY <1>1, <1>11, <1>12, <1>14 DEF HandedOut

\* Every item is handed out once, and the ranks get as many as they have slots.
LEMMA WorkIsHandedOut ==
  ASSUME NEW topology, NEW telemetry, NEW sizes, PlannerInput(topology, telemetry, sizes),
         NEW counts \in [RankIds -> Nat], NEW work, WorkList(work),
         Cardinality(work) = SumOver(counts)
  PROVE  LET assigned == AssignWork(topology, telemetry, counts, work)
         IN  /\ HandedOut(assigned, counts, work)
             /\ \A r \in RankIds : Len(assigned[r].items) = counts[r]
<1>1. IsFiniteSet(work) /\ work \subseteq WorkItem
  BY DEF WorkList
<1>2. PICK fold : /\ HandsOut(fold, topology, telemetry, counts, work)
                  /\ AssignWork(topology, telemetry, counts, work) = fold[work]
  BY AssignmentIsFold
<1> DEFINE G == {T \in SUBSET work : HandedOut(fold[T], counts, T)}
<1>3. {} \in G /\ G \in SUBSET (SUBSET work)
  BY <1>2, NothingHandedOut DEF HandsOut
<1>4. ASSUME NEW T \in SUBSET work, T # {}, \A x \in T : T \ {x} \in G PROVE T \in G
  <2> DEFINE x == LastItem(T)
             rest == fold[T \ {x}]
  <2>1. x \in T
    BY <1>4, LastItemIsOne
  <2>2. rest \in Assignments /\ HandedOut(rest, counts, T \ {x})
    BY <1>2, <1>4, <2>1 DEF HandsOut
  <2>3. IsFiniteSet(T) /\ T \subseteq WorkItem
    BY <1>1, FS_Subset
  <2>4. Cardinality(T) <= SumOver(counts)
    BY <1>1, FS_Subset
  <2>5. fold[T] = HandOut(topology, telemetry, counts, x, rest)
    BY <1>2, <1>4 DEF HandsOut
  <2> HIDE DEF x, rest
  <2>6. HandedOut(HandOut(topology, telemetry, counts, x, rest), counts, T)
    BY <2>1, <2>2, <2>3, <2>4, OneMoreHandedOut
  <2> QED
    BY <2>5, <2>6
<1> HIDE DEF G
<1>5. G = SUBSET work
  <2>1. IsFiniteSet(work)
    BY <1>1
  <2>2. \A T \in SUBSET work : T # {} /\ (\A x \in T : T \ {x} \in G) => T \in G
    BY <1>4
  <2> QED
    BY <1>3, <2>1, <2>2, OneByOne, Zenon
<1> DEFINE assigned == fold[work]
           L == [r \in RankIds |-> Len(assigned[r].items)]
<1>6. HandedOut(assigned, counts, work) /\ assigned \in Assignments
  BY <1>2, <1>5 DEF G, HandsOut
<1>7. L \in [RankIds -> Int] /\ counts \in [RankIds -> Int]
  BY <1>6 DEF Assignments
<1>8. \A r \in RankIds : L[r] <= counts[r]
  BY <1>6 DEF HandedOut
<1>9. SumOver(L) = SumOver(counts)
  BY <1>6 DEF HandedOut
<1> HIDE DEF L, assigned
<1>10. L = counts
  BY <1>7, <1>8, <1>9, SumsCompare
<1>11. \A r \in RankIds : Len(assigned[r].items) = counts[r]
  BY <1>10 DEF L
<1> QED
  BY <1>2, <1>6, <1>11 DEF assigned

\* What both planners' plans have, whatever the items are.
LEMMA PlanOfIsSound ==
  ASSUME NEW number \in Nat \ {0}, NEW m, NEW work, NEW counts \in [RankIds -> Nat \ {0}],
         NEW sizes \in [RankIds -> Nat \ {0}], NEW items,
         NEW made, made = PlanOf(number, m, work, counts, sizes, items)
  PROVE  /\ ValidPlanStructure(made)
         /\ made.manifest = m /\ made.work = work
         /\ \A r \in RankIds : /\ made.ranks[r].micro_batches = counts[r]
                               /\ made.ranks[r].items = items[r]
<1> DEFINE total == SumOver([r \in RankIds |-> counts[r] * sizes[r]])
           mine(r) == RankPlan(counts[r], sizes[r], total, items[r])
<1>1. [r \in RankIds |-> counts[r] * sizes[r]] \in [RankIds -> Nat \ {0}]
  <2>1. \A a, b \in Nat \ {0} : a * b \in Nat \ {0}
    OBVIOUS
  <2> QED
    BY <2>1
<1>2. total \in Nat \ {0}
  BY <1>1, SumOfPositive
<1>3. made = [version |-> number, manifest |-> m, work |-> work, world |-> WorldSize,
              samples |-> total, ranks |-> [r \in RankIds |-> mine(r)]]
  BY DEF PlanOf
<1>4. \A r \in RankIds :
        /\ mine(r).micro_batches = counts[r] /\ mine(r).size = sizes[r]
        /\ mine(r).samples = counts[r] * sizes[r]
        /\ mine(r).scale[1] = WorldSize /\ mine(r).scale[2] = total
        /\ mine(r).items = items[r]
  BY DEF RankPlan
<1>5. [r \in RankIds |-> mine(r).samples] = [r \in RankIds |-> counts[r] * sizes[r]]
  BY <1>4
<1>6. SumOver([r \in RankIds |-> mine(r).samples]) = total
  BY <1>5
<1> HIDE DEF mine, total
<1>7. /\ made.version = number /\ made.manifest = m /\ made.work = work
      /\ made.world = WorldSize /\ made.samples = total
      /\ made.ranks = [r \in RankIds |-> mine(r)]
  BY <1>3
<1>8. [r \in RankIds |-> made.ranks[r].samples] = [r \in RankIds |-> mine(r).samples]
  BY <1>7
<1>9. DOMAIN made.ranks = RankIds /\ \A r \in RankIds : made.ranks[r] = mine(r)
  BY <1>7
<1>10. ValidPlanStructure(made)
  <2>1. made.version >= 1 /\ made.samples > 0
    BY <1>2, <1>7
  <2>2. \A r \in RankIds :
          /\ made.ranks[r].micro_batches >= 1 /\ made.ranks[r].size >= 1
          /\ made.ranks[r].samples = made.ranks[r].micro_batches * made.ranks[r].size
          /\ made.ranks[r].scale[1] * made.samples = made.world * made.ranks[r].scale[2]
    <3> SUFFICES ASSUME NEW r \in RankIds
                 PROVE  /\ counts[r] >= 1 /\ sizes[r] >= 1
                        /\ WorldSize * total = WorldSize * total
      BY <1>4, <1>7, <1>9
    <3> QED
      OBVIOUS
  <2>3. made.samples = SumOver([r \in RankIds |-> made.ranks[r].samples])
    BY <1>6, <1>7, <1>8
  <2> QED
    BY <1>7, <1>9, <2>1, <2>2, <2>3 DEF ValidPlanStructure
<1> QED
  BY <1>4, <1>7, <1>9, <1>10

\* Where plan() of the planner with a topology does not raise, the plan is valid.
LEMMA MadePlanIsValid ==
  ASSUME NEW number \in Nat \ {0}, NEW topology, NEW telemetry, NEW sizes \in [RankIds -> Nat],
         topology.ranks \in [RankIds -> LocalTopologyRecord],
         telemetry \in [RankIds -> RankTelemetry],
         NEW work, WorkList(work), Plannable(topology, telemetry, sizes, work)
  PROVE  ValidUpdatePlan(MakePlan(number, topology, telemetry, sizes, work), topology, work)
<1> DEFINE counts == Counts(topology, telemetry, sizes)
           assigned == AssignWork(topology, telemetry, counts, work)
           items == [r \in RankIds |-> assigned[r].items]
           made == PlanOf(number, topology, work, counts, sizes, items)
<1>1. sizes \in [RankIds -> Nat \ {0}] /\ Cardinality(work) = SumOver(counts)
  BY DEF Plannable
<1>2. PlannerInput(topology, telemetry, sizes)
  BY <1>1 DEF PlannerInput
<1>3. counts \in [RankIds -> Nat \ {0}] /\ counts \in [RankIds -> Nat]
  BY <1>2, CountsInLimits, LimitsArePositive
<1> HIDE DEF counts
<1>4. /\ HandedOut(assigned, counts, work)
      /\ \A r \in RankIds : Len(assigned[r].items) = counts[r]
  BY <1>1, <1>2, <1>3, WorkIsHandedOut
<1> HIDE DEF assigned
<1>5. \A r \in RankIds : items[r] = assigned[r].items
  OBVIOUS
<1> HIDE DEF items
<1> HIDE DEF made
<1>6. /\ ValidPlanStructure(made) /\ made.manifest = topology /\ made.work = work
      /\ \A r \in RankIds : /\ made.ranks[r].micro_batches = counts[r]
                            /\ made.ranks[r].items = assigned[r].items
  <2>1. made = PlanOf(number, topology, work, counts, sizes, items)
    BY DEF made
  <2>2. /\ ValidPlanStructure(made) /\ made.manifest = topology /\ made.work = work
        /\ \A r \in RankIds : /\ made.ranks[r].micro_batches = counts[r]
                              /\ made.ranks[r].items = items[r]
    BY <1>1, <1>3, <2>1, PlanOfIsSound
  <2> QED
    BY <1>5, <2>2
<1>7. PartitionsWork(made)
  <2>1. Cardinality({i.id : i \in work}) = Cardinality(work)
    <3> DEFINE idOf == [i \in work |-> i.id]
    <3>1. idOf \in Bijection(work, {i.id : i \in work})
      BY DEF WorkList, Bijection, Injection, Surjection, IsInjective
    <3> QED
      BY <3>1, FS_Bijection DEF WorkList, ExistsBijection
  <2>2. [r \in RankIds |-> Len(made.ranks[r].items)] = [r \in RankIds |-> Len(assigned[r].items)]
    BY <1>6
  <2>3. {ToSet(made.ranks[r].items) : r \in RankIds} = {ToSet(assigned[r].items) : r \in RankIds}
    BY <1>6
  <2> QED
    BY <1>4, <1>6, <2>1, <2>2, <2>3 DEF PartitionsWork, HandedOut
<1>8. \A r \in RankIds : Len(made.ranks[r].items) = made.ranks[r].micro_batches
  BY <1>4, <1>6
<1>9. ValidUpdatePlan(made, topology, work)
  BY <1>6, <1>7, <1>8 DEF ValidUpdatePlan, ValidPlanStructure
<1>10. MakePlan(number, topology, telemetry, sizes, work) = made
  BY DEF MakePlan, made, items, assigned, counts
<1> QED
  BY <1>9, <1>10

\* So it is for the planner without one.
LEMMA MadeDynamicPlanIsValid ==
  ASSUME NEW number \in Nat \ {0}, NEW telemetry \in [RankIds -> RankTelemetry],
         NEW sizes \in [RankIds -> Nat], DynamicPlannable(telemetry, sizes)
  PROVE  ValidPlanStructure(MakeDynamicPlan(number, telemetry, sizes))
<1> DEFINE counts == [r \in RankIds |-> Fitting(telemetry[r].rate, TargetMs, sizes[r])]
           items == [r \in RankIds |-> <<>>]
<1>1. sizes \in [RankIds -> Nat \ {0}]
  BY DEF DynamicPlannable
<1>2. counts \in [RankIds -> Nat \ {0}]
  <2> SUFFICES ASSUME NEW r \in RankIds
               PROVE  Fitting(telemetry[r].rate, TargetMs, sizes[r]) \in Nat \ {0}
    OBVIOUS
  <2>1. telemetry[r].rate \in Nat /\ TargetMs \in Int /\ sizes[r] \in Nat \ {0}
    BY <1>1, PlannerAssumption DEF RankTelemetry, PlannerAssumption
  <2> QED
    BY <2>1, FittingInLimits, LimitsArePositive
<1> HIDE DEF counts, items
<1>3. ValidPlanStructure(PlanOf(number, None, {}, counts, sizes, items))
  BY <1>1, <1>2, PlanOfIsSound
<1> QED
  BY <1>3 DEF MakeDynamicPlan, counts, items

-----------------------------------------------------------------------------
(***************************************************************************)
(* What rank 0 plans with.                                                 *)
(***************************************************************************)

\* A rank that is in an update has been given its telemetry and its work.
InUpdate(r) ==
  Alive(r) /\ place[r] \notin {"restore", "check"} /\ ~Computing(r, "topology")

Given(r) ==
  /\ local[r].telemetry \in Telemetries
  /\ planner = "topology" => local[r].work \in WorkLists

\* From the manifest to the plan rank 0 holds the topology that it gathered.
HoldsTopology ==
  /\ planner = "topology"
  /\ \/ status[0] = "waiting" /\ place[0] = "manifest"
     \/ Alive(0) /\ place[0] \in {"manifest_digest", "telemetry", "plan"}

InputInv ==
  /\ version \in Nat
  /\ DOMAIN local = RankIds /\ \A r \in RankIds : InUpdate(r) => Given(r)
  /\ HoldsTopology => manifest[0].ranks = Topology
  /\ Computing(0, "plan") => reported[0] \in [RankIds -> RankTelemetry]

\* A step of a rank that gets it nothing new.
LEMMA NothingNewKeepsInput ==
  ASSUME ControlInv, InputInv, NEW r \in RankIds, NEW p,
         UNCHANGED <<planner, local, manifest, reported>>, version' \in {version, version + 1},
         \/ Raise(r)
         \/ status[r] = "computing" /\ GoOn(r, "topology")
         \/ UNCHANGED <<place, status>>
         \/ /\ status[r] = "computing" /\ place[r] \notin {"restore", "check", "topology"}
            /\ p \notin {"topology", "manifest"}
            /\ p \in {"manifest_digest", "telemetry", "plan"} => place[r] = p
            /\ GoOn(r, p) \/ Enter(r, p)
  PROVE  InputInv'
<1>0. DOMAIN place = RankIds /\ DOMAIN status = RankIds
  BY DEF ControlInv, ControlTypes
<1>1. \A s \in RankIds : s # r => place'[s] = place[s] /\ status'[s] = status[s]
  BY <1>0 DEF Raise, GoOn, Enter
<1>2. \/ status'[r] = "failed"
      \/ status'[r] = "computing" /\ place'[r] = "topology"
      \/ status'[r] = status[r] /\ place'[r] = place[r]
      \/ /\ status[r] = "computing" /\ place[r] \notin {"restore", "check", "topology"}
         /\ p \notin {"topology", "manifest"} /\ place'[r] = p
         /\ p \in {"manifest_digest", "telemetry", "plan"} => place[r] = p
  BY <1>0 DEF Raise, GoOn, Enter
<1>3. version' \in Nat
  BY DEF InputInv
<1>4. ASSUME NEW s \in RankIds, InUpdate(s)' PROVE Given(s)'
  <2>1. CASE s = r
    BY <1>2, <1>4, <2>1 DEF InUpdate, InputInv, Given, Alive, Computing
  <2>2. CASE s # r
    BY <1>1, <1>4, <2>2 DEF InUpdate, InputInv, Given, Alive, Computing
  <2> QED
    BY <2>1, <2>2
<1>5. HoldsTopology' => HoldsTopology
  BY <1>1, <1>2, RankZero DEF HoldsTopology, Alive
<1>6. Computing(0, "plan")' => Computing(0, "plan")
  BY <1>1, <1>2, RankZero DEF Computing
<1> QED
  BY <1>3, <1>4, <1>5, <1>6 DEF InputInv

\* Every rank's step.
LEMMA RankKeepsInput ==
  ASSUME MeanInv, InputInv, NEW r \in RankIds, RankNext(r)
  PROVE  InputInv'
<1>0. /\ ControlInv /\ DOMAIN place = RankIds /\ DOMAIN status = RankIds
      /\ DOMAIN local = RankIds /\ DOMAIN manifest = RankIds
  BY DEF MeanInv, ControlInv, ControlTypes
<1>1. /\ RankFrame(r)
      /\ \A s \in RankIds : s # r => place'[s] = place[s] /\ status'[s] = status[s]
  BY <1>0, RankKeepsFrame, RankKeepsControl DEF Advances
<1>2. ASSUME NEW p, UNCHANGED Group, UNCHANGED planner,
             \/ Raise(r)
             \/ status[r] = "computing" /\ GoOn(r, "topology")
             \/ /\ status[r] = "computing" /\ place[r] \notin {"restore", "check", "topology"}
                /\ p \notin {"topology", "manifest"}
                /\ p \in {"manifest_digest", "telemetry", "plan"} => place[r] = p
                /\ Enter(r, p)
      PROVE  InputInv'
  BY <1>0, <1>2, NothingNewKeepsInput DEF Group
<1>3. ASSUME NEW mode \in Modes, NEW scaler \in BOOLEAN, NEW target \in BOOLEAN,
             Restore(r, mode, scaler, target)
      PROVE  InputInv'
  BY <1>2, <1>3 DEF Restore, Computing
<1>4. ASSUME Given(r)', status'[r] = "waiting", place'[r] \in {"topology", "telemetry"},
             place'[r] = "telemetry" => planner = "dynamic",
             UNCHANGED <<planner, manifest, reported, version>>
      PROVE  InputInv'
  <2>1. ASSUME NEW s \in RankIds, InUpdate(s)' PROVE Given(s)'
    BY <1>1, <1>4, <2>1 DEF InputInv, InUpdate, Given, Alive, Computing, RankFrame
  <2>2. HoldsTopology' => HoldsTopology
    BY <1>1, <1>4, RankZero DEF HoldsTopology, Alive
  <2>3. Computing(0, "plan")' => Computing(0, "plan")
    BY <1>1, <1>4, RankZero DEF Computing
  <2> QED
    BY <1>1, <1>4, <2>1, <2>2, <2>3 DEF InputInv, RankFrame
<1>5. ASSUME NEW telemetry \in Telemetries, NEW work \in WorkLists,
             EnterTopology(r, telemetry, work)
      PROVE  InputInv'
  <2> DEFINE own == [telemetry |-> telemetry, work |-> work]
  <2>1. local' = [local EXCEPT ![r] = own] /\ own.telemetry = telemetry /\ own.work = work
    BY <1>5 DEF EnterTopology
  <2> HIDE DEF own
  <2>2. Given(r)'
    BY <1>0, <2>1 DEF Given
  <2>3. status'[r] = "waiting" /\ place'[r] = "topology"
        /\ UNCHANGED <<planner, manifest, reported, version>>
    BY <1>0, <1>5 DEF EnterTopology, Enter, Training
  <2> QED
    BY <1>4, <2>2, <2>3
<1>6. ASSUME NEW telemetry \in Telemetries, EnterWithoutTopology(r, telemetry)
      PROVE  InputInv'
  <2> DEFINE own == [telemetry |-> telemetry, work |-> {}]
  <2>1. local' = [local EXCEPT ![r] = own] /\ own.telemetry = telemetry
    BY <1>6 DEF EnterWithoutTopology
  <2> HIDE DEF own
  <2>2. status'[r] = "waiting" /\ place'[r] = "telemetry" /\ planner = "dynamic"
        /\ UNCHANGED <<planner, manifest, reported, version>>
    BY <1>0, <1>6 DEF EnterWithoutTopology, Enter, Training
  <2>3. Given(r)'
    BY <1>0, <2>1, <2>2 DEF Given
  <2> QED
    BY <1>4, <2>2, <2>3
<1>7. CASE EnterManifest(r)
  <2> DEFINE new == [epoch |-> epochs[0], ranks |-> Topology]
  <2>1. manifest' = (IF r = 0 THEN [manifest EXCEPT ![0] = new] ELSE manifest)
        /\ new.ranks = Topology
    BY <1>7 DEF EnterManifest
  <2> HIDE DEF new
  <2>2. /\ status[r] = "computing" /\ place[r] = "manifest"
        /\ status'[r] = "waiting" /\ place'[r] = "manifest"
        /\ UNCHANGED <<planner, local, reported, version>>
    BY <1>0, <1>7 DEF EnterManifest, Enter, Training, Computing
  <2>3. ASSUME NEW s \in RankIds, InUpdate(s)' PROVE Given(s)'
    BY <1>1, <2>2, <2>3 DEF InputInv, InUpdate, Given, Alive, Computing
  <2>4. HoldsTopology' => manifest'[0].ranks = Topology
    BY <1>0, <1>1, <2>1, <2>2, RankZero DEF InputInv, HoldsTopology, Alive
  <2>5. Computing(0, "plan")' => Computing(0, "plan")
    BY <1>1, <2>2, RankZero DEF Computing
  <2> QED
    BY <2>2, <2>3, <2>4, <2>5 DEF InputInv
<1>8. CASE EnterManifestDigest(r)
  BY <1>2, <1>8 DEF EnterManifestDigest, EnterIf, Training, Computing
<1>9. CASE EnterTelemetry(r)
  BY <1>2, <1>9 DEF EnterTelemetry, EnterIf, Training, Computing
<1>10. CASE EnterPlanDigest(r)
  BY <1>2, <1>10 DEF EnterPlanDigest, EnterIf, Training, Computing
<1>11. CASE EnterDynamicPlanDigest(r)
  BY <1>2, <1>11 DEF EnterDynamicPlanDigest, EnterIf, Training, Computing
<1>12. ASSUME NEW plannable, NEW planned, NEW valid, EnterPlanAs(r, plannable, planned, valid)
       PROVE  InputInv'
  <2>1. /\ Computing(r, "plan") /\ (Enter(r, "plan") \/ Raise(r))
        /\ UNCHANGED <<planner, local, manifest, reported>>
        /\ version' \in {version, version + 1}
    BY <1>12 DEF EnterPlanAs, EnterIf, Training
  <2> QED
    BY <1>0, <2>1, NothingNewKeepsInput DEF Computing
<1>13. CASE EnterPlan(r)
  BY <1>12, <1>13 DEF EnterPlan
<1>14. CASE EnterDynamicPlan(r)
  BY <1>12, <1>14 DEF EnterDynamicPlan
<1>15. CASE BeginUpdate(r)
  <2>1. /\ Computing(r, "begin") /\ (GoOn(r, "micro_batches") \/ Raise(r))
        /\ UNCHANGED <<planner, local, manifest, reported, version>>
    BY <1>15 DEF BeginUpdate, Training
  <2> QED
    BY <1>0, <2>1, NothingNewKeepsInput DEF Computing
<1>16. ASSUME NEW samples \in 0 .. BatchSize[r], MicroBatch(r, samples)
       PROVE  InputInv'
  <2>1. /\ Computing(r, "micro_batches")
        /\ Enter(r, "gradients") \/ Raise(r) \/ UNCHANGED <<place, status>>
        /\ UNCHANGED <<planner, local, manifest, reported, version>>
    BY <1>16 DEF MicroBatch, Training
  <2> QED
    BY <1>0, <2>1, NothingNewKeepsInput DEF Computing
<1>17. CASE StepOptimizer(r)
  BY <1>2, <1>17 DEF StepOptimizer, Computing
<1>18. CASE FinishUpdate(r)
  BY <1>2, <1>18 DEF FinishUpdate, Training, Computing
<1>19. CASE Lose(r)
  BY <1>2, <1>19 DEF Lose, Training
<1> QED
  BY <1>3, <1>5, <1>6, <1>7, <1>8, <1>9, <1>10, <1>11, <1>13, <1>14, <1>15, <1>16, <1>17, <1>18,
     <1>19 DEF RankNext

LEMMA StepKeepsInput ==
  ASSUME MeanInv, InputInv, [UpdateNext]_updateVars
  PROVE  InputInv'
<1>0. ControlInv /\ DOMAIN local = RankIds /\ DOMAIN status = RankIds
      /\ planner \in {"topology", "dynamic"}
  BY DEF MeanInv, ControlInv, ControlTypes
<1>1. ASSUME UNCHANGED <<planner, place, status, local, manifest, reported, version>>
      PROVE  InputInv'
  BY <1>1 DEF InputInv, InUpdate, Given, HoldsTopology, Alive, Computing
<1>2. ASSUME NEW p, Release(Everywhere(p)), NEW r \in RankIds
      PROVE  place'[r] = p /\ status'[r] = "computing"
  BY <1>2 DEF Release, Everywhere
\* A collective is over that tells the ranks nothing of what is planned with.
<1>3. ASSUME NEW p, Release(Everywhere(p)), UNCHANGED <<planner, local, version>>,
             p # "plan", \A r \in RankIds : InUpdate(r),
             planner = "topology" /\ p \in {"manifest_digest", "telemetry"} =>
               HoldsTopology /\ manifest'[0] = manifest[0]
      PROVE  InputInv'
  <2>1. ASSUME NEW r \in RankIds PROVE Given(r)'
    BY <1>3 DEF InputInv, Given
  <2>2. HoldsTopology' => manifest'[0].ranks = Topology
    BY <1>2, <1>3, RankZero DEF InputInv, HoldsTopology, Alive
  <2>3. ~Computing(0, "plan")'
    BY <1>2, <1>3, RankZero DEF Computing
  <2> QED
    BY <1>3, <2>1, <2>2, <2>3 DEF InputInv
<1>4. ASSUME NEW c, AllWaitIn(c), c \notin {"restore", "check"}, NEW r \in RankIds
      PROVE  InUpdate(r)
  BY <1>4 DEF AllWaitIn, InUpdate, Alive, Computing
<1>5. CASE GatherTopology
  BY <1>3, <1>4, <1>5 DEF GatherTopology, Training
<1>6. CASE GatherTelemetry
  <2>1. /\ AllWaitIn("telemetry") /\ Release(Everywhere("plan"))
        /\ reported' = Everywhere([s \in RankIds |-> local[s].telemetry])
        /\ UNCHANGED <<planner, local, manifest, version>>
    BY <1>6 DEF GatherTelemetry, Training
  <2>2. \A r \in RankIds : Given(r) /\ Given(r)'
    BY <1>4, <2>1 DEF InputInv, Given
  <2>3. [s \in RankIds |-> local[s].telemetry] \in [RankIds -> RankTelemetry]
    BY <2>2, UpdateAssumption DEF Given, UpdateAssumption
  <2>4. reported'[0] \in [RankIds -> RankTelemetry]
    BY <2>1, <2>3, RankZero DEF Everywhere
  <2>5. planner = "topology" => manifest'[0].ranks = Topology
    BY <2>1, RankZero DEF AllWaitIn, InputInv, HoldsTopology, Alive
  <2> QED
    BY <2>1, <2>2, <2>4, <2>5 DEF InputInv, HoldsTopology
<1>7. CASE Gather("manifest_digest", "telemetry")
  BY <1>3, <1>4, <1>7, RankZero DEF Gather, AllWaitIn, HoldsTopology, Alive, Group, Training
<1>8. CASE Gather("plan_digest", "begin") \/ Gather("count", "check")
  BY <1>3, <1>4, <1>8 DEF Gather, Group, Training
<1>9. ASSUME NEW damaged \in SUBSET (RankIds \ {0}), BroadcastManifest(damaged)
      PROVE  InputInv'
  <2> DEFINE sent(r) == IF r \in damaged THEN [manifest[0] EXCEPT !.ranks[0].floor_ms = @ + 1]
                                         ELSE manifest[0]
  <2>1. manifest' = [r \in RankIds |-> sent(r)]
    BY <1>9, Zenon DEF BroadcastManifest
  <2>2. manifest'[0] = manifest[0]
    <3>1. sent(0) = manifest[0]
      BY <1>9
    <3> HIDE DEF sent
    <3> QED
      BY <2>1, <3>1, RankZero
  <2> QED
    BY <1>3, <1>4, <1>9, <2>2, RankZero DEF BroadcastManifest, AllWaitIn, HoldsTopology, Training
<1>10. ASSUME NEW damaged \in SUBSET (RankIds \ {0}), BroadcastPlan(damaged)
       PROVE  InputInv'
  BY <1>3, <1>4, <1>10 DEF BroadcastPlan, Training
<1>11. CASE ReduceGradients
  <2>1. Release(Everywhere("optimizer"))
    BY <1>0, <1>11, GradientsReleaseAll
  <2> QED
    BY <1>3, <1>4, <1>11, <2>1 DEF ReduceGradients, Training
<1>12. ASSUME NEW late \in SUBSET RankIds, Rendezvous(late)
       PROVE  InputInv'
  <2>1. /\ \A r \in RankIds : place'[r] = "restore" /\ status'[r] = "computing"
        /\ version' = 0 /\ DOMAIN local' = RankIds
    BY <1>12 DEF Rendezvous, Everywhere
  <2> QED
    BY <2>1, RankZero DEF InputInv, InUpdate, HoldsTopology, Alive, Computing
<1>13. CASE Snapshot
  BY <1>1, <1>13 DEF Snapshot, Group
<1>14. CASE UNCHANGED updateVars
  BY <1>1, <1>14 DEF updateVars
<1> QED
  BY <1>5, <1>6, <1>7, <1>8, <1>9, <1>10, <1>11, <1>12, <1>13, <1>14, RankKeepsInput
  DEF UpdateNext

LEMMA InitInput == UpdateInit => InputInv
<1> SUFFICES ASSUME UpdateInit PROVE InputInv
  OBVIOUS
<1>1. /\ \A r \in RankIds : place[r] = "topology" /\ status[r] = "computing"
      /\ DOMAIN local = RankIds /\ version = 0
  BY DEF UpdateInit, Everywhere
<1> QED
  BY <1>1, RankZero DEF InputInv, InUpdate, HoldsTopology, Computing

\* The inductive invariant of what rank 0 plans with.
THEOREM InputsCorrect == UpdateSpec => []InputInv
<1>1. UpdateInit => InputInv
  BY InitInput
<1>2. MeanInv /\ InputInv /\ [UpdateNext]_updateVars => InputInv'
  BY StepKeepsInput
<1> QED
  BY <1>1, <1>2, MeanInvCorrect, PTL DEF UpdateSpec

\* Where a planner can plan, rank 0 does not refuse its own plan: each work item
\* is handed out exactly once, a rank gets as many as it has micro-batches, and
\* samples and loss scales add up, for every number of ranks, every telemetry,
\* topology and list of work, and all limits of micro-batches.
THEOREM PlansCorrect == UpdateSpec => []PlansAreValid
<1>1. ASSUME ControlTypes, InputInv PROVE PlansAreValid
  <2> SUFFICES ASSUME Computing(0, "plan") PROVE PlansAreValid
    BY DEF PlansAreValid
  <2>1. /\ reported[0] \in [RankIds -> RankTelemetry] /\ version + 1 \in Nat \ {0}
        /\ BatchSize \in [RankIds -> Nat]
    BY <1>1, UpdateAssumption DEF InputInv, UpdateAssumption
  <2>2. CASE planner = "topology"
    <3>1. Given(0) /\ manifest[0].ranks = Topology
      BY <1>1, <2>2, RankZero DEF InputInv, InUpdate, HoldsTopology, Alive, Computing
    <3>2. manifest[0].ranks \in [RankIds -> LocalTopologyRecord]
      BY <3>1, UpdateAssumption DEF UpdateAssumption
    <3>3. WorkList(local[0].work)
      BY <2>2, <3>1, UpdateAssumption DEF Given, UpdateAssumption, WorkList
    <3>4. Plannable(manifest[0], reported[0], BatchSize, local[0].work) =>
            ValidUpdatePlan(MakePlan(version + 1, manifest[0], reported[0], BatchSize,
                                     local[0].work),
                            manifest[0], local[0].work)
      BY <2>1, <3>2, <3>3, MadePlanIsValid
    <3> QED
      BY <2>2, <3>4 DEF PlansAreValid
  <2>3. CASE planner # "topology"
    <3>1. DynamicPlannable(reported[0], BatchSize) =>
            ValidPlanStructure(MakeDynamicPlan(version + 1, reported[0], BatchSize))
      BY <2>1, MadeDynamicPlanIsValid
    <3> QED
      BY <2>3, <3>1 DEF PlansAreValid
  <2> QED
    BY <2>2, <2>3
<1>2. MeanInv => ControlTypes
  BY DEF MeanInv, ControlInv
<1> QED
  BY <1>1, <1>2, MeanInvCorrect, InputsCorrect, PTL
=============================================================================
