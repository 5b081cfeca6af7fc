------------------------- MODULE DistributedUpdate -------------------------
(***************************************************************************)
(* The ranks of one process group performing synchronous updates: gather   *)
(* topology and telemetry, let rank 0 plan, broadcast and verify the plan, *)
(* run the local micro-batches, reduce the gradients, step.  A trainer     *)
(* whose planner knows no topology starts with the telemetry.              *)
(*                                                                         *)
(* A rank computes until it enters a collective, and then waits in it.  A  *)
(* collective completes for all ranks in one step when all are in it: what *)
(* a rank does with the result is a step of its own.  A rank that raises   *)
(* enters nothing any more, and the others time out.  When all are gone    *)
(* the group is rebuilt from the last snapshot.                            *)
(***************************************************************************)
EXTENDS UpdatePlans

CONSTANTS Topology,        \* rank -> its local topology record
          BatchSize,       \* rank -> its micro-batch size
          Telemetries, WorkLists,
          Modes,           \* precision modes: a subset of {"bf16", "fp16", "fp8"}
          MaxSteps, MaxRestarts

ASSUME UpdateAssumption ==
  /\ Topology \in [RankIds -> LocalTopologyRecord]
  /\ BatchSize \in [RankIds -> Nat]
  /\ Telemetries \subseteq RankTelemetry
  /\ \A work \in WorkLists :
       /\ work \subseteq WorkItem /\ IsFiniteSet(work)
       /\ \A i, j \in work : i.id = j.id => i = j

VARIABLES planner,    \* the planner of the trainer: "topology" or "dynamic"
          place,      \* rank -> the collective it prepares or waits in
          status,     \* rank -> "computing", "waiting", "failed"
          local,      \* rank -> what it contributes to the current update
          manifest,   \* rank -> the topology manifest it received
          reported,   \* rank -> the telemetry of all ranks it received
          plan,       \* rank -> the plan it received
          version,    \* TopologyAwarePlanner.version on rank 0
          seen,       \* rank -> micro-batches and samples of this update so far
          reduced,    \* what the last gradient reduction averaged
          state,      \* rank -> part of the training state -> its version
          saved,      \* the last snapshot
          restarts, epochs  \* the group's restart count; what each rank sees

updateVars == <<planner, place, status, local, manifest, reported, plan, version, seen,
                reduced, state, saved, restarts, epochs>>

Group == <<local, manifest, reported, plan, version, seen, reduced>>
Training == <<planner, state, saved, restarts, epochs>>

Nothing == [batches |-> 0, samples |-> 0]

Collectives == {"topology", "manifest", "manifest_digest", "telemetry", "plan",
                "plan_digest", "gradients", "count"}
Places == Collectives \cup {"restore", "begin", "micro_batches", "optimizer", "check"}

Parts == {"model", "ema", "optimizer", "scaler", "fp8_metadata", "rng_cpu"}

\* The parts of the training state that a precision mode has.
PartsOf(mode) ==
  Parts \ ((IF mode = "fp16" THEN {} ELSE {"scaler"})
           \cup (IF mode = "fp8" THEN {} ELSE {"fp8_metadata"}))

Fresh == [part \in Parts |-> 0]

Computing(r, p) == status[r] = "computing" /\ place[r] = p

\* The rank raises: it stays where it is and enters no collective any more.
Raise(r) == status' = [status EXCEPT ![r] = "failed"] /\ UNCHANGED place

\* The rank enters a collective, there to wait for the others.
Enter(r, c) ==
  /\ place' = [place EXCEPT ![r] = c]
  /\ status' = [status EXCEPT ![r] = "waiting"]

EnterIf(r, c, condition) == IF condition THEN Enter(r, c) ELSE Raise(r)

GoOn(r, p) == place' = [place EXCEPT ![r] = p] /\ UNCHANGED status

-----------------------------------------------------------------------------
(* Starting again from a snapshot: mixed_precision_elastic_recovery.py. *)

\* snapshot_committed_precision_state on rank 0, between two updates.
Snapshot ==
  /\ Computing(0, "topology")
  /\ saved' = [saved EXCEPT !.parts = state[0]]
  /\ UNCHANGED <<planner, place, status, state, restarts, epochs>> /\ UNCHANGED Group

\* restore_and_verify: a rank set up for another mode raises before it loads
\* anything, one with a wrong scaler or FP8 target after loading the rest.
\* (A restore that leaves a rank with another contract as it is.)
RestoreSkippedOnMismatch(r, mode, scaler, target) ==
  /\ Computing(r, "restore")
  /\ GoOn(r, "topology")
  /\ state' = [state EXCEPT ![r] = IF mode = saved.mode THEN saved.parts ELSE @]
  /\ UNCHANGED <<planner, saved, restarts, epochs>> /\ UNCHANGED Group

Restore(r, mode, scaler, target) ==
  LET matches == mode = saved.mode
      complete == scaler = (saved.mode = "fp16") /\ target = (saved.mode = "fp8")
      loaded == IF complete THEN PartsOf(saved.mode) ELSE {"model", "ema", "optimizer"}
  IN  /\ Computing(r, "restore")
      /\ IF matches /\ complete THEN GoOn(r, "topology") ELSE Raise(r)
      /\ state' = [state EXCEPT ![r] = IF matches
           THEN [part \in Parts |-> IF part \in loaded THEN saved.parts[part] ELSE @[part]]
           ELSE @]
      /\ UNCHANGED <<planner, saved, restarts, epochs>> /\ UNCHANGED Group

-----------------------------------------------------------------------------
(* One update, as a rank runs it. *)

\* The inputs of the update: own topology, telemetry and work list.
EnterTopology(r, telemetry, work) ==
  /\ planner = "topology" /\ Computing(r, "topology")
  /\ state[r]["model"] < MaxSteps
  /\ local' = [local EXCEPT ![r] = [telemetry |-> telemetry, work |-> work]]
  /\ Enter(r, "topology")
  /\ UNCHANGED <<manifest, reported, plan, version, seen, reduced>>
  /\ UNCHANGED Training

\* next_update_plan, without a topology and without work items.
EnterWithoutTopology(r, telemetry) ==
  /\ planner = "dynamic" /\ Computing(r, "topology")
  /\ state[r]["model"] < MaxSteps
  /\ local' = [local EXCEPT ![r] = [telemetry |-> telemetry, work |-> {}]]
  /\ Enter(r, "telemetry")
  /\ UNCHANGED <<manifest, reported, plan, version, seen, reduced>>
  /\ UNCHANGED Training

\* gather_topology_manifest: rank 0 builds the manifest, with the epoch of its
\* own process, and the others wait for it.
EnterManifest(r) ==
  /\ Computing(r, "manifest")
  /\ Enter(r, "manifest")
  /\ manifest' = IF r = 0 THEN [manifest EXCEPT ![0] = [epoch |-> epochs[0], ranks |-> Topology]]
                          ELSE manifest
  /\ UNCHANGED <<local, reported, plan, version, seen, reduced>>
  /\ UNCHANGED Training

\* The epoch of the manifest must be the one of the rank's own process.
CurrentEpoch(r) == manifest[r].epoch = epochs[r]

\* (A rank 0 that leaves the comparison of its own bytes to the others.)
EnterManifestDigestExceptRoot(r) ==
  /\ Computing(r, "manifest_digest")
  /\ EnterIf(r, IF r = 0 THEN "telemetry" ELSE "manifest_digest", CurrentEpoch(r))
  /\ UNCHANGED Group /\ UNCHANGED Training

EnterManifestDigest(r) ==
  /\ Computing(r, "manifest_digest")
  /\ EnterIf(r, "manifest_digest", CurrentEpoch(r))
  /\ UNCHANGED Group /\ UNCHANGED Training

\* _assert_identical_bytes and _verify_plan_consensus on what was received.
SameBytes(received) == \A r, s \in RankIds : received[r] = received[s]

EnterTelemetry(r) ==
  /\ Computing(r, "telemetry")
  /\ EnterIf(r, "telemetry", SameBytes(manifest))
  /\ UNCHANGED Group /\ UNCHANGED Training

\* Rank 0 plans, where its planner does not raise, and validates the result;
\* the others wait for the broadcast.
EnterPlanAs(r, plannable, planned, valid) ==
  /\ Computing(r, "plan")
  /\ \/ r # 0 /\ Enter(r, "plan") /\ UNCHANGED <<plan, version>>
     \/ /\ r = 0 /\ plannable
        /\ version' = version + 1
        /\ plan' = [plan EXCEPT ![r] = planned]
        /\ EnterIf(r, "plan", valid)
     \/ r = 0 /\ ~plannable /\ Raise(r) /\ UNCHANGED <<plan, version>>
  /\ UNCHANGED <<local, manifest, reported, seen, reduced>>
  /\ UNCHANGED Training

\* topology_aware_next_plan
EnterPlan(r) ==
  LET work == local[r].work
      planned == MakePlan(version + 1, manifest[r], reported[r], BatchSize, work)
  IN  /\ planner = "topology"
      /\ EnterPlanAs(r, Plannable(manifest[r], reported[r], BatchSize, work),
                     planned, ValidUpdatePlan(planned, manifest[r], work))

\* next_update_plan, and the check before the broadcast
EnterDynamicPlan(r) ==
  LET planned == MakeDynamicPlan(version + 1, reported[r], BatchSize)
  IN  /\ planner = "dynamic"
      /\ EnterPlanAs(r, DynamicPlannable(reported[r], BatchSize), planned,
                     ValidPlanStructure(planned))

\* What a rank accepts.  (A rank that does not look at its own work list.)
AcceptsAnyWork(r) == ValidUpdatePlan(plan[r], manifest[r], plan[r].work)
Accepts(r) == ValidUpdatePlan(plan[r], manifest[r], local[r].work)

EnterPlanDigest(r) ==
  /\ planner = "topology" /\ Computing(r, "plan_digest")
  /\ EnterIf(r, "plan_digest", Accepts(r))
  /\ UNCHANGED Group /\ UNCHANGED Training

\* broadcast_update_plan: what arrived is parsed before digests are compared.
EnterDynamicPlanDigest(r) ==
  /\ planner = "dynamic" /\ Computing(r, "plan_digest")
  /\ EnterIf(r, "plan_digest", ValidPlanStructure(plan[r]))
  /\ UNCHANGED Group /\ UNCHANGED Training

\* acvjepa_dynamic_update, after the digests of the plan agree: zero_grad.
BeginUpdate(r) ==
  /\ Computing(r, "begin")
  /\ IF SameBytes(plan) /\ ValidPlanStructure(plan[r])
       THEN GoOn(r, "micro_batches") ELSE Raise(r)
  /\ seen' = [seen EXCEPT ![r] = Nothing]
  /\ UNCHANGED <<local, manifest, reported, plan, version, reduced>>
  /\ UNCHANGED Training

\* Only the last local micro-batch synchronises, the others run under no_sync.
Synchronises(r, batches) == batches = plan[r].ranks[r].micro_batches

\* The stream must give the planned number of samples.  (It gives any.)
PlannedSizeIgnored(r, samples) == samples > 0
PlannedSize(r, samples) == samples = plan[r].ranks[r].size

\* One micro-batch: the stream gives some samples, or it is exhausted.
MicroBatch(r, samples) ==
  LET batches == seen[r].batches + 1
  IN  /\ Computing(r, "micro_batches")
      /\ \/ /\ PlannedSize(r, samples)
            /\ seen' = [seen EXCEPT ![r] = [batches |-> batches, samples |-> @.samples + samples]]
            /\ IF Synchronises(r, batches) THEN Enter(r, "gradients")
                                           ELSE UNCHANGED <<place, status>>
         \/ ~PlannedSize(r, samples) /\ Raise(r) /\ UNCHANGED seen
      /\ UNCHANGED <<local, manifest, reported, plan, version, reduced>>
      /\ UNCHANGED Training

\* The loop is over: unscale, clip, scaler.step, scaler.update and
\* update_ema_target, and on to the diagnostic reduction.
StepOptimizer(r) ==
  /\ Computing(r, "optimizer")
  /\ IF seen[r].samples = plan[r].ranks[r].samples
       THEN /\ state' = [state EXCEPT ![r] = [part \in Parts |->
                           IF part \in PartsOf(saved.mode) THEN @[part] + 1 ELSE @[part]]]
            /\ Enter(r, "count")
       ELSE Raise(r) /\ UNCHANGED state
  /\ UNCHANGED <<planner, saved, restarts, epochs>> /\ UNCHANGED Group

\* All samples of all ranks must add up to the plan's.
FinishUpdate(r) ==
  /\ Computing(r, "check")
  /\ IF SumOver([s \in RankIds |-> seen[s].samples]) = plan[r].samples
       THEN GoOn(r, "topology") ELSE Raise(r)
  /\ UNCHANGED Group /\ UNCHANGED Training

-----------------------------------------------------------------------------
(* The process group. *)

AllWaitIn(c) == \A r \in RankIds : status[r] = "waiting" /\ place[r] = c

\* The collective is over: every rank computes again, at its next place.
Release(next) ==
  /\ place' = [r \in RankIds |-> next[r]]
  /\ status' = [r \in RankIds |-> "computing"]

Everywhere(p) == [r \in RankIds |-> p]

\* The first collective of an update has its result: every rank has left the
\* last update, and so have its local variables.
LeaveLastUpdate ==
  plan' = Everywhere(None) /\ seen' = Everywhere(Nothing) /\ reduced' = None

GatherTopology ==
  /\ AllWaitIn("topology") /\ Release(Everywhere("manifest"))
  /\ manifest' = Everywhere(None) /\ reported' = Everywhere(None)
  /\ LeaveLastUpdate
  /\ UNCHANGED <<local, version>> /\ UNCHANGED Training

GatherTelemetry ==
  /\ AllWaitIn("telemetry") /\ Release(Everywhere("plan"))
  /\ reported' = Everywhere([s \in RankIds |-> local[s].telemetry])
  /\ LeaveLastUpdate
  /\ UNCHANGED <<local, manifest, version>> /\ UNCHANGED Training

\* The other gathers; the ranks compute with the result when they go on.
Gather(c, next) ==
  /\ AllWaitIn(c) /\ Release(Everywhere(next))
  /\ UNCHANGED Group /\ UNCHANGED Training

\* A broadcast from rank 0; to the ranks in "damaged" something else arrives,
\* well-formed but of another version.
BroadcastManifest(damaged) ==
  /\ AllWaitIn("manifest") /\ Release(Everywhere("manifest_digest"))
  /\ manifest' = [r \in RankIds |-> IF r \in damaged
       THEN [manifest[0] EXCEPT !.ranks[0].floor_ms = @ + 1] ELSE manifest[0]]
  /\ UNCHANGED <<local, reported, plan, version, seen, reduced>> /\ UNCHANGED Training

BroadcastPlan(damaged) ==
  /\ AllWaitIn("plan") /\ Release(Everywhere("plan_digest"))
  /\ plan' = [r \in RankIds |-> IF r \in damaged
       THEN [plan[0] EXCEPT !.version = @ + 1] ELSE plan[0]]
  /\ UNCHANGED <<local, manifest, reported, version, seen, reduced>> /\ UNCHANGED Training

\* The gradients of all ranks are averaged: each weighs its samples by its scale.
ReduceGradients ==
  /\ AllWaitIn("gradients")
  /\ reduced' = [r \in RankIds |-> [samples |-> seen[r].samples,
                                     scale |-> plan[r].ranks[r].scale]]
  /\ Release([r \in RankIds |-> IF seen[r].batches = plan[r].ranks[r].micro_batches
                                 THEN "optimizer" ELSE "micro_batches"])
  /\ UNCHANGED <<local, manifest, reported, plan, version, seen>> /\ UNCHANGED Training

\* A node is lost; or a rank that waits for one that never comes times out.
Lose(r) ==
  /\ status[r] # "failed"
  /\ Raise(r)
  /\ UNCHANGED Group /\ UNCHANGED Training

\* torchrun starts a new group when the old one is gone.  A process may be left
\* with the restart count of the old group.
Rendezvous(late) ==
  /\ \A r \in RankIds : status[r] = "failed"
  /\ restarts < MaxRestarts
  /\ restarts' = restarts + 1
  /\ epochs' = [r \in RankIds |-> IF r \in late THEN restarts ELSE restarts + 1]
  /\ place' = Everywhere("restore") /\ status' = Everywhere("computing")
  /\ state' = Everywhere(Fresh)
  /\ local' = Everywhere(None) /\ manifest' = Everywhere(None)
  /\ reported' = Everywhere(None) /\ plan' = Everywhere(None)
  /\ version' = 0 /\ seen' = Everywhere(Nothing) /\ reduced' = None
  /\ UNCHANGED <<planner, saved>>

-----------------------------------------------------------------------------
UpdateInit ==
  /\ planner \in {"topology", "dynamic"}
  /\ place = Everywhere("topology") /\ status = Everywhere("computing")
  /\ local = Everywhere(None) /\ manifest = Everywhere(None)
  /\ reported = Everywhere(None) /\ plan = Everywhere(None)
  /\ version = 0 /\ seen = Everywhere(Nothing) /\ reduced = None
  /\ state = Everywhere(Fresh)
  /\ saved \in [mode : Modes, parts : {Fresh}]
  /\ restarts = 0 /\ epochs = Everywhere(0)

RankNext(r) ==
  \/ \E mode \in Modes, scaler, target \in BOOLEAN : Restore(r, mode, scaler, target)
  \/ \E telemetry \in Telemetries, work \in WorkLists : EnterTopology(r, telemetry, work)
  \/ \E telemetry \in Telemetries : EnterWithoutTopology(r, telemetry)
  \/ EnterManifest(r) \/ EnterManifestDigest(r) \/ EnterTelemetry(r)
  \/ EnterPlan(r) \/ EnterDynamicPlan(r)
  \/ EnterPlanDigest(r) \/ EnterDynamicPlanDigest(r) \/ BeginUpdate(r)
  \/ \E samples \in 0 .. BatchSize[r] : MicroBatch(r, samples)
  \/ StepOptimizer(r) \/ FinishUpdate(r)
  \/ Lose(r)

UpdateNext ==
  \/ \E r \in RankIds : RankNext(r)
  \/ Snapshot
  \/ GatherTopology \/ Gather("manifest_digest", "telemetry")
  \/ GatherTelemetry \/ Gather("plan_digest", "begin")
  \/ Gather("count", "check")
  \/ \E damaged \in SUBSET (RankIds \ {0}) :
       BroadcastManifest(damaged) \/ BroadcastPlan(damaged)
  \/ ReduceGradients
  \/ \E late \in SUBSET RankIds : Rendezvous(late)

UpdateSpec == UpdateInit /\ [][UpdateNext]_updateVars

-----------------------------------------------------------------------------
(* Properties. *)

\* What the ranks hold has its type, in particular every plan the fields that
\* the update loop reads.
UpdateTypeOK ==
  /\ place \in [RankIds -> Places]
  /\ status \in [RankIds -> {"computing", "waiting", "failed"}]
  /\ \A r \in RankIds : status[r] = "waiting" => place[r] \in Collectives
  /\ planner \in {"topology", "dynamic"} /\ version \in Nat /\ restarts \in 0 .. MaxRestarts
  /\ epochs \in [RankIds -> 0 .. restarts]
  /\ state \in [RankIds -> [Parts -> 0 .. MaxSteps]]
  /\ saved \in [mode : Modes, parts : [Parts -> 0 .. MaxSteps]]
  /\ \A r \in RankIds :
       /\ manifest[r] = None \/ manifest[r] \in TopologyManifest
       /\ reported[r] = None \/ reported[r] \in [RankIds -> RankTelemetry]
       /\ plan[r] = None \/ plan[r] \in UpdatePlan
       /\ plan[r] # None => seen[r].batches \in 0 .. plan[r].ranks[r].micro_batches

\* However many micro-batches the plan gives to each rank, ranks that wait, wait
\* in the same collective: each has exactly one synchronised backward per
\* update, and no check makes a rank skip a collective that others enter.
CollectivesMatch ==
  \A r, s \in RankIds :
    status[r] = "waiting" /\ status[s] = "waiting" => place[r] = place[s]

Updating(r) ==
  status[r] # "failed" /\ place[r] \in {"micro_batches", "gradients", "optimizer", "count"}

\* Ranks that compute gradients do so under one plan, for the work that each of
\* them was itself given, and, where the plan names the epoch of the topology,
\* belong to one incarnation of the group.
OnePlan ==
  \A r, s \in RankIds : Updating(r) /\ Updating(s) =>
    /\ plan[r] = plan[s]
    /\ plan[r].work = local[s].work
    /\ planner = "topology" => epochs[r] = epochs[s]

\* A gradient that a rank applies is the mean over all samples of the update:
\* every rank has put in exactly its planned share, equally weighted.
GlobalMean ==
  \A r \in RankIds : Computing(r, "optimizer") =>
    /\ \A s, q \in RankIds : reduced[s].scale = reduced[q].scale
    /\ \A s \in RankIds : reduced[s].samples = plan[r].ranks[s].samples
    /\ reduced[r].scale[1] * SumOver([s \in RankIds |-> reduced[s].samples])
         = WorldSize * reduced[r].scale[2]

\* Replicas that are about to reduce gradients have the same training state in
\* all its parts, whatever snapshot they were restored from and however often
\* the group was rebuilt.
ReplicasAgree ==
  \A r, s \in RankIds :
    status[r] # "failed" /\ status[s] # "failed"
      /\ place[r] = "gradients" /\ place[s] = "gradients" => state[r] = state[s]

\* Where a planner can plan, its plan passes the validation: the caps and the
\* greedy choice hand out each work item exactly once.
PlansAreValid ==
  Computing(0, "plan") =>
    IF planner = "topology"
      THEN Plannable(manifest[0], reported[0], BatchSize, local[0].work) =>
             ValidUpdatePlan(MakePlan(version + 1, manifest[0], reported[0], BatchSize,
                                      local[0].work),
                             manifest[0], local[0].work)
      ELSE DynamicPlannable(reported[0], BatchSize) =>
             ValidPlanStructure(MakeDynamicPlan(version + 1, reported[0], BatchSize))
=============================================================================
