---------------------------- MODULE UpdatePlans ----------------------------
(***************************************************************************)
(* The UpdatePlan of one synchronous optimizer update: how the planner of  *)
(* topology_aware_update_plan.py computes it from a topology manifest, the *)
(* ranks' telemetry and the work items, how the one that knows no topology *)
(* (adaptive_ddp_accumulation.py) does, and what a rank accepts.  Times    *)
(* are milliseconds and rates samples per second, in integers; quotients   *)
(* are compared by cross multiplication.  Ids are ordered numbers.         *)
(***************************************************************************)
EXTENDS Integers, FiniteSets, Sequences, SequencesExt, FiniteSetsExt

CONSTANTS WorldSize,
          TargetMs, JitterMs, RemotePenaltyMs,  \* TopologyAwarePlanner.__init__
          MinMicroBatches, MaxMicroBatches

ASSUME PlannerAssumption ==
  /\ WorldSize \in Nat \ {0}
  /\ TargetMs \in Nat \ {0} /\ JitterMs \in Int /\ RemotePenaltyMs \in Int
  /\ MinMicroBatches \in Nat \ {0} /\ MaxMicroBatches \in Nat
  /\ MinMicroBatches <= MaxMicroBatches

RankIds == 0 .. WorldSize - 1

None == [none |-> TRUE]

Greater(a, b) == IF a > b THEN a ELSE b
Lesser(a, b) == IF a < b THEN a ELSE b

SumOver(f) == MapThenSumSet(LAMBDA r : f[r], DOMAIN f)

-----------------------------------------------------------------------------
(* The records, as far as their validate() methods accept them. *)

LocalTopologyRecord == [node : STRING, distance : Nat, floor_ms : Nat]

TopologyManifest == [epoch : Nat, ranks : [RankIds -> LocalTopologyRecord]]

RankTelemetry ==
  [rate : Nat \ {0}, data_ms : Nat, allreduce_ms : Nat, healthy : BOOLEAN]

\* "source" stands for the provenance hash; a work list has one item per id.
WorkItem == [id : Nat, cost : Nat \ {0}, preferred : SUBSET STRING, source : STRING]

RankUpdatePlan ==
  [micro_batches : MinMicroBatches .. MaxMicroBatches, size : Nat, samples : Nat,
   scale : Nat \X (Nat \ {0}), items : Seq(Nat)]

UpdatePlan ==
  [version : Nat, manifest : TopologyManifest \cup {None}, work : SUBSET WorkItem,
   world : {WorldSize}, samples : Nat, ranks : [RankIds -> RankUpdatePlan]]

-----------------------------------------------------------------------------
(* The planner. *)

\* What is left of the target for computing, after data, network and jitter.
ComputeBudget(topology, telemetry) ==
  TargetMs - (telemetry.data_ms
              + Greater(telemetry.allreduce_ms, topology.floor_ms)
              + JitterMs)

\* Python's round: a half goes to the even neighbour.
RoundQuotient(n, d) ==
  LET q == n \div d
      rest == 2 * (n % d)
  IN  IF rest < d \/ (rest = d /\ q % 2 = 0) THEN q ELSE q + 1

\* How many micro-batches fit into the time, within the limits.
Fitting(rate, time, size) ==
  Greater(MinMicroBatches, Lesser(MaxMicroBatches, RoundQuotient(rate * time, 1000 * size)))

MicroBatches(topology, telemetry, size) ==
  Fitting(telemetry.rate, ComputeBudget(topology, telemetry), size)

\* A manifest, the telemetry and the batch sizes are functions of the rank.
Counts(manifest, telemetry, sizes) ==
  [r \in RankIds |-> MicroBatches(manifest.ranks[r], telemetry[r], sizes[r])]

\* The conditions under which plan() does not raise.
Plannable(manifest, telemetry, sizes, work) ==
  /\ \A r \in RankIds : /\ telemetry[r].healthy
                        /\ sizes[r] > 0
                        /\ ComputeBudget(manifest.ranks[r], telemetry[r]) > 0
  /\ Cardinality(work) = SumOver(Counts(manifest, telemetry, sizes))

\* The order in which work is handed out and run: expensive items first.
CostOrder(i, j) == i.cost > j.cost \/ (i.cost = j.cost /\ i.id < j.id)

\* Twice the rank's rate times the estimated finish of an item on it, the
\* distance penalty being half a millisecond per hop.
WeightedFinish(topology, telemetry, load, item) ==
  2000 * (load + item.cost)
  + telemetry.rate * (topology.distance
                      + 2 * (IF item.preferred = {} \/ topology.node \in item.preferred
                             THEN 0 ELSE RemotePenaltyMs))

\* The free rank that is estimated to finish the item first, ties to the lower.
Destination(manifest, telemetry, free, load, item) ==
  LET finish(r) == WeightedFinish(manifest.ranks[r], telemetry[r], load[r], item)
      rate(r) == telemetry[r].rate
  IN  CHOOSE r \in free : \A s \in free \ {r} :
        \/ finish(r) * rate(s) < finish(s) * rate(r)
        \/ finish(r) * rate(s) = finish(s) * rate(r) /\ r < s

\* Ranks that still have a slot.  (A planner that forgets the caps.)
FreeRanksUncapped(assigned, counts) == RankIds
FreeRanks(assigned, counts) ==
  {r \in RankIds : Len(assigned[r].items) < counts[r]}

\* One item goes to its destination, after the items that are there already.
HandOut(manifest, telemetry, counts, item, assigned) ==
  LET load == [r \in RankIds |-> assigned[r].cost]
      rank == Destination(manifest, telemetry, FreeRanks(assigned, counts), load, item)
  IN  [assigned EXCEPT ![rank] = [items |-> Append(@.items, item.id),
                                  cost |-> @.cost + item.cost]]

NothingAssigned == [r \in RankIds |-> [items |-> <<>>, cost |-> 0]]

\* All but the last item are handed out before it.
LastItem(items) == CHOOSE last \in items : \A i \in items \ {last} : CostOrder(i, last)

AssignWork(manifest, telemetry, counts, work) ==
  MapThenFoldSet(LAMBDA item, assigned : HandOut(manifest, telemetry, counts, item, assigned),
                 NothingAssigned, LAMBDA item : item, LastItem, work)

\* The loss scale is the pair <<world size, global samples>>, a quotient.
RankPlan(count, size, total, items) ==
  [micro_batches |-> count, size |-> size, samples |-> count * size,
   scale |-> <<WorldSize, total>>, items |-> items]

PlanOf(version, manifest, work, counts, sizes, items) ==
  LET total == SumOver([r \in RankIds |-> counts[r] * sizes[r]])
  IN  [version |-> version, manifest |-> manifest, work |-> work,
       world |-> WorldSize, samples |-> total,
       ranks |-> [r \in RankIds |-> RankPlan(counts[r], sizes[r], total, items[r])]]

MakePlan(version, manifest, telemetry, sizes, work) ==
  LET counts == Counts(manifest, telemetry, sizes)
      assigned == AssignWork(manifest, telemetry, counts, work)
  IN  PlanOf(version, manifest, work, counts, sizes, [r \in RankIds |-> assigned[r].items])

-----------------------------------------------------------------------------
(* The planner without topology: DynamicAccumulationPlanner. *)

\* A plan is for the healthy ranks, and refused if that is not all of them.
DynamicPlannable(telemetry, sizes) ==
  {r \in RankIds : telemetry[r].healthy} = DOMAIN sizes /\ \A r \in RankIds : sizes[r] > 0

MakeDynamicPlan(version, telemetry, sizes) ==
  LET counts == [r \in RankIds |-> Fitting(telemetry[r].rate, TargetMs, sizes[r])]
  IN  PlanOf(version, None, {}, counts, sizes, [r \in RankIds |-> <<>>])

-----------------------------------------------------------------------------
(* The acceptance of a plan by a rank. *)

\* Every work item is on exactly one rank, and nothing else is.
PartitionsWork(plan) ==
  LET ids == {i.id : i \in plan.work}
      share(r) == ToSet(plan.ranks[r].items)
  IN  /\ UNION {share(r) : r \in RankIds} = ids
      /\ SumOver([r \in RankIds |-> Len(plan.ranks[r].items)]) = Cardinality(ids)

\* validate_update_plan
ValidUpdatePlan(plan, manifest, work) ==
  /\ plan.world = WorldSize
  /\ plan.manifest = manifest
  /\ plan.work = work
  /\ plan.version >= 1 /\ plan.samples > 0
  /\ PartitionsWork(plan)
  /\ plan.samples = SumOver([r \in RankIds |-> plan.ranks[r].samples])
  /\ \A r \in RankIds :
       LET mine == plan.ranks[r]
       IN  /\ mine.micro_batches >= 1 /\ Len(mine.items) = mine.micro_batches
           /\ mine.samples = mine.micro_batches * mine.size
           /\ mine.scale[1] * plan.samples = plan.world * mine.scale[2]

\* validate_plan_structure, on the plan that as_legacy_ddp_plan makes of it.
ValidPlanStructure(plan) ==
  /\ plan.version >= 1 /\ plan.world = WorldSize
  /\ DOMAIN plan.ranks = RankIds
  /\ plan.samples = SumOver([r \in RankIds |-> plan.ranks[r].samples]) /\ plan.samples > 0
  /\ \A r \in RankIds :
       LET mine == plan.ranks[r]
       IN  /\ mine.micro_batches >= 1 /\ mine.size >= 1
           /\ mine.samples = mine.micro_batches * mine.size
           /\ mine.scale[1] * plan.samples = plan.world * mine.scale[2]
=============================================================================
