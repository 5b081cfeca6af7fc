----------------------------- MODULE MCTraining -----------------------------
(***************************************************************************)
(* What surrounds a training group.  The parts share no state, so a        *)
(* behaviour is one of any.                                                *)
(*   DistributedUpdate: two ranks on two nodes, as in the smoke test of    *)
(*   the planners: the fast one takes two micro-batches, the slow one one, *)
(*   and neither planner can plan for one that is not healthy.             *)
(*   CheckpointCache: two checkpoints, of two shards and of the second of  *)
(*   these, published by two publishers while two readers restore.         *)
(*   DdpTrainer: two ranks, two epochs of one or three batches.            *)
(*   IncrementalRun: two ranks that generate a job each, and launch the    *)
(*   release once more; what the second launch writes fails the quality    *)
(*   gate.  The orchestrator is killed once and trains twice at most.      *)
(*   Ranks that raise or are lost are in MCData.                           *)
(*   CursorLedger: the plans of MCCursorLedger.  Nothing names an attempt  *)
(*   id or a hash, so new ids are drawn in their order and the first hash  *)
(*   is h1.                                                                *)
(***************************************************************************)
EXTENDS DistributedUpdate, CheckpointCache, DdpTrainer, IncrementalRun, MCCursorLedger

CONSTANTS c1, c2, p1, p2, r1, r2, h1, good, bad

VARIABLE running

MCTopology == [r \in 0 .. 1 |->
  IF r = 0 THEN [node |-> "a", distance |-> 1, floor_ms |-> 8]
           ELSE [node |-> "b", distance |-> 3, floor_ms |-> 20]]

MCBatchSize == [r \in 0 .. 1 |-> 2]

Fast == [rate |-> 40, data_ms |-> 12, allreduce_ms |-> 10, healthy |-> TRUE]
Slow == [rate |-> 17, data_ms |-> 12, allreduce_ms |-> 18, healthy |-> TRUE]
Sick == [rate |-> 40, data_ms |-> 100, allreduce_ms |-> 18, healthy |-> FALSE]
MCTelemetries == {Fast, Slow, Sick}

\* One list fills the planned slots by cost, one only because of their caps,
\* and one is what two slow ranks can take.
Item(id, cost, preferred) ==
  [id |-> id, cost |-> cost, preferred |-> preferred, source |-> "commit"]
MCWorkLists == {{Item(1, 4, {"a"}), Item(2, 3, {"a"}), Item(3, 1, {"b"})},
                {Item(1, 1, {"a"}), Item(2, 1, {"a"}), Item(3, 1, {"a"})},
                {Item(1, 4, {"a"}), Item(2, 4, {})}}

Shard(component, bytes) == [component |-> component, bytes |-> bytes]
MCShardsOf == [c \in {c1, c2} |->
  IF c = c1 THEN {Shard("model", "old"), Shard("rng", "shared")} ELSE {Shard("rng", "shared")}]
MCContractOf == [c \in {c1, c2} |-> <<"bf16", c>>]
MCProduces == [p \in {p1, p2} |-> IF p = p1 THEN c1 ELSE c2]

\* Readers are alike, and no definition names one.
CacheSymmetry == Permutations({r1, r2})

MCPrior ==
  [prior_id |-> "cloth-v2", approval_ticket |-> "granted",
   ranges |-> {<<8, 12>>, <<2, 6>>}, geometry_variants |-> {"towel", "folded"}]
MCEpisode(id, events) ==
  [episode_id |-> id, uncertainty_windows |-> 8, novelty_score |-> 88, safety_events |-> events]
MCRequest(episode, split) ==
  [episode |-> episode, prior |-> MCPrior, seeds |-> <<101>>, split |-> split]
MCJobRequests ==
  <<MCRequest(MCEpisode("cloth", 0), "train"), MCRequest(MCEpisode("collision", 1), "train"),
    MCRequest(MCEpisode("cloth", 0), "stress")>>
MCEpisodeContents == [n \in 1 .. 2 |-> IF n = 1 THEN {good} ELSE {bad}]

Subjects == {"update", "cache", "trainer", "run", "cursor"}

TrainingInit ==
  /\ running \in Subjects
  /\ UpdateInit /\ CacheInit /\ TrainerInit /\ IncrementalInit /\ LedgerInit
  /\ running # "update" => saved.mode = "bf16" /\ planner = "topology"
  /\ running # "trainer" => batches = 1

\* One of the behaviours of CursorLedger that differ in their names only.
NewNamesInOrder ==
  /\ \A a \in DOMAIN attempts' \ DOMAIN attempts : a = Cardinality(DOMAIN attempts')
  /\ \A r \in DOMAIN cursors' \ DOMAIN cursors : cursors'[r].checkpoint.sha256 = h1

GroupState == <<updateVars, trainerVars>>
Stores == <<cacheVars, vars>>

TrainingNext ==
  /\ UNCHANGED running
  /\ \/ running = "update" /\ UpdateNext /\ UNCHANGED <<trainerVars, incrementalVars, Stores>>
     \/ running = "trainer" /\ TrainerNext /\ UNCHANGED <<updateVars, incrementalVars, Stores>>
     \/ running = "cache" /\ CacheNext /\ UNCHANGED <<vars, incrementalVars, GroupState>>
     \/ running = "cursor" /\ LedgerNext /\ NewNamesInOrder
          /\ UNCHANGED <<cacheVars, incrementalVars, GroupState>>
     \/ running = "run" /\ IncrementalNext /\ UNCHANGED <<GroupState, Stores>>

TrainingSpec == TrainingInit /\ [][TrainingNext]_<<running, GroupState, Stores, incrementalVars>>
=============================================================================
