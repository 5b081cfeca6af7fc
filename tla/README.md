# AC-VJEPA: specifications, model checks and proofs

This directory is the verification project of the AC-VJEPA repository. The
repository is a set of Python programs around an action-conditioned world
model: training with elastic data-parallel groups, checkpoint loading, data
generation, review of hard examples, deployment and a robot runtime. What can
go wrong in it without a test noticing is not the tensor code but the protocols
around it: who owns a range of training windows, which epoch may deploy, what a
late worker may still do. These are modelled here in TLA+, checked with TLC on
small instances, and in part proved with TLAPS for all values of the constants.

Contents:

1. [Inventory of the system](#1-inventory-of-the-system)
2. [Plan](#2-plan)
3. [The modules](#3-the-modules)
4. [The runs and what they show](#4-the-runs-and-what-they-show)
5. [Where the code and its documents disagree](#5-where-the-code-and-its-documents-disagree)
6. [The proofs](#6-the-proofs)
7. [What is not modelled](#7-what-is-not-modelled)
8. [Working with the project](#8-working-with-the-project)

`PROJECT.json` holds the same information for tools: components, runs, the line
ranges that every definition stands for, hazards with the properties that cover
them, one mutation per property that the property must catch, findings and
theorems.

## 1. Inventory of the system

The programs share no process. They meet at durable state: SQLite files, JSON
manifests, checkpoint files and an object store; and at a few in-memory records
that stand for a strongly consistent store. So a component here is a record or
a table with its operations, plus the actors that call them.

| Component | State it keeps | Operations | Talks to |
|---|---|---|---|
| Data cursor ledger `elastic_data_cursor_ledger.py` | tables `committed_cursors`, `update_attempts`; checkpoint files | bootstrap, prepare_next_update, abort_uncommitted, recover_after_rendezvous, commit_update | elastic worker groups; trainers write the files it hashes |
| Shard load gate `threadsafe_checkpoint_load_gate.py` | cache map, flight map, admission tokens | load, warm_verified, quarantine/reopen, set_limit | threads of a restore; durable loader; untrusted cache |
| Recovery/deployment arbiter `recovery_deployment_arbiter.py` | one epoch record | begin_recovery, mark_recovery_ready, arm_deployment, freeze_for_revision_drift | recovery controller, GitOps, admission |
| SimJob ledger and workers `resumable_simjob_ledger.py`, `resumable_generate_worker.py` | table `sim_jobs`; a worker's position | register, acquire, heartbeat, complete, retry; run_worker | episode directory, object store |
| Episode generation and object store `sim2real_pointcloud_video_pipeline.py`, `generate_pointcloud_pairs_ddp.py` | episode files, staging, final and commit directories | write, upload_episode, rank sharding, manifest merge | SimJob workers, trainer |
| Review ledger `hitl_quarantine_review.py` | table `cases` | register, submit_first_review, submit_second_review, approved_data_patch | reviewers |
| Robot pipeline `spsc_robot_pipeline.py` | three rings, safety latch, stop event | four worker loops, request_hold, hard_stop, stop | sensor, predict_fn, controller |
| Core runtime `ac_vjepa_core.py` | runtime mode, in-flight future | infer_before_deadline, plan_or_handover, apply_llm_recovery_choice, confirm_local_hold | controller, LLM supervisor |
| Verified checkpoint cache `verified_checkpoint_cache.py` | pointer with revision, cache entries, durable shards | compare_and_swap, put, put_verified, fetch_verified | restore, trainers |
| Load shedding simulator `checkpoint_cache_load_shedding_simulator.py` | token budget, single-flight set, circuit | begin/finish_durable, observe, close_circuit, storms | cache |
| Tamper-evident ledger `multimodal_hitl_tamper_evident_ledger.py` | identities, evidence, signed hash-chained events, anchors | enroll, register_evidence, attest_validation, submit_review, append_event, create_anchor, eligible_patch_for_data, verify_integrity | reviewers, auditors |
| Shadow/canary gate `shadow_canary_gate.py` | stage, records | enter_shadow, record, evaluate, apply; routing | release policy |
| Incremental orchestrator `incremental_acvjepa_orchestrator.py` | JSON stage file | stages, done/complete/fail, resume | generator's dataset commit, converter, trainer |
| Rapid recovery and alerts `rapid_recovery_alert_drill.py` | frozen runs, seen fingerprints | wave planning, handle, may_arm_new_plan | Alertmanager, ledger, gate |
| Chaos framework `heterogeneous_microbatch_chaos_framework.py` | ledger, alert plane, cache | five fault scenarios | ledger, cache, alert plane |
| RDMA rail guard `rdma_rail_chaos_guard.py` | used experiments, active fault | validate, inject, run_with_rollback | executor, approvers |
| Update planning `topology_aware_update_plan.py`, `adaptive_ddp_accumulation.py`, `dynamic_nccl_update_plan_train.py` | plan of an update | plan, validate, broadcast, consensus, one update step | ranks |
| Precision recovery `mixed_precision_elastic_recovery.py` | checkpoint record | snapshot, restore and verify | ledger, trainer |
| DDP trainer `train_ac_vjepa_ddp.py` | weights of each rank, checkpoint files | load parent, train with accumulation, EMA and log reductions, save between barriers | orchestrator |
| Hard example compiler `sim2real_hard_example_compiler.py` | (none) | eligible, compile | generator, SimJob ledger |
| Data conversion `dataset_commit_to_acvjepa_windows.py` | window files, manifests | convert_episode | orchestrator |
| Root cause analysis and tuner `shadow_degradation_rca.py`, `dr_policy_tuner.py` | report, proposal | analyze, propose | release, job compiler |
| Observability `distributed_training_observability.py` | metrics | record_* | dashboards |

### Hard behaviours, by component

* **Cursor ledger.** Groups die, come back slow, or are replaced under another
  world size, between a reservation and its commit; a checkpoint file changes
  after its hash was declared. Correct means: the windows below the cursor are
  trained exactly once, by one chain of commits, and a cursor moves only on
  verified bytes.
* **Load gate.** Threads elect a leader per shard; the leader may be fenced
  while it reads, fail, answer late or never; tokens are few. Correct means:
  nothing unverified is returned, tokens balance, a given verdict does not
  change, everybody gets away.
* **Arbiter.** Three callers decide on clocks and generations read before the
  lock. Correct means: leases of two epochs never overlap and a deployment is
  armed only for the epoch, holder and inputs that were declared ready.
* **SimJobs.** Workers are lost at any file operation, outlive their leases,
  and share directories with their successors. Correct means: late workers
  cannot settle a job, a complete job is what its files say, every job settles.
* **Review ledger.** Reading and writing are separate statements. Correct
  means: no safety case and no one-person decision becomes training data.
* **Robot pipeline.** A producer moves its consumer's index when a ring is
  full, and a hold races with windows on their way. Correct means: no worker
  goes back to older data; a held cycle accepts nothing.
* **Core runtime.** A late inference result is still in flight when the next
  request comes; a handover is decided on a stale state. Correct means: the
  model never has a second request behind the one it runs.
* **Canary gate.** A report waits for its authorization while outcomes are
  recorded and other reports applied. Correct means: a withdrawn candidate gets
  no robot back, and a safety event stops the expansion (it does not, section 5).
* **Cache and publication.** A pointer is swapped by revision only, cache
  entries expire and are corrupted, a trainer dies between writing shards and
  publishing the pointer.
* **Tamper-evident ledger.** Rows are changed, reordered, lost or restored from
  an older copy behind the ledger, and a verification reads its tables while
  others write. Correct means: what passes is what the signers appended, and
  eligible patches were reviewed by two people on the registered evidence.
* **Planning.** All ranks must compute and accept one plan; the shares must
  partition the windows and respect device limits; one rank fails in the middle
  of collectives.

* **DDP trainer.** A rank that raises leaves through a barrier that any other
  barrier meets, and the primary may die inside a save. Correct means: a file
  under a final name is a whole checkpoint of the updates it claims.
* **Generator and orchestrator.** The generator's barriers do not tell one
  another apart, its files are written in place and its reports survive a
  relaunch; the orchestrator is killed while what it started goes on. Correct
  means: a dataset commit lists every compiled job once, and a shadow candidate
  passed every stage for the dataset that its run was made for. The first does
  not hold of the code (section 5); what is checked and proved is by which
  failures alone a job can be lost.
* **Rail guard.** Evidence and approvals grow old, controllers die between
  injection and rollback. Correct means: two people signed each injected fault,
  and somebody owes its rollback.
* **Alert control plane.** Alerts come in groups, late, repeated and after a
  restart. Correct means: what is taken for a duplicate has had its effect.
* **Root cause analysis.** Causes overlap and means hide records. Correct means:
  what must block a release does block it.

The file `PROJECT.json` lists these as *hazards*, each at the line where it
bites and with the properties that would notice.

## 2. Plan

The order follows what the loss of a property would cost: training data that is
silently repeated or lost, deployment of the wrong epoch, wrong weights, wrong
data, then the rest.

**Done.** The cursor ledger with its abstract log, its invariants and the
refinement, all proved; the load gate; the arbiter with proofs; SimJobs; the
review ledger; the robot pipeline; the topology-aware and the dynamic planner
and the distributed update that runs their plans, with precision-aware snapshot
and restore; the tamper-evident ledger; the checkpoint cache with its pointer,
single flight and admission; the inference worker and handover of the core
runtime; the canary gate; the DDP trainer's loop and checkpoints; the chain from
hard examples over generator and dataset commit to the orchestrator's shadow
candidate; the rail guard; the alert control plane; root cause analysis and
tuner.

**Left of the model.** What could still be composed: `CheckpointCache` with
`CursorLedger` (a trainer dies between the shards, the commit and the pointer),
and `RobotRuntime` with `RobotPipeline`, whose `predict_fn` it stands behind. In
the code these pairs meet only in demonstrations, through values that each side
already treats as arbitrary here.

**Runs and bounds.** One run per composition, with two or three actors, two
contents and one key, bounded as in section 4. Components that share no state
are checked side by side in one run, as in `MCData`, `MCReviews`, `MCTraining` and `MCOperations`.

**Proved** (section 6). Every safety property that the runs check, and both
refinements.

**Left of the proofs.** What could be stated beyond the present properties: that the
load gate implements a register which answers a key with its hash's bytes, and that
the SimJob ledger implements a queue of jobs each of which is settled once.

No module that is proved about declares a RECURSIVE operator.

## 3. The modules

| Module | Models | State | Actions |
|---|---|---|---|
| `WorkWindowLog` | the promise of the cursor ledger | windows done, windows in flight | Reserve, Publish, Abandon |
| `CursorLedger` | `elastic_data_cursor_ledger.py` | both tables, checkpoint files, superseded epochs (history) | one per public method; `WriteCheckpoint` by a trainer |
| `CursorLedgerProofs` | theorems about `CursorLedger`, the refinement of `WorkWindowLog` among them (section 6) | | |
| `ShardLoadGate` | `threadsafe_checkpoint_load_gate.py` | cache, flights, tokens, clock, each thread's place in `load` | one per lock section of `load` and each other method |
| `ShardLoadGateProofs` | theorems about `ShardLoadGate` | | |
| `RecoveryArbiter` | `recovery_deployment_arbiter.py` | the record, the clock, accepted attestations (history) | the four transitions, Tick |
| `SimJobs` | SimJob ledger, worker, writer and upload | rows with their order, workers, local, staging, final and commit files | ledger calls, file steps, losses, restarts, expiry |
| `SimJobsProofs` | theorems about `SimJobs` | | |
| `ReviewLedger` | `hitl_quarantine_review.py` | rows, calls in progress, which calls overlapped (history) | Register, a read and a write step per review |
| `AuditLedger` | `multimodal_hitl_tamper_evident_ledger.py` | the four tables, a verification in progress; what was appended (history) | one per call that writes, three reads of `verify_integrity`, changes behind the ledger |
| `ReviewsProofs` | theorems about `ReviewLedger` and `AuditLedger` | | |
| `LossyQueue` | the promise of the rings | what each queue holds, the last item offered and taken | Offer, TakeOldest, Close |
| `SpscRing` | class `SPSCRing` | (operators only) | |
| `RobotPipeline` | the rest of `spsc_robot_pipeline.py` | rings, workers' places, latch, clock | the steps of the four loops, stop, hard stop |
| `UpdatePlans` | planner, assignment and plan validation of `topology_aware_update_plan.py`, and the planner without topology of `dynamic_nccl_update_plan_train.py` | (operators only) | |
| `DistributedUpdate` | one synchronous update per round under either planner: `topology_aware_next_plan` or the dynamic plan, `acvjepa_dynamic_update`; snapshot and restore of `mixed_precision_elastic_recovery.py` | each rank's place, its copies of manifest, telemetry and plan, its samples, its training state; the last snapshot | a rank's stretch of code from one collective to the next; the completion of each collective; losses, a new group |
| `DistributedUpdateProofs` | theorems about `DistributedUpdate` | | |
| `CheckpointCache` | `verified_checkpoint_cache.py`, the admission of `checkpoint_cache_load_shedding_simulator.py`, in the order of calls of `checkpoint_integrity_corruption_demo.py` | pointer revisions, durable shards, cache entries, flights, tokens, circuit; publishers and readers | publish step by step, request, begin, fetch, complete; observe, expiry, corruption, losses |
| `RobotRuntime` | worker, handover and recovery gate of `ac_vjepa_core.py` | submitted requests, the one in flight, each planner's call and last mode | the two lock sections, the three ways a wait ends, handovers, confirmation, the LLM's choice |
| `DdpTrainer` | `train()` of `train_ac_vjepa_ddp.py` | each rank's place and weights, the checkpoint files and their temporaries | from one collective to the next, each save step by step; failures, losses, time-outs, relaunches |
| `HardExamples` | `sim2real_hard_example_compiler.py` | (operators only) | |
| `DatasetRelease` | `generate_pointcloud_pairs_ddp.py` as a group of ranks | each rank's place and the job it is at, episode files, rank reports, the dataset commit; which reports were cut off (history) | each file opened and written, barriers, merge; failures, losses, time-outs, another launch |
| `IncrementalRun` | `incremental_acvjepa_orchestrator.py` with the converter, beside `DatasetRelease`, which it extends | stage file, the orchestrator's copy, its child process and one it left behind, windows, last.pt, shadow release | one per stage step and per step of a child; kill |
| `TrainingProofs` | theorems about `CheckpointCache`, `DdpTrainer`, `DatasetRelease` and `IncrementalRun` | | |
| `RailGuard` | `rdma_rail_chaos_guard.py` with its `RecordingExecutor` | signed approvals, each controller's place, receipts, clock; unattended receipts (history) | sign, read evidence, validate, inject, observe, roll back, losses |
| `AlertControl` | parser and `SafeAlertControlPlane` of `rapid_recovery_alert_drill.py` | what fires (Alertmanager), posted payloads, the adapter's inbox, the plane's four collections | fire, resolve, post; receive; the three outcomes of `handle`; restart |
| `ShadowRca` | `shadow_degradation_rca.py`, `dr_policy_tuner.py` | windows, report, proposal | observe, analyze, propose |
| `CanaryGate` | `shadow_canary_gate.py` | stage, records, decisions handed out; withdrawn (history) | one per public method of the gate; the router's cohorts as an operator |
| `FiniteSums` | lemmas about folds and sums over finite sets (`MapThenFoldSet`, `MapThenSumSet`), for `DistributedUpdateProofs` and `OperationsProofs` | | |
| `OperationsProofs` | theorems about `RecoveryArbiter`, `RobotPipeline` (its refinement of `LossyQueue` among them), `RobotRuntime`, `RailGuard`, `AlertControl`, `CanaryGate` and `ShadowRca` | | |

`MC<Module>.tla` with its `.cfg` files are the instances. `MCData` runs `DatasetRelease`
(with the failures of its ranks) and `ShardLoadGate`, on the instances of
`MCDatasetRelease` and `MCShardLoadGate`; `MCReviews` runs `ReviewLedger` and
`AuditLedger`; `MCTraining` runs `DistributedUpdate`, `CheckpointCache`, `DdpTrainer`,
`IncrementalRun` and `CursorLedger` (with the plans of `MCCursorLedger`); `MCOperations`
runs `RobotPipeline`, `RobotRuntime`, `RecoveryArbiter`, `CanaryGate`, `RailGuard`,
`AlertControl` and `ShadowRca`. Each behaviour of a run of several is one of any of them
(the variable `running`, `ledger` or `subject` says which), since they share no state.
`IncrementalRun` is a composition: orchestrator, children and generator interleave over
the same files. `MCCursorLedger`, `MCDatasetRelease` and `MCShardLoadGate` alone serve
the runs of three disagreements.

**Granularity.** An action is what the code does without another actor being
able to come between. That is a SQLite transaction in `CursorLedger` and
`LeaseLedger`; a section under a Condition lock in the load gate; one locked
method in the arbiter; a section under the worker's lock, or the end of a wait
for a future, in `RobotRuntime`; one call in `CanaryGate`; one SQL statement in `ReviewLedger`, whose two statements
are not in one transaction that excludes others; one IMMEDIATE transaction in
`AuditLedger`, but a single table read of its `verify_integrity`, which holds
none; one call in `CheckpointCache`; what a rank does between two
collectives, and the completion of a collective for all ranks, in
`DistributedUpdate` and `DdpTrainer` (ranks share nothing else but the primary's
files); one file operation in the object-store upload, in `DatasetRelease` (where
opening a file, which empties it, and writing it are two) and in a save; one call of the guard or of its executor in `RailGuard`; one alert in
`AlertControl`; and one call of `push` or `pop` in the robot pipeline. That
last choice rests on CPython 3.11 and 3.12, the versions of the repository's
image and CI: their interpreter hands over between threads only at calls, at
function entry and at backward jumps, and neither method contains one. On a
free-threaded build the producer and the consumer could both write `_tail`, and
the class comment says as much.

**Refused calls.** A call that raises before it changed anything is not an
action. Where a refusal has an effect (a failed load dropping a cache entry, a
lost lease ending the worker, an upload error counting a try) it is modelled.

**Data.** A payload is a model value and equals its SHA-256: hashes do not
collide. A window's id is its offset. In `ReviewLedger` a patch is its
reviewer. In `AuditLedger` an event's hash is the sequence of events that it
commits to, a signature names its signer and the hash, and nobody forges one. Time is a counter
where its order matters (gate, arbiter, pipeline) and an event "this lease has
expired" where only that matters (SimJobs).

In `ShadowRca` numbers are integers and a mean is an exact quotient, so the
floats' rounding at a threshold is not modelled. In `UpdatePlans`, too,
milliseconds are integers. In `DistributedUpdate` a group of collectives that no
branch separates counts as one: the four reductions of the log, the broadcasts of
the EMA target's tensors, and the gather of micro-batch sizes with that of the
telemetry.

**History variables.** `retired`, `attested`, `overrun`, `raced`, `confirmed`,
`pushed`, `popped`, `distrusted`, `withdrawn`, `appended` (apart from the bound on its size),
`leaked`, `unattended`, the fields `disturbed` and `owed` of a verification, `unfinished`
of a merged manifest and the difference between `"whole"` and `"cut"` reports are read by no guard. They record what the
properties compare with.

## 4. The runs and what they show

| Run | Shows | Instance and why it is enough |
|---|---|---|
| `data` | which failures alone can take a job out of a dataset commit; tokens balance; only verified bytes are returned; verdicts are final; every call ends, or waits only for its own loader | three threads (a fenced leader, its successor, a follower of either), one key (keys share only the tokens), two payloads so that corruption differs from truth, two ticks (a lease runs out and one follows), two flights, and one token or two, which hung loaders may hold for ever. For the dataset release two ranks and three jobs, so that one rank owns two and its report can be cut off between them, two launches, two ranks that raise or are lost: in one launch both, or one in each, so that an old report meets a new failure |
| `sim_jobs` | late workers are fenced; a complete job agrees with its files; each job settles | two workers, one job (jobs share no row or directory), two losses, three contents of which one fails the quality gate |
| `reviews` | safety cases never approved; approval takes two people; undisturbed decisions stand; a verification that passes has read what the signers appended, and all that was anchored; eligible patches were reviewed; a verification raises for a cause | three reviewers, an ordinary and a safety case, every overlap of the calls; for the audit ledger two packages of one case and one whose modalities do not overlap, two reviewers, four events (evidence, attestation and two approvals: what eligibility takes), one anchor and one alteration |
| `operations` | the rings implement `LossyQueue`; only newer items arrive; what is drained is the newest; a held cycle accepts nothing; the model never has a second request; leases do not overlap in true time; only attested epochs are armed; epochs move forward; a withdrawn candidate gets no robot back and a cohort only grows until then; an injected fault was signed by two people and somebody owes its rollback; an alert taken for a duplicate has had its effect; what must keep a release paused does | pipeline: rings of two slots, the least that the code allows, and three packets, so that a push meets a full ring that is being drained and slots are used again, and a clock with one tick, which is enough to make a state stale or a window expire at any step. Runtime: two planners and three requests (a late one, its successor and one behind that). Arbiter: two holders, three input bindings differing in the revision or not, three generations, five clock values and any earlier clock reading by each caller. Canary: an identity in each cohort and one off the allowlist, all mixtures of up to three records. Rail guard: two controllers, three experiments, two approvals and two injections (an approved one and one beside it), one tick that makes approvals run out. Alerts: two jobs whose alerts have one name and no fingerprint of their own, an alert outside the allowed environments and one without labels, any two payloads of them in any order and number. Root causes: up to three of six kinds of window, so that three causes can overlap, and configurations of which one is valid |
| `training` | ranks never wait in different collectives; they compute under one plan, for their own work, in one incarnation of the group; a gradient is the mean over all samples; replicas agree after any restore; a plan that can be made is valid; a restore gets the true bytes of one published manifest; tokens and node shares balance; a checkpoint file is whole and sound; a shadow candidate has passed every stage; windows below the cursor are trained exactly once, commits form one chain, the live reservation is always the next range, a cursor moves only on verified bytes, and the ledger implements `WorkWindowLog` | two ranks on two nodes, with micro-batches of two samples, either planner, three telemetries of which one is not healthy, three work lists (by cost, by caps only, for two slow ranks), two precision modes, two updates and one restart; a broadcast may arrive damaged and a process may keep the old restart count. For the cache two checkpoints of which one is part of the other, two publishers that race for the pointer, two readers, two tokens and one lost reader. For the DDP trainer two ranks, two epochs of one batch (fewer than an update needs) or three (an update and a remainder), two launches, two faults. For the orchestrator one kill and two trainings, so that an orphan and its successor meet; beside it a generator of two ranks with a job each (a third request is not eligible) and two launches whose results differ. Ranks of that generator do not fail: what they leave then is looked at in `data`, and all that the orchestrator takes from them is the files. For the cursor ledger one run key (operations on two keys share no row), manifests of three and two windows, three attempts: enough for two commits with an aborted reservation and a recovery between, and plans that are double-booked, gapped, stale and too long |
| `cursor_ledger_stale`, `shard_gate_orphan`, `sim_jobs_overwrite`, `review_ledger_race`, `audit_false_alarm`, `canary_stale_report`, `dataset_release_cut` | the seven disagreements of section 5 | the same instances |

Bounds that are not in the code: `AttemptIds` (reservations), `MaxTime` and
`MaxClock` (ticks), `MaxGenerations` and `MaxGeneration`, `MaxLosses` (lost
workers and leases that outrun one), `MaxPackets`, `MaxRequests`, `MaxSteps` (updates),
`MaxRestarts`, `MaxEvents`, `MaxAnchors`, `MaxAlterations`, `MaxLeaks` (lost
readers that held a token), `MaxLaunches`, `MaxFaults`, `MaxReleases`, `MaxFailures`,
`MaxKills`, `MaxTrainings`, `MaxMoment`, `MaxReceipts`, `MaxSigned`, `MaxPayloads` and
`MaxWindows`. Each stands in the guard of
the action that would grow the state. Deadlock checking is off where the bounds
or the code itself let everything stop: a ledger nobody calls any more, stopped
workers, a used-up clock.

**Fairness.** Safety runs use none. `GateFairness` says that the clock advances
and that a thread which can go on in `load` does (weak fairness per thread:
Condition waits have deadlines and are notified); it says nothing of the loader,
which may hang, nor of callers. `SimFairness` says that the bootstrap finishes,
that a worker process that can take a step does (its calls return or raise) and
is restarted by its orchestrator when it ended, and that the lease of a worker
that is gone expires. It does not say that rollouts succeed, that workers survive
or that leases outlast their work; those losses are bounded by `MaxLosses`
because with infinitely many of them the claim would be false: `acquire` never
compares attempts with `--max-attempts`, so a job that kills each of its workers
is leased again for ever. `JobsSettle` is stated under that assumption.

**Weaker than one might wish.** `CompletedIsConsistent` leaves out jobs whose
lease ran out under a live worker, because the code gives no guarantee then
(section 5). `ReturnedVerified` holds for callers that use a key with one
SHA-256 only, as the code's callers do: a follower takes its leader's answer
without comparing hashes. `DecisionStands` is about cases on which no two calls
overlapped. `VerifiedIsHistory` is about alterations before or after a
verification, not between its reads. `StampedeShielded` counts the reads that
hold a token: a follower whose cache entry is gone reads the durable store
without one, because the code asks for none.
`OneInference` is about one worker object, as its lock is. In `CanaryGate` rates and
the tolerated events are at their defaults of zero, so one bad record decides;
`max_records` is the code's own limit, made small.
`CheckpointIsSound` says nothing of the weights of a run that was launched into the
directory of another: `train()` never resumes, and a step file may be any launch's.
`FaultsAreAttended` excepts what nobody can attend: a lost controller, an `inject`
that raised after injecting, a rollback that raised. `OnlyUnfinishedReportsLoseJobs` excepts
what a report lost while it was written (section 5). `MissedHoldPausesRelease`
excepts runs in which all residuals are equal (section 5).

**Type invariants.** `ShardLoadGate`, `SimJobs`, `ReviewLedger`, `AuditLedger`,
`RobotPipeline`, `DistributedUpdate` and `RecoveryArbiter` state one that documents the
types of their variables and that their runs do not list, because their other
invariants fail with it. All of them hold on the instances; to check one, add its name
(`TypeOK`, `AuditTypeOK`, `PipelineTypeOK`, `UpdateTypeOK`) to the `.cfg`. That of
`RecoveryArbiter` is proved. `CursorLedger` checks and proves its own.

Each property comes with a mutation of one mapped definition (defined just above
it, with a suffix that says what is wrong in it, for example
`ValidPlanSharedWindows`), under which its run fails. That is how a property is
known to depend on the code.

## 5. Where the code and its documents disagree

* **A superseded group can still commit** (`cursor_ledger_stale`). The recovery
  does not store the epoch it accepted, so a group of the old epoch can reserve
  again and commit after the recovery. The elastic-recovery boundary document
  says the old epoch is void. The data stay correct (exactly-once holds all the
  same); the authority of the new group does not.
* **Followers of a fenced flight's successor can be left alone**
  (`shard_gate_orphan`). A fenced leader that fails removes whatever flight is
  mapped, its successor's included; the successor then raises without ever
  finishing its flight. Its followers get neither result nor error, only their
  own timeout.
* **A completed commit can be overwritten** (`sim_jobs_overwrite`). The upload
  checks no lease, so a worker that outlived its lease replaces the commit of a
  job that its successor completed. The guide excludes exactly this.
* **An approved patch need not be the confirmed one** (`review_ledger_race`). The
  check and the update of a review are separate statements and the update names
  the case only, so a late first review replaces the patch a second reviewer is
  confirming.
* **An intact audit ledger can fail its verification** (`audit_false_alarm`).
  `verify_integrity` reads its tables in separate statements, so evidence that is
  registered in between makes an event look unbound. The exception's docstring
  says it is raised when a ledger, signature or hash fails verification.
* **A stale report expands a release** (`canary_stale_report`). `apply` looks at
  the decision of the report it is given and at nothing else, so a promotion that
  was waiting for its authorization goes through after a hard safety event was
  recorded. The release boundary document gives safety triggers priority over any
  evaluation and lets them freeze the expansion.
* **A dataset commit can lack a rank's jobs** (`dataset_release_cut`). A rank that
  raises while it writes its report leaves the file empty or shortened and goes to
  the barrier in `finalize_distributed`; that meets rank 0's, and the merge asks
  only whether each report exists and its lines parse. The end-to-end guide has the
  stage `DATASET_COMMIT` stop when a report or a commit is missing. Neither the
  orchestrator nor the converter compares the commit with the manifest of jobs. A
  rank that raises earlier does no such harm: then its report is missing, and the
  merge raises, or is an earlier launch's, which lists all its jobs.

Others were read while modelling and have no run of their own. The models follow
the code; where a claim would fail, the property leaves the case out.

* **Core runtime.** `apply_llm_recovery_choice` accepts any supervision packet, and
  the packet exists before the hold is confirmed, while `LLMSupervisionPacket` says
  it is sent after that.
* **Converter.** A comment (`dataset_commit_to_acvjepa_windows.py:64`) says that the
  metadata's integrity is covered by the dataset commit's recorded hash, and the
  guide has the converter match episode hashes; it reads neither. It does not read
  the split either: accepted episodes of the validation and stress splits become
  training windows, while the pipeline blueprint isolates the stress split from
  training and the architecture design lets no version train on it. Jobs of two
  splits that are compiled with one seed are the same job: physics and
  randomisations are drawn from the seed alone.
* **Generator.** Its three barriers are one collective, so after a failure rank 0
  may merge while a report is missing (it raises) or is an earlier launch's (it
  does not). The dataset commit, called immutable, is written in place too: who
  hashes or reads it at that moment finds an empty file. Without `--release-id` each process draws an id of its own, and a
  smaller world leaves the reports of the larger one behind.
* **DDP trainer.** Gradients of an incomplete update stay for the next epoch's
  first; with fewer batches than an update needs, `last.pt` is written with no
  update at all, although the guide takes it for a trained candidate. A trainer that
  outlives its orchestrator may overwrite `last.pt` after its successor's was hashed.
* **Planner without topology.** `DynamicAccumulationPlanner` takes any limits: with a
  `min_micro_batches` of zero it makes plans that `validate_plan_structure` refuses on
  every rank. `TopologyAwarePlanner` refuses such limits at once, and all callers of
  the other pass one.
* **Rail guard.** The guard remembers nothing: an approval may be used again until
  it runs out, two controllers that both saw no active fault may both inject, and
  the time to live of a receipt is not enforced. `inject` stands outside the `try`,
  so an executor that injects and then raises is not asked to roll back. The module
  leaves all this to the executor of a deployment.
* **Root causes.** A missed hold is reported only if some residual is above the mean
  and another is not, while the implementation notes let every missed hold stop the
  expansion; sensor and soft-physics hypotheses can both be emitted, while the notes
  let the first exclude the second; and every proposal from one parent has the same
  version.
* **Alerts.** The parser gives the status of the envelope to every alert, one
  malformed alert rejects the payload, fingerprints are never forgotten (an alert
  that fires again after it was resolved does nothing), and a restart forgets the
  frozen jobs. Nothing unfreezes a job. Making only the fingerprints durable, as the
  handbook advises, would lose freezes: `NoAlertIsSwallowed` would fail.
* **Recovery waves.** `RecoveryPolicy` allows a `jitter_ratio` of up to 1, and above
  one half the waves of `RecoveryWavePlanner` overlap. The default is 0.2.

## 6. The proofs

All theorems hold for every value of the constants that satisfies the named assumptions:
any number of runs, ranks, readers, planners, jobs, cases or robots, and any value of
the bounds of section 4, which are natural numbers and nothing more. Each specification
that is proved about is one of safety; the components that share a run each have their
own (`RailSpec`, `TrainerSpec`, ...).

**What is assumed.** Beyond the types of constants:

* of the world: residuals are numbers (`ShadowRcaAssumption`); the participants whose
  number a counter is compared with are finitely many (`GateAssumption`,
  `CacheAssumption`, `DatasetReleaseAssumption`); two alerts that carry one fingerprint
  are one alert (`AlertControlAssumption`); a bucket is a percentage and the low-risk
  share is not above the expanded one (`CanaryAssumption`; the policy's defaults are 5
  and 20 per cent); a limit of admission is at least one (`CacheAssumption`); an interval of
  the trainer is at least one (`DdpTrainerAssumption`; the code takes a remainder by
  it);
* of the code's own checks: a ring holds two items or more (`PipelineAssumption`; the
  constructor of `SPSCRing` refuses less); a planner has a positive target time and at
  least one micro-batch as its lower limit, not above the upper one
  (`PlannerAssumption`; `TopologyAwarePlanner.__init__` refuses anything else, and the
  callers of the other planner pass one); in a work list, which is finite, no two items
  have one id, and records and telemetry are such as their `validate()` accepts
  (`UpdateAssumption`; `plan` raises on anything else);
* of the callers: `ReturnsVerified` has the hypothesis `OneHashPerKey`. The gate does
  not compare hashes when it answers a follower.

Hashes do not collide and signatures are not forged: that is in the models (section 3),
not in an assumption. The rest of this section says along which invariant each theorem
is proved; hardly any of the properties is inductive as the runs state it. The
invariants of the proof modules were checked with TLC on the instances first.

**`CursorLedgerProofs`.** `TypeCorrect`, `ReservationCorrect`, `ExactlyOnce` and
`LineageCorrect` prove the four invariants of the ledger's run. The argument has two
layers.

* `ReservationInv` is the type invariant, `RowsWellFormed` (every row's windows are the
  plan's windows and form the range from its start to its end offset, with disjoint
  shares) and `ReservationIsNextRange`. It is inductive: a reservation is made when none
  is live, from the cursor as it stands; the cursor moves only by committing the live
  one, after which none is live.
* `PrefixInv` adds `ExactlyOnceBelowCursor`, `CommitLineage` and the finiteness of the
  committed set. It is inductive relative to the first layer: the update that commits is
  the live one, so it covers exactly the windows from the cursor on, hence is disjoint
  from everything before and extends the chain at its end.

Every operation has an effect lemma (which rows and statuses change), so that the
preservation proofs speak about rows and not about SQL. `PlanSize` connects the number
of a plan's windows with the range they fill.

`Refinement` proves that the ledger implements `WorkWindowLog`, `VerifiedAdvance` that a
cursor moves on verified bytes only. Both rest on `LedgerInv`, the conjunction of the
two layers, which says what the refinement mapping is worth: `DoneBelowCursor` (the
windows of the committed updates are those below the cursor) and `InflightOfReservation`
(the ones in flight are those of the single live reservation). Each operation then has a
mapping lemma: `PrepareMaps` to `Reserve`, `CommitMaps` to `Publish`, and `AbandonMaps`,
for abort and recovery, to `Abandon` or, when nothing was live, to a stutter; all other
operations stutter. Exactly-once does not depend on who calls: a superseded group's
commit (section 5) is still a `Publish`.

**`ShardLoadGateProofs`.** `BudgetCorrect`, `ReturnsVerified` and `VerdictsAreFinal`.
`FlightInv` says that a flight is mapped under one key at most, that an unanswered one
has no payload, and that all who are about one flight are about one key
(`CallsAreOfOneKey`). A fenced leader and its successor may work on the same key, so
nothing weaker keeps the answer of one flight out of another. On it stand the count of
the tokens' holders (a finite set that a step enlarges or reduces by one thread),
`BytesAreVerified`, which follows the bytes from the hash comparison to the return, and
the action property that a verdict stays.

**`SimJobsProofs`.** `CompletedCorrect` and `SettledCorrect`. `SimInv` says of each job
whose lease nobody outran that whoever works on it holds the lease (`LeasesAreKept`, the
attempt being the fencing token) and that the files are what the worker's position
implies (`FilesAreReady`, from the episode directory over staging and the final
directory to the commit). A job that lost its exclusivity is in `overrun` from then on.

**`DistributedUpdateProofs`.** `CollectivesCorrect` rests on `ControlInv`: in lock step,
every rank alive comes to the same collective next (`LockStep`), and a rank reaches the
reduction of gradients with its last micro-batch only. `MeanInv` adds, per rank, what it
got from each collective; that whoever computes has compared its plan with all others'
(`SamePlans`), from which `OnePlanCorrect`; and that what it has accumulated is the sum
that its position in the plan implies, from which `GlobalMeanCorrect`. `ReplicaInv`
distinguishes the two sides of the optimizer: a rank that has stepped is exactly one
step ahead of one that has not, and while some ranks are not restored the others have
not left the snapshot (`InStep`), from which `ReplicasCorrect`.

`PlansCorrect` says that rank 0 never refuses the plan it has just made. It has two
parts. `InputInv` is about the protocol: whenever rank 0 plans, its work list is one of
those that exist, its manifest is of the ranks' own topology, and its telemetry is of
all ranks. The rest is about the planner for any such input. The greedy assignment is a
fold over the work list in order of cost; after any part of the list each item of that
part is on one rank, no rank has more items than micro-batches, and the ranks' items
number as many as have been handed out (`HandedOut`). So as long as items are left some
rank has a free slot, `Destination` finds one among the free ranks (the estimated finish
is a total order on them, ties going to the lower rank), and when all are handed out
every rank is exactly full. Samples and loss scales then add up by the lemmas on sums.

**`FiniteSums`.** The folds of the community modules are recursive functions over
subsets, and an induction theorem about them would take an operator as a parameter.
Here the induction is over a set of sets (`OneByOne`): a family of subsets that has the
empty one, and every subset all of whose one-smaller subsets it has, has them all.
`FoldExists` shows with it that a fold is a function with the recursive equation, and
`SumExists` and `SumIsSum` that a sum is one taken one element at a time. From these
follow what the planner and the root causes need: sums of equal, larger or positive
terms, of terms of one sign, and multiples. `FirstExists` gives a finite set its first
element in any total order.

**`ReviewsProofs`.** For `ReviewLedger`, `ReviewInv` (`ApprovalCorrect`,
`DecisionCorrect`): what a call in progress has read may be stale, but on a case where
no two calls overlapped it is not, and no second one is in progress (`OverlapInv`). For
`AuditLedger`, `AuditInv` (`VerificationCorrect`, `EligibilityCorrect`) follows
`verify_integrity` through its three reads: what it has found good stays good, because
later writes only add evidence and events after the chain it read, newer than what was
anchored. `VerifiedChain` proves that a chain whose rows verify one by one is one that
was appended; as that is induction over its length, it goes by a least row that would
break it. `CauseInv` (`AlarmCorrect`) says that what the ledger alone wrote would verify
and that an undisturbed verification has read what is there.

**`TrainingProofs`.** Four components.

* *Checkpoint cache.* `RestoreInv` (`RestoredCorrect`): a manifest is published after
  all its shards are durable and stays published, and each restore in progress has true
  bytes of one revision only. `TokenInv` (`ShieldCorrect`): a shard has one leader, a
  token one holder, and the counters are the numbers of holders and of lost readers.
* *DDP trainer.* `TrainerInv` (`CheckpointCorrect`): a rank's place determines how many
  updates it has made (`PositionInv`); as long as nobody has left, all come to the same
  meeting (`LockstepInv`); damaged weights occur only after somebody left, and never
  with a rank that saves (`GarbledInv`); what is under a temporary name when it is to be
  renamed is whole (`DiskInv`).
* *Generator.* `ReleaseInv` (`DatasetCorrect`): up to the job it is at, a rank has
  listed exactly the jobs it owns (`Lists`), and a report, of this launch or an earlier
  one, is of those that its rank owns up to some job, up to the end of the manifest when
  it was written whole (`ReportIsSound`). The residues of job numbers partition the
  manifest, so that a job is missing from a merge only with the end of its owner's report
  (`MergedLosesOnlyUnfinished`).
* *Orchestrator.* `RunInv` (`ShadowCorrect`): the orchestrator's copy of the stages is
  the file's, and its place goes with the first stage that is not complete. The
  generator and orphaned children may take steps in between; they touch neither.

**`OperationsProofs`.** Seven components.

* *Arbiter.* `ArbiterInv` (`TypeCorrect`, `ArmedCorrect`, `ForwardOnly`) adds to the type
  invariant and `ArmedWasAttested` that no attestation is of a later generation than the
  record's, and that one of the same generation names the record's holder and inputs and
  excludes the state RECOVERING (`AttestationsAreOfTheRecord`). Without it a second
  attestation could not be excluded. `LeaseExclusion` needs only that a caller's clock
  reading is never ahead of the true clock.
* *Core runtime.* `RuntimeInv` (`InferenceCorrect`): a planner on its way into the
  second locked section has a finished request, so clearing the one in flight cannot
  free the model for a second.
* *Rail guard.* `RailInv` (`ApprovedCorrect`, `AttendedCorrect`): a controller at its
  injection has validated an experiment that two people of the two roles signed
  (`TwoPeopleSigned`); one after it holds the receipt that it owes.
* *Alerts.* `AlertInv` (`AlertsCorrect`): the effect of every alert that would count as
  a duplicate is in place (`SeenHasEffect`), and the trail names fingerprints that were
  seen, each once.
* *Canary gate.* `CanaryInv` (`AuthorityCorrect`): the history `withdrawn` is the stages
  that nothing leaves, and the cohorts of the advancing stages include each other
  (`CohortsGrow`).
* *Robot pipeline.* `LatchInv` (`HeldCorrect`): a cycle that began under a hold decides
  with a snapshot that shows it. `PipelineInv` (`LatestCorrect`) adds `FlowInv`: the
  slots of each ring from tail to head hold packets in increasing order, later than the
  last popped and up to the last pushed (`RingOK`), and what a worker holds is later
  than what it has passed on (`PassesOn`). That a push does not overwrite a slot in use
  is arithmetic modulo the capacity (`SlotsDiffer`); the lemmas on `SpscRing` are stated
  for any ring, the pipeline's theorem for any three capacities. On the same invariant
  rests `QueuesImplemented`: read from tail to head the slots are the queue (`Line`), and
  each step is one of the queue. A pop, and the first half of a push into a full ring,
  take its first element (`LineTail`), the other half of a push appends one
  (`LineAppend`): `PushMaps`, `DrainMaps` and `CloseMaps` map the steps to `Offer`,
  `TakeOldest` and `Close`; a push into a closed ring and all other steps stutter. That
  what is offered is newer is `PassesOn`. A drain is several pops with pushes between
  them, and that is in the model.
* *Root causes.* `RcaInv` (`PauseCorrect`) is simple: a proposal is of the hypotheses of
  its windows. The work is in `BlockingHypothesis`, that what must block is found
  whatever else the windows show, and for a missed hold in `MeanSplits`: if residuals
  differ, one is above their mean and one is not, for any number of them. The distances
  from the mean sum up to zero (`DistancesFromMean`), and a sum of terms of one sign is
  zero only if they all are (`SignOfSum`), by the lemmas of `FiniteSums`.

**Only model-checked.** `CallsEnd` and `JobsSettle` are liveness under fairness, which
the prover does not reach. The properties of the seven runs of section 5 do not hold.

## 7. What is not modelled

* Neural networks, losses, optimisers, rendering, video and array code, export
  to ONNX and TensorRT: no protocol state, and nothing finite to check.
* Floating point: MPC evaluation, the wave planner, confidences of hypotheses,
  backoffs. Where thresholds decide something (root causes, plans) numbers are
  integers or quotients.
* The chaos framework and the smoke tests: fixed scripts of calls that the models
  make in every order. The training metrics: nothing reads them back.
* Dashboards, Prometheus rules, manifests and validators: configuration of
  services outside the repository. The `aws s3` branch of the upload.
* Within the modelled parts: counters that nothing reads (`GateStats`, ring drops,
  metrics, the arbiter's rejections), log text, reasons, JSON layout, and the
  validation of malformed arguments, which changes no state.
* The ledger's and the SimJob table's SQLite files are taken to be durable and
  transactions atomic. In `CursorLedger` a run key's checkpoints at locations
  other than `file://` are accepted on their declared hash, as in the code.
* The contents of a rollout and its quality gate, which are a verdict on a value; the
  slicing of an episode into windows.
* The negative cache, TTL jitter and storm scenarios of the load shedding
  simulator, which are arithmetic on fixed inputs, and `verify_local_artifacts`.
* Wall-clock jumps in `LeaseLedger` (which uses `time.time_ns`) are not modelled
  separately: a lease may expire at any moment anyway.
* A `shadow_candidate.json` that is cut off while it is written: it is written in
  place, but a truncated one cannot be parsed and releases nothing, so that it is as
  good as none.
* Requests that `ScenarioCompiler.compile` raises on: `CompiledJobs` leaves them out,
  the script writes no manifest at all then; no instance has one.

## 8. Working with the project

    tlasany CursorLedger.tla
    tlc -workers 2 -config MCTraining.cfg MCTraining
    tlapm CursorLedgerProofs.tla

The longest runs are `operations` (1,260,000 states), three minutes with two workers,
`training` (780,000), two and a half, `reviews` (530,000), two, `sim_jobs` (800,000),
one and a half, and `data` (125,000), one. The seven runs named in
section 5 are meant to end with a counterexample.

Conventions: operators and variables keep the names of the source; an operation
is an action of the same name in camel case; `<Definition><Suffix>` above a
definition is its mutation; properties stand at the end of a module, each under
a comment that says what it means for the code.
