-------------------------- MODULE IncrementalRun --------------------------
(***************************************************************************)
(* incremental_acvjepa_orchestrator.py beside the generator whose dataset  *)
(* commit it turns into a shadow candidate: stages that are done once and  *)
(* remembered in run_state.json, each run in a process of its own          *)
(* (the converter of dataset_commit_to_acvjepa_windows.py, the trainer,    *)
(* the evaluations).                                                       *)
(*                                                                         *)
(* The orchestrator may be killed at any moment and started again on the   *)
(* same work root; the process it was waiting for then goes on without it. *)
(* One orchestrator runs on a work root at a time.                         *)
(*                                                                         *)
(* Abstractions: a model is the set of artifacts it was trained on and the *)
(* number of the training that made it, equal to the SHA-256 of last.pt;   *)
(* the parent checkpoint does not change.                                  *)
(***************************************************************************)
EXTENDS DatasetRelease

CONSTANTS MaxKills, MaxTrainings

VARIABLES
  run_state,     \* run_state.json, or NoRun
  orchestrator,  \* where main() is, its inputs, its copy of the stages
  processes,     \* the process main() waits for and one that it left behind
  windows,       \* the artifacts that train_windows.jsonl was made from
  last_pt,       \* the trainer's last.pt
  shadow,        \* shadow_candidate.json
  kills, trainings

runVars == <<run_state, orchestrator, processes, windows, last_pt, shadow, kills, trainings>>

Stages == <<"VALIDATE_DATASET_COMMIT", "PREPARE_TRAINING_WINDOWS", "TRAIN_CANDIDATE",
            "OFFLINE_EVALUATION", "SIM_EVALUATION", "EDGE_EVALUATION", "SHADOW_CANDIDATE_READY">>
StageNames == {Stages[i] : i \in DOMAIN Stages}
Evaluations == {Stages[i] : i \in 4 .. 6}

Undone == [status |-> "", outputs |-> Missing]
NoStages == [s \in StageNames |-> Undone]
NoRun == [inputs |-> Missing, stages |-> NoStages]
NoProcess == [kind |-> "none"]
Idle == [at |-> "idle", inputs |-> Missing, stages |-> NoStages, authorized |-> FALSE]

RunInit ==
  /\ run_state = NoRun
  /\ orchestrator = Idle
  /\ processes = [child |-> NoProcess, orphan |-> NoProcess]
  /\ windows = Missing /\ last_pt = Missing /\ shadow = Missing
  /\ kills = 0 /\ trainings = 0

\* done
Complete(stages, s) == stages[s].status = "COMPLETE"
FirstUndone(stages) ==
  LET i == CHOOSE i \in 1 .. Len(Stages) + 1 :
             /\ i <= Len(Stages) => ~Complete(stages, Stages[i])
             /\ \A k \in 1 .. i - 1 : Complete(stages, Stages[k])
  IN  IF i > Len(Stages) THEN "UNKNOWN" ELSE Stages[i]
Prepared == \A i \in 1 .. 2 : Complete(orchestrator.stages, Stages[i])
Doing(s) ==
  /\ orchestrator.at = "main" /\ FirstUndone(orchestrator.stages) = s
  /\ Prepared => orchestrator.authorized
Files == <<windows, last_pt, shadow>>
Bounds == <<kills, trainings>>

-----------------------------------------------------------------------------
(* RunState. *)

\* main() begins, with or without --execute-training.  The inputs are hashed,
\* then the file is read or made; a file of other inputs
\* makes the constructor raise, outside of main's try.
AnyInputs(old) == TRUE
SameInputs(old) == old.inputs = dataset
Start ==
  /\ orchestrator.at = "idle" /\ dataset # Missing
  /\ \/ /\ run_state = NoRun
        /\ run_state' = [inputs |-> dataset, stages |-> NoStages]
     \/ /\ run_state # NoRun /\ SameInputs(run_state)
        /\ UNCHANGED run_state
  /\ \E authorized \in BOOLEAN :
       orchestrator' = [at |-> "main", inputs |-> dataset, stages |-> run_state'.stages,
                        authorized |-> authorized]
  /\ UNCHANGED <<processes, Files, Bounds>>

\* complete and fail write the orchestrator's own copy over the file.
Save(stages, place) ==
  /\ orchestrator' = [orchestrator EXCEPT !.stages = stages, !.at = place]
  /\ run_state' = [inputs |-> orchestrator.inputs, stages |-> stages]

CompleteStage(s, outputs) ==
  Save([orchestrator.stages EXCEPT ![s] = [status |-> "COMPLETE", outputs |-> outputs]], "main")

\* except: the first stage that is not done has failed, and main ends.
FailStage ==
  LET s == FirstUndone(orchestrator.stages)
  IN  Save([orchestrator.stages EXCEPT ![s] = [status |-> "FAILED", outputs |-> Missing]], "idle")

-----------------------------------------------------------------------------
(* Validation and preparation. *)

AcceptedCommits(d) == {c \in d.episodes : c.accepted}

\* The commit can be read, each accepted episode is there with its hashes, none
\* is listed twice, and there is one.  main reads the commit again, which may have
\* been rewritten or be just being written.
Verified(d) ==
  /\ d # Torn
  /\ AcceptedCommits(d) # {}
  /\ \A c, e \in AcceptedCommits(d) : c.job = e.job => c = e
  /\ \A c \in AcceptedCommits(d) : episodes[c.job] = c.files

ValidateDatasetCommit ==
  /\ Doing("VALIDATE_DATASET_COMMIT")
  /\ IF Verified(dataset) THEN CompleteStage("VALIDATE_DATASET_COMMIT", Missing) ELSE FailStage
  /\ UNCHANGED <<processes, Files, Bounds>>

Launch(process) ==
  /\ processes.child = NoProcess
  /\ processes' = [processes EXCEPT !.child = process]
  /\ orchestrator' = [orchestrator EXCEPT !.at = "waiting"]

\* A commit that cannot be read ends the converter at once.
StartConverter ==
  /\ Doing("PREPARE_TRAINING_WINDOWS")
  /\ \/ /\ dataset # Torn
        /\ Launch([kind |-> "converter", left |-> AcceptedCommits(dataset), made |-> {}])
     \/ dataset = Torn /\ Launch([kind |-> "ended", code |-> 1])
  /\ UNCHANGED <<run_state, Files, Bounds>>

\* A process ends: the orchestrator looks at the return code if it waits.
Exits(p, code) == processes' = [processes EXCEPT ![p] = [kind |-> "ended", code |-> code]]

\* convert_episode believes the episode's own metadata; what the dataset
\* commit says of the files and of the split is not looked at.
ConvertEpisode(p) ==
  /\ processes[p].kind = "converter"
  /\ \E c \in processes[p].left :
       LET e == episodes[c.job]
           left == processes[p].left \ {c}
       IN  \/ /\ e.metadata # Torn /\ ~e.metadata.accepted
              /\ processes' = [processes EXCEPT ![p].left = left]
           \/ /\ e.metadata # Torn /\ e.metadata.accepted /\ e.npz = e.metadata.artifact_sha256
              /\ processes' = [processes EXCEPT ![p].left = left,
                                ![p].made = @ \cup {[job |-> c.job, npz |-> e.npz]}]
           \/ /\ e.metadata # Torn => e.metadata.accepted /\ e.npz # e.metadata.artifact_sha256
              /\ Exits(p, 1)
  /\ UNCHANGED <<run_state, orchestrator, Files, Bounds>>

\* The manifests are written, unless there is no window at all.
WriteWindows(p) ==
  /\ processes[p].kind = "converter" /\ processes[p].left = {}
  /\ windows' = IF processes[p].made = {} THEN windows ELSE processes[p].made
  /\ Exits(p, IF processes[p].made = {} THEN 1 ELSE 0)
  /\ UNCHANGED <<run_state, orchestrator, last_pt, shadow, Bounds>>

\* The stage's step after run_command has returned.
Returned(s) ==
  /\ orchestrator.at = "waiting" /\ FirstUndone(orchestrator.stages) = s
  /\ processes.child.kind = "ended"
  /\ processes' = [processes EXCEPT !.child = NoProcess]

CommandFailed(s) ==
  /\ Returned(s) /\ processes.child.code # 0
  /\ FailStage
  /\ UNCHANGED <<Files, Bounds>>

WindowsPrepared ==
  /\ Returned("PREPARE_TRAINING_WINDOWS") /\ processes.child.code = 0
  /\ CompleteStage("PREPARE_TRAINING_WINDOWS", windows)
  /\ UNCHANGED <<Files, Bounds>>

\* --prepare-only, or no --execute-training: main returns here.
AwaitAuthorization ==
  /\ orchestrator.at = "main" /\ Prepared /\ ~orchestrator.authorized
  /\ orchestrator' = Idle
  /\ UNCHANGED <<run_state, processes, Files, Bounds>>

-----------------------------------------------------------------------------
(* Training, evaluation, release. *)

StartTrainer ==
  /\ Doing("TRAIN_CANDIDATE")
  /\ trainings < MaxTrainings /\ trainings' = trainings + 1
  /\ Launch([kind |-> "trainer", model |-> [on |-> windows, number |-> trainings + 1]])
  /\ UNCHANGED <<run_state, Files, kills>>

TrainerEnds(p) ==
  /\ processes[p].kind = "trainer"
  /\ \/ last_pt' = processes[p].model /\ Exits(p, 0)
     \/ last_pt' \in {last_pt, processes[p].model} /\ Exits(p, 1)
  /\ UNCHANGED <<run_state, orchestrator, windows, shadow, Bounds>>

CandidateTrained ==
  /\ Returned("TRAIN_CANDIDATE") /\ processes.child.code = 0
  /\ IF last_pt = Missing THEN FailStage ELSE CompleteStage("TRAIN_CANDIDATE", last_pt)
  /\ UNCHANGED <<Files, Bounds>>

\* An evaluation is a process too, but what it leaves is only its return
\* code.  Without a command for it main raises.
Evaluate(s) ==
  /\ s \in Evaluations /\ Doing(s)
  /\ CompleteStage(s, Missing) \/ FailStage
  /\ UNCHANGED <<processes, Files, Bounds>>

WriteShadowRelease ==
  /\ Doing("SHADOW_CANDIDATE_READY")
  /\ shadow' = [candidate |-> orchestrator.stages["TRAIN_CANDIDATE"].outputs,
                inputs |-> orchestrator.inputs]
  /\ orchestrator' = [orchestrator EXCEPT !.at = "released"]
  /\ UNCHANGED <<run_state, processes, windows, last_pt, Bounds>>

ShadowReady ==
  /\ orchestrator.at = "released"
  /\ CompleteStage("SHADOW_CANDIDATE_READY", Missing)
  /\ UNCHANGED <<processes, Files, Bounds>>

\* Every stage is done: main prints and returns.
Finish ==
  /\ Doing("UNKNOWN")
  /\ orchestrator' = Idle
  /\ UNCHANGED <<run_state, processes, Files, Bounds>>

-----------------------------------------------------------------------------
\* The orchestrator is killed; what it waits for lives on, if it did wait.
Kill ==
  /\ orchestrator.at # "idle"
  /\ kills < MaxKills /\ kills' = kills + 1
  /\ orchestrator' = Idle
  /\ processes' = [child |-> NoProcess, orphan |-> processes.child]
  /\ UNCHANGED <<run_state, Files, trainings>>

RunStep ==
  \/ Start \/ ValidateDatasetCommit \/ StartConverter \/ WindowsPrepared \/ AwaitAuthorization
  \/ StartTrainer \/ CandidateTrained \/ WriteShadowRelease \/ ShadowReady \/ Finish \/ Kill
  \/ \E s \in StageNames : CommandFailed(s) \/ Evaluate(s)
  \/ \E p \in {"child", "orphan"} : ConvertEpisode(p) \/ WriteWindows(p) \/ TrainerEnds(p)

IncrementalInit == ReleaseInit /\ RunInit
IncrementalNext ==
  \/ ReleaseNext /\ UNCHANGED runVars
  \/ RunStep /\ UNCHANGED releaseVars
incrementalVars == <<releaseVars, runVars>>

IncrementalSpec == IncrementalInit /\ [][IncrementalNext]_incrementalVars

-----------------------------------------------------------------------------
(* Properties. *)

\* However often the orchestrator is killed and started again, and whatever
\* the generator and left-over processes do meanwhile: there is a shadow
\* release only once every stage before it is complete in the run's file, of
\* the dataset commit that file was made for and of the candidate it records.
ShadowIsEarned ==
  shadow # Missing =>
    /\ \A i \in 1 .. 6 : run_state.stages[Stages[i]].status = "COMPLETE"
    /\ shadow.inputs = run_state.inputs
    /\ shadow.candidate = run_state.stages["TRAIN_CANDIDATE"].outputs
=============================================================================
