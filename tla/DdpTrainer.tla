---------------------------- MODULE DdpTrainer ----------------------------
(***************************************************************************)
(* train_ac_vjepa_ddp.py: the ranks of a torchrun group go through the     *)
(* batches of an epoch, accumulate gradients, reduce them, step, and now   *)
(* and then broadcast the EMA target, reduce the losses for the log and    *)
(* let rank 0 save a checkpoint between two barriers.                      *)
(*                                                                         *)
(* A rank that raises inside the try enters one more barrier, the one of   *)
(* cleanup_distributed, and leaves.  A collective completes when all ranks *)
(* wait in one of the same kind.  If all wait but not in the same kind,    *)
(* what the backend does is undefined: it may time out, or complete with   *)
(* wrong data for those who wait for data.                                 *)
(*                                                                         *)
(* Abstractions: a model is where its weights came from and the number of  *)
(* optimizer steps since (one that GradScaler skips counts as a step, as   *)
(* it does for global_step), and whether wrong data entered it.  A single  *)
(* process without a group is a group of one.                              *)
(***************************************************************************)
EXTENDS Integers, FiniteSets

CONSTANTS
  Trainers,       \* the ranks; rank 0 is the primary
  Epochs,         \* --epochs
  BatchCounts,    \* what len(loader) may be: as many for each rank
  Accumulation,   \* --gradient-accumulation
  SaveInterval, LogInterval, EmaInterval,
  MaxLaunches, MaxFaults

ASSUME DdpTrainerAssumption ==
  /\ 0 \in Trainers /\ Trainers \subseteq Nat
  /\ BatchCounts \subseteq Nat
  /\ {Epochs, Accumulation, SaveInterval, LogInterval, EmaInterval} \subseteq Nat \ {0}

VARIABLES
  trainer,    \* rank -> where it is and its locals in train()
  replica,    \* rank -> the weights it holds
  disk_files, \* path -> what the output directory has there
  batches,    \* len(loader)
  parent,     \* --init-from: the path of a checkpoint, or none
  launches, faults

trainerVars == <<trainer, replica, disk_files, batches, parent, launches, faults>>

Primary == 0

\* step-N.pt is path N and last.pt is path 0; each has its .tmp beside it.
LastPt == 0
Temporaries == "tmp"
Path(n) == <<"final", n>>
Temporary(path) == <<Temporaries, path[2]>>
TrainerPaths == {"final", Temporaries} \X (0 .. Epochs * (CHOOSE n \in BatchCounts : \A m \in BatchCounts : m <= n))
NoParent == <<"none", 0>>

Absent == [is |-> "absent"]
Partial == [is |-> "partial"]

Barriers == {"save", "saved", "final", "cleanup"}
Meetings == {"construct", "gradients", "ema", "log"} \cup Barriers
Kind(c) == IF c \in Barriers THEN "barrier" ELSE c

Started == [at |-> "init", epoch |-> 0, batch |-> 0, micro |-> 0, step |-> 0]
Untrained(r) == [origin |-> r, steps |-> 0, garbled |-> FALSE]

TrainerInit ==
  /\ trainer = [r \in Trainers |-> Started]
  /\ replica = [r \in Trainers |-> Untrained(r)]
  /\ disk_files = [p \in TrainerPaths |-> Absent]
  /\ batches \in BatchCounts
  /\ parent = NoParent
  /\ launches = 1 /\ faults = 0

Waits(r) == trainer[r].at \in Meetings
Moves(r, change) == trainer' = [trainer EXCEPT ![r] = change]
Settings == <<batches, parent, launches, faults>>

-----------------------------------------------------------------------------
(* train(), up to the construction of DDP, which is before the try. *)

\* A rank draws its own weights (set_seed adds the rank) or loads the parent.
LoadModel(r) ==
  /\ trainer[r].at = "init"
  /\ \/ parent = NoParent /\ replica' = [replica EXCEPT ![r] = Untrained(r)]
     \/ /\ parent # NoParent /\ disk_files[parent] \notin {Absent, Partial}
        /\ replica' = [replica EXCEPT ![r] = disk_files[parent].model]
  /\ Moves(r, [trainer[r] EXCEPT !.at = "construct"])
  /\ UNCHANGED <<disk_files, Settings>>

\* The parent is missing or unreadable.
NoModel(r) ==
  /\ trainer[r].at = "init"
  /\ parent # NoParent /\ disk_files[parent] \in {Absent, Partial}
  /\ Moves(r, [trainer[r] EXCEPT !.at = "exited"])
  /\ UNCHANGED <<replica, disk_files, Settings>>

-----------------------------------------------------------------------------
(* The loop over the batches. *)

IsUpdateStep(batch_index) == (batch_index + 1) % Accumulation = 0

\* Forward and backward of one micro-batch; only the last of an update
\* synchronises the gradients.
TrainMicroBatch(r) ==
  LET t == trainer[r]
  IN  /\ t.at = "fetch" /\ t.batch < batches
      /\ Moves(r, [t EXCEPT !.batch = @ + 1, !.micro = @ + 1,
                            !.at = IF IsUpdateStep(t.batch) THEN "gradients" ELSE "fetch"])
      /\ UNCHANGED <<replica, disk_files, Settings>>

\* What is left of an incomplete update stays in the gradients.
EndOfEpoch(r) ==
  LET t == trainer[r]
  IN  /\ t.at = "fetch" /\ t.batch = batches
      /\ Moves(r, [t EXCEPT !.epoch = @ + 1, !.batch = 0,
                            !.at = IF t.epoch + 1 = Epochs THEN "final" ELSE "fetch"])
      /\ UNCHANGED <<replica, disk_files, Settings>>

SaveOrGoOnWithoutBarrier(r, step) ==
  IF step % SaveInterval # 0 THEN "fetch" ELSE IF r = Primary THEN "write" ELSE "saved"
SaveOrGoOn(r, step) == IF step % SaveInterval = 0 THEN "save" ELSE "fetch"
LogOrGoOn(r, step) == IF step % LogInterval = 0 THEN "log" ELSE SaveOrGoOn(r, step)

OptimizerStep(r) ==
  LET t == trainer[r]
      step == t.step + 1
  IN  /\ t.at = "optimizer"
      /\ replica' = [replica EXCEPT ![r].steps = @ + 1]
      /\ Moves(r, [t EXCEPT !.step = step, !.micro = 0,
                            !.at = IF step % EmaInterval = 0 THEN "ema" ELSE LogOrGoOn(r, step)])
      /\ UNCHANGED <<disk_files, Settings>>

-----------------------------------------------------------------------------
(* Collectives. *)

\* Where a rank goes on when the collective it waits in has completed.
Beyond(r) ==
  LET t == trainer[r]
  IN  CASE t.at = "construct" -> "fetch"
        [] t.at = "gradients" -> "optimizer"
        [] t.at = "ema" -> LogOrGoOn(r, t.step)
        [] t.at = "log" -> SaveOrGoOn(r, t.step)
        [] t.at = "save" -> IF r = Primary THEN "write" ELSE "saved"
        [] t.at = "saved" -> "fetch"
        [] t.at = "final" -> IF r = Primary THEN "write" ELSE "cleanup"
        [] t.at = "cleanup" -> "exited"

AllGoOn == trainer' = [r \in Trainers |-> [trainer[r] EXCEPT !.at = Beyond(r)]]

Agree == \A r, q \in Trainers : Kind(trainer[r].at) = Kind(trainer[q].at)

\* DDP's constructor gives every rank the weights of rank 0.
Collective ==
  /\ \A r \in Trainers : Waits(r)
  /\ Agree
  /\ AllGoOn
  /\ replica' = IF trainer[Primary].at = "construct"
                THEN [r \in Trainers |-> replica[Primary]] ELSE replica
  /\ UNCHANGED <<disk_files, Settings>>

\* Rank 0 is the source of the EMA broadcast and keeps what it has.
TakesData(r) == trainer[r].at = "gradients" \/ (trainer[r].at = "ema" /\ r # Primary)

MismatchedCollective ==
  /\ \A r \in Trainers : Waits(r)
  /\ ~Agree
  /\ AllGoOn
  /\ replica' = [r \in Trainers |-> [replica[r] EXCEPT !.garbled = @ \/ TakesData(r)]]
  /\ UNCHANGED <<disk_files, Settings>>

\* finally: cleanup_distributed
Cleanup(r) ==
  Moves(r, [trainer[r] EXCEPT !.at =
    IF trainer[r].at \in {"init", "construct", "cleanup"} THEN "exited" ELSE "cleanup"])

\* Who waits for a rank that is gone, or elsewhere, raises in the end.
TimeOut(r) ==
  /\ Waits(r)
  /\ \/ \E q \in Trainers : trainer[q].at = "exited"
     \/ (\A q \in Trainers : Waits(q)) /\ ~Agree
  /\ Cleanup(r)
  /\ UNCHANGED <<replica, disk_files, Settings>>

-----------------------------------------------------------------------------
(* save_checkpoint on rank 0: atomic_save writes beside and replaces. *)

Target(r) == Path(IF trainer[r].epoch = Epochs THEN LastPt ELSE trainer[r].step)

Payload(r) ==
  [is |-> "checkpoint", model |-> replica[r], epoch |-> trainer[r].epoch,
   global_step |-> trainer[r].step]

WriteTemporary(r) ==
  /\ trainer[r].at = "write"
  /\ disk_files' = [disk_files EXCEPT ![Temporary(Target(r))] = Partial]
  /\ Moves(r, [trainer[r] EXCEPT !.at = "writing"])
  /\ UNCHANGED <<replica, Settings>>

TemporaryWritten(r) ==
  /\ trainer[r].at = "writing"
  /\ disk_files' = [disk_files EXCEPT ![Temporary(Target(r))] = Payload(r)]
  /\ Moves(r, [trainer[r] EXCEPT !.at = "replace"])
  /\ UNCHANGED <<replica, Settings>>

ReplaceCheckpoint(r) ==
  /\ trainer[r].at = "replace"
  /\ disk_files' = [disk_files EXCEPT ![Target(r)] = disk_files[Temporary(Target(r))],
                                      ![Temporary(Target(r))] = Absent]
  /\ Moves(r, [trainer[r] EXCEPT !.at = IF trainer[r].epoch = Epochs THEN "cleanup" ELSE "saved"])
  /\ UNCHANGED <<replica, Settings>>

-----------------------------------------------------------------------------
(* Faults, and starting again. *)

\* A batch that cannot be read, a full disk, a model that runs out of memory.
RankRaises(r) ==
  /\ trainer[r].at \in {"init", "fetch", "optimizer", "write", "writing", "replace"}
  /\ faults < MaxFaults /\ faults' = faults + 1
  /\ Cleanup(r)
  /\ UNCHANGED <<replica, disk_files, batches, parent, launches>>

RankIsLost(r) ==
  /\ trainer[r].at # "exited"
  /\ faults < MaxFaults /\ faults' = faults + 1
  /\ Moves(r, [trainer[r] EXCEPT !.at = "exited"])
  /\ UNCHANGED <<replica, disk_files, batches, parent, launches>>

\* Another run into the same directory, from nothing or from a checkpoint in
\* it: train() never resumes the optimizer, the epoch or the step.
Relaunch(p) ==
  /\ \A r \in Trainers : trainer[r].at = "exited"
  /\ launches < MaxLaunches /\ launches' = launches + 1
  /\ parent' = p
  /\ trainer' = [r \in Trainers |-> Started]
  /\ UNCHANGED <<replica, disk_files, batches, faults>>

TrainerNext ==
  \/ \E r \in Trainers :
       \/ LoadModel(r) \/ NoModel(r) \/ TrainMicroBatch(r) \/ EndOfEpoch(r) \/ OptimizerStep(r)
       \/ WriteTemporary(r) \/ TemporaryWritten(r) \/ ReplaceCheckpoint(r)
       \/ TimeOut(r) \/ RankRaises(r) \/ RankIsLost(r)
  \/ Collective \/ MismatchedCollective
  \/ \E p \in {NoParent} \cup ({Path(LastPt), Path(1)} \cap TrainerPaths) : Relaunch(p)

TrainerSpec == TrainerInit /\ [][TrainerNext]_trainerVars

-----------------------------------------------------------------------------
(* Properties. *)

\* Whatever raises, dies or is written half, a file under a final name is a
\* whole checkpoint of the step its name says (last.pt: of all updates of all
\* epochs), and no reduction that a leaving rank's barrier met went into it.
CheckpointIsSound ==
  \A n \in {p[2] : p \in TrainerPaths} :
    LET file == disk_files[Path(n)]
    IN  file # Absent =>
          /\ file # Partial
          /\ ~file.model.garbled
          /\ file.global_step = IF n = LastPt THEN Epochs * (batches \div Accumulation) ELSE n
          /\ file.model.steps >= file.global_step
=============================================================================
