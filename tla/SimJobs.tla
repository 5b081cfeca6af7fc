------------------------------ MODULE SimJobs -------------------------------
(***************************************************************************)
(* Resumable SimJob generation: the LeaseLedger of                         *)
(* resumable_simjob_ledger.py, the workers of resumable_generate_worker.py *)
(* that lease jobs from it, and the shared directories they write:         *)
(* EpisodeWriter's episode directory and the file:// object store of       *)
(* ObjectStoreSynchronizer.  Every ledger call is one SQL statement or one *)
(* immediate transaction; file operations are steps of their own, and a    *)
(* worker can be lost between any two of them.                             *)
(*                                                                         *)
(* Abstractions: an episode's bytes are a content value, equal to its      *)
(* SHA-256; wall-clock time is reduced to the expiry of a lease; ORDER BY  *)
(* updated_ns is a queue whose tail is the row updated last.               *)
(***************************************************************************)
EXTENDS Integers, Sequences, SequencesExt

CONSTANTS
  Jobs,            \* job keys of the manifest
  Workers,         \* worker processes, each with its own worker_id
  Contents,        \* episodes a rollout can produce
  Accepted,        \* those that pass quality_gate
  None,            \* nothing written, no worker
  MaxAttempts,     \* --max-attempts
  UploadAttempts,  \* --upload-attempts
  MaxLosses        \* bound on lost workers plus leases that outrun a worker

ASSUME SimJobsAssumption ==
  /\ Accepted \subseteq Contents
  /\ None \notin Contents \cup Workers
  /\ MaxAttempts \in Nat \ {0} /\ UploadAttempts \in Nat \ {0} /\ MaxLosses \in Nat

VARIABLES
  row,      \* table sim_jobs: job key -> row
  queue,    \* the job keys in the order of updated_ns
  worker,   \* worker -> its position in run_worker and its locals
  local,    \* job -> files of the episode directory on the shared output
  staging,  \* job -> files below .staging
  final,    \* job -> files below episodes
  commit,   \* job -> hashes in the job's commit manifest
  losses,   \* number of losses so far
  overrun   \* history: jobs whose lease expired while its worker was at work

store == <<local, staging, final, commit>>
vars == <<row, queue, worker, store, losses, overrun>>

Statuses == {"ABSENT", "PENDING", "LEASED", "RETRY", "COMPLETE", "QUARANTINED"}

\* The two files of an episode: the arrays and their metadata.
Files == [npz : Contents \cup {None}, metadata : Contents \cup {None}]
NoFiles == [npz |-> None, metadata |-> None]

Row == [status : Statuses, attempt : 0 .. MaxAttempts + MaxLosses,
        worker_id : Workers \cup {None}, expired : BOOLEAN, hashes : Files]

Idle == [at |-> "acquire", job |-> None, attempt |-> 0, raw |-> None, tries |-> 0]
Uploading == {"upload", "stage", "remove", "replace", "commit"}
Working == {"start", "rollout", "write", "describe", "gate", "complete", "except"} \cup Uploading

SimInit ==
  /\ row = [j \in Jobs |-> [status |-> "ABSENT", attempt |-> 0, worker_id |-> None,
                            expired |-> FALSE, hashes |-> NoFiles]]
  /\ queue = <<>>
  /\ worker = [w \in Workers |-> Idle]
  /\ local = [j \in Jobs |-> NoFiles]
  /\ staging = local /\ final = local /\ commit = local
  /\ losses = 0
  /\ overrun = {}

\* updated_ns = now
Touched(j) == Append(Remove(queue, j), j)

-----------------------------------------------------------------------------
(* The ledger. *)

\* bootstrap registers each job of the manifest; a repeated key is a no-op.
Register(j) ==
  /\ row[j].status = "ABSENT"
  /\ row' = [row EXCEPT ![j].status = "PENDING"]
  /\ queue' = Touched(j)
  /\ UNCHANGED <<worker, store, losses, overrun>>

ClaimableNeverExpired(r) == r.status \in {"PENDING", "RETRY"}
ClaimableAnyLease(r) == r.status \in {"PENDING", "RETRY", "LEASED"}
Claimable(r) ==
  \/ r.status \in {"PENDING", "RETRY"}
  \/ r.status = "LEASED" /\ r.expired

\* ORDER BY updated_ns LIMIT 1
FirstClaimable(j) ==
  \E i \in DOMAIN queue :
    /\ queue[i] = j /\ Claimable(row[j])
    /\ \A k \in 1 .. i - 1 : ~Claimable(row[queue[k]])

LeasedTo(w, j) == [status |-> "LEASED", attempt |-> row[j].attempt + 1, worker_id |-> w,
                   expired |-> FALSE, hashes |-> row[j].hashes]

StartOn(j) == [at |-> "start", job |-> j, attempt |-> row[j].attempt + 1, raw |-> None, tries |-> 0]

\* acquire takes the claimable row that was updated first.
Acquire(w) ==
  /\ worker[w].at = "acquire"
  /\ \E j \in Jobs :
       /\ FirstClaimable(j)
       /\ row' = [row EXCEPT ![j] = LeasedTo(w, j)]
       /\ queue' = Touched(j)
       /\ worker' = [worker EXCEPT ![w] = StartOn(j)]
  /\ UNCHANGED <<store, losses, overrun>>

\* acquire returned None: the worker ends, even if others still hold leases.
NothingToAcquire(w) ==
  /\ worker[w].at = "acquire"
  /\ \A j \in Jobs : ~Claimable(row[j])
  /\ worker' = [worker EXCEPT ![w].at = "ended"]
  /\ UNCHANGED <<row, queue, store, losses, overrun>>

\* The WHERE clause of heartbeat, complete and retry.
HoldsLeaseByStatus(w) == row[worker[w].job].status = "LEASED"
HoldsLease(w) ==
  LET r == row[worker[w].job]
  IN r.status = "LEASED" /\ r.worker_id = w /\ r.attempt = worker[w].attempt

RetryStatus(attempt) == IF attempt < MaxAttempts THEN "RETRY" ELSE "QUARANTINED"

-----------------------------------------------------------------------------
(* run_worker. *)

Goto(w, next) == worker' = [worker EXCEPT ![w].at = next]

\* A ledger call on a lost lease raises; the handler's own call to retry then
\* raises too, and the worker process ends.
LeaseLost(w) ==
  /\ worker[w].at \in {"start", "rollout", "complete", "except"}
  /\ ~HoldsLease(w)
  /\ Goto(w, "ended")
  /\ UNCHANGED <<row, queue, store, losses, overrun>>

Heartbeat(w) ==
  /\ HoldsLease(w)
  /\ row' = [row EXCEPT ![worker[w].job].expired = FALSE]
  /\ queue' = Touched(worker[w].job)

BeforeRollout(w) ==
  /\ worker[w].at = "start"
  /\ Heartbeat(w)
  /\ Goto(w, "rollout")
  /\ UNCHANGED <<store, losses, overrun>>

\* The rollout returns c and the second heartbeat succeeds.
AfterRollout(w, c) ==
  /\ worker[w].at = "rollout"
  /\ Heartbeat(w)
  /\ worker' = [worker EXCEPT ![w] = [@ EXCEPT !.at = "write", !.raw = c]]
  /\ UNCHANGED <<store, losses, overrun>>

WriteEpisode(w) ==
  /\ worker[w].at = "write"
  /\ local' = [local EXCEPT ![worker[w].job].npz = worker[w].raw]
  /\ Goto(w, "describe")
  /\ UNCHANGED <<row, queue, staging, final, commit, losses, overrun>>

\* metadata.json: the quality report of this rollout.  The array hash that it
\* repeats is read by no step here.
WriteMetadata(w) ==
  /\ worker[w].at = "describe"
  /\ local' = [local EXCEPT ![worker[w].job].metadata = worker[w].raw]
  /\ Goto(w, "gate")
  /\ UNCHANGED <<row, queue, staging, final, commit, losses, overrun>>

QualityGate(w) ==
  /\ worker[w].at = "gate"
  /\ Goto(w, IF worker[w].raw \in Accepted THEN "upload" ELSE "except")
  /\ UNCHANGED <<row, queue, store, losses, overrun>>

\* The simulator or the writer raises.
RolloutRaises(w) ==
  /\ worker[w].at \in {"rollout", "write", "describe"}
  /\ Goto(w, "except")
  /\ UNCHANGED <<row, queue, store, losses, overrun>>

\* upload_episode reads the metadata first, whoever wrote it last.
ReadMetadata(w) ==
  /\ worker[w].at = "upload"
  /\ local[worker[w].job].metadata \in Accepted
  /\ Goto(w, "stage")
  /\ UNCHANGED <<row, queue, store, losses, overrun>>

CopyToStaging(w) ==
  /\ worker[w].at = "stage"
  /\ staging' = [staging EXCEPT ![worker[w].job] = local[worker[w].job]]
  /\ Goto(w, "remove")
  /\ UNCHANGED <<row, queue, local, final, commit, losses, overrun>>

RemoveFinal(w) ==
  /\ worker[w].at = "remove"
  /\ final' = [final EXCEPT ![worker[w].job] = NoFiles]
  /\ Goto(w, "replace")
  /\ UNCHANGED <<row, queue, local, staging, commit, losses, overrun>>

ReplaceFinal(w) ==
  /\ worker[w].at = "replace"
  /\ staging[worker[w].job] # NoFiles /\ final[worker[w].job] = NoFiles
  /\ final' = [final EXCEPT ![worker[w].job] = staging[worker[w].job]]
  /\ staging' = [staging EXCEPT ![worker[w].job] = NoFiles]
  /\ Goto(w, "commit")
  /\ UNCHANGED <<row, queue, local, commit, losses, overrun>>

\* The hashes in the commit are those of the local files at this moment.
WriteCommit(w) ==
  /\ worker[w].at = "commit"
  /\ commit' = [commit EXCEPT ![worker[w].job] = local[worker[w].job]]
  /\ Goto(w, "complete")
  /\ UNCHANGED <<row, queue, local, staging, final, losses, overrun>>

\* An upload step raises; retry_with_backoff starts the upload again or, on
\* the last try, hands the exception to run_worker.
UploadRaises(w) ==
  /\ worker[w].at \in Uploading
  /\ worker' = [worker EXCEPT ![w] =
                  IF @.tries + 1 < UploadAttempts
                    THEN [@ EXCEPT !.at = "upload", !.tries = worker[w].tries + 1]
                    ELSE [@ EXCEPT !.at = "except"]]
  /\ UNCHANGED <<row, queue, store, losses, overrun>>

Complete(w) ==
  /\ worker[w].at = "complete"
  /\ HoldsLease(w)
  /\ row' = [row EXCEPT ![worker[w].job] =
               [@ EXCEPT !.status = "COMPLETE", !.expired = FALSE,
                         !.hashes = local[worker[w].job]]]
  /\ queue' = Touched(worker[w].job)
  /\ worker' = [worker EXCEPT ![w] = Idle]
  /\ UNCHANGED <<store, losses, overrun>>

Retry(w) ==
  /\ worker[w].at = "except"
  /\ HoldsLease(w)
  /\ row' = [row EXCEPT ![worker[w].job] =
               [@ EXCEPT !.status = RetryStatus(worker[w].attempt), !.expired = FALSE]]
  /\ queue' = Touched(worker[w].job)
  /\ worker' = [worker EXCEPT ![w] = Idle]
  /\ UNCHANGED <<store, losses, overrun>>

-----------------------------------------------------------------------------
(* The environment. *)

\* A process or node is lost at any point of its work.
LoseWorker(w) ==
  /\ worker[w].at \in Working
  /\ losses < MaxLosses
  /\ losses' = losses + 1
  /\ Goto(w, "ended")
  /\ UNCHANGED <<row, queue, store, overrun>>

\* The orchestrator starts a new worker process in its place.
Restart(w) ==
  /\ worker[w].at = "ended"
  /\ worker' = [worker EXCEPT ![w] = Idle]
  /\ UNCHANGED <<row, queue, store, losses, overrun>>

AtWork(j) == \E w \in Workers : worker[w].at \in Working /\ worker[w].job = j /\ HoldsLease(w)

\* lease_until_ns passes: at once when the holder is gone, and at most
\* MaxLosses times while it is still at work.
LeaseExpires(j) ==
  /\ row[j].status = "LEASED" /\ ~row[j].expired
  /\ row' = [row EXCEPT ![j].expired = TRUE]
  /\ IF AtWork(j)
       THEN losses < MaxLosses /\ losses' = losses + 1 /\ overrun' = overrun \cup {j}
       ELSE UNCHANGED <<losses, overrun>>
  /\ UNCHANGED <<queue, worker, store>>

WorkerStep(w) ==
  \/ Acquire(w) \/ NothingToAcquire(w) \/ LeaseLost(w)
  \/ BeforeRollout(w) \/ (\E c \in Contents : AfterRollout(w, c))
  \/ WriteEpisode(w) \/ WriteMetadata(w) \/ QualityGate(w) \/ RolloutRaises(w)
  \/ ReadMetadata(w) \/ CopyToStaging(w) \/ RemoveFinal(w) \/ ReplaceFinal(w)
  \/ WriteCommit(w) \/ UploadRaises(w) \/ Complete(w) \/ Retry(w) \/ Restart(w)

SimNext ==
  \/ \E j \in Jobs : Register(j) \/ LeaseExpires(j)
  \/ \E w \in Workers : WorkerStep(w) \/ LoseWorker(w)

\* The bootstrap runs, processes run and are restarted, rollouts and file
\* operations return or raise, and leases of lost workers expire.
SimFairness ==
  /\ \A j \in Jobs : WF_vars(Register(j)) /\ WF_vars(LeaseExpires(j) /\ ~AtWork(j))
  /\ \A w \in Workers : WF_vars(WorkerStep(w))

SimSpec == SimInit /\ [][SimNext]_vars /\ SimFairness

-----------------------------------------------------------------------------
(***************************************************************************)
(* Properties.                                                             *)
(***************************************************************************)

\* Type invariant.  An attempt beyond --max-attempts is one that replaces a
\* lost worker or lease: retry itself never allows it.
TypeOK ==
  /\ row \in [Jobs -> Row]
  /\ \A j \in Jobs : row[j].attempt <= MaxAttempts + losses
  /\ ToSet(queue) = {j \in Jobs : row[j].status # "ABSENT"} /\ IsInjective(queue)
  /\ \A w \in Workers : /\ worker[w].at \in Working \cup {"acquire", "ended"}
                        /\ worker[w].at \in Working => worker[w].job \in Jobs
                        /\ worker[w].tries < UploadAttempts
  /\ {local, staging, final, commit} \subseteq [Jobs -> Files]
  /\ losses \in 0 .. MaxLosses /\ overrun \subseteq Jobs

\* A COMPLETE job is what the ledger says it is: the row, the commit manifest
\* and the visible episode agree on the bytes, and these passed the quality
\* gate, though workers were lost at any step of any earlier attempt and left
\* half of their files (unless a lease ran out under a live worker).
CompletedIsConsistent ==
  \A j \in Jobs \ overrun :
    row[j].status = "COMPLETE" =>
      /\ commit[j] = row[j].hashes
      /\ final[j] = row[j].hashes
      /\ \E c \in Accepted : row[j].hashes = [npz |-> c, metadata |-> c]

\* Stale workers are fenced: a lease is settled only by the worker that was
\* given the row's latest attempt, an attempt is given out once, and COMPLETE
\* and QUARANTINED rows never change again, whoever comes late.
SettledByLatestLease ==
  [][\A j \in Jobs :
       /\ row[j].status \in {"COMPLETE", "QUARANTINED"} => row'[j] = row[j]
       /\ row'[j].attempt # row[j].attempt => row'[j].attempt = row[j].attempt + 1
       /\ row[j].status = "LEASED" /\ row'[j].status # "LEASED" =>
            \E w \in Workers : /\ worker[w].job = j /\ worker[w].attempt = row[j].attempt
                               /\ worker[w].at \in {"complete", "except"}
                               /\ worker'[w].at = "acquire"]_vars

\* Every registered job is completed or quarantined in the end, if workers
\* that end are started again and losses are finite.
JobsSettle == \A j \in Jobs : <>[](row[j].status \in {"COMPLETE", "QUARANTINED"})

\* What the automation guide promises of uploads: a completed commit is never
\* overwritten with other hashes.
CompletedCommitIsNeverOverwritten ==
  [][\A j \in Jobs : row[j].status = "COMPLETE" => commit'[j] = commit[j]]_vars
=============================================================================
