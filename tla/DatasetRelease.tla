-------------------------- MODULE DatasetRelease --------------------------
(***************************************************************************)
(* generate_pointcloud_pairs_ddp.py as a group of ranks: each rank         *)
(* generates the jobs it owns into the shared output and writes a report,  *)
(* a barrier later rank 0 merges the reports into the dataset commit.      *)
(*                                                                         *)
(* The three barriers (after the reports, after the merge and in finally)  *)
(* are the same collective, so whoever waits in any of them meets the      *)
(* others: a rank that raised lets them pass theirs.  The reports and the  *)
(* episodes of an earlier launch of the release stay where they are.       *)
(*                                                                         *)
(* Every file is written in place: opening it takes its content away, and  *)
(* what a rank that raises or is lost has written by then is what stays.   *)
(*                                                                         *)
(* Abstractions: bytes are a content value, equal to its SHA-256; job ids  *)
(* are drawn in the order of the manifest, and are places in it; an        *)
(* upload, which SimJobs models step by step for an episode, is one step   *)
(* here that succeeds or raises, and what it leaves remotely is left out.  *)
(***************************************************************************)
EXTENDS HardExamples, FiniteSets

CONSTANTS
  Ranks,            \* 0 .. world_size - 1
  JobRequests,      \* what was compiled into the job manifest
  EpisodeContents,  \* launch -> what a rollout can produce
  AcceptedContents, \* those that pass quality_gate
  Missing,          \* no such file
  Torn,             \* a file that was opened and not written to its end
  MaxReleases,      \* launches under one --release-id
  MaxFailures       \* ranks that raise or are lost

ASSUME DatasetReleaseAssumption ==
  /\ IsFiniteSet(Ranks) /\ Ranks # {} /\ Ranks = 0 .. Cardinality(Ranks) - 1
  /\ \A n \in 1 .. MaxReleases : {Missing, Torn} \cap EpisodeContents[n] = {}
  /\ MaxReleases \in Nat /\ MaxFailures \in Nat

VARIABLES
  generator,  \* rank -> where it is, the job it is at, its commits, what it merged
  episodes,   \* job -> the files of its episode directory
  reports,    \* rank -> its report on the shared output, or Missing
  dataset,    \* dataset-<release>.json, or Missing or Torn
  releases, failures

releaseVars == <<generator, episodes, reports, dataset, releases, failures>>

JobManifest == CompiledJobs(JobRequests)
JobIds == DOMAIN JobManifest

\* The manifest is a list.
ASSUME JobManifestAssumption ==
  Len(JobManifest) \in Nat /\ JobIds = 1 .. Len(JobManifest)

\* shard_jobs: a rank owns every world_size-th job of the sorted list, from its own
\* place on, and is at the next of them.
Owner(j) == (j - 1) % Cardinality(Ranks)
NextOwned(j) == j + Cardinality(Ranks)

FreshGenerators ==
  [r \in Ranks |-> [at |-> "write", job |-> r + 1, commits |-> {}, manifest |-> Missing]]

ReleaseInit ==
  /\ generator = FreshGenerators
  /\ episodes = [j \in JobIds |-> [npz |-> Missing, metadata |-> Missing]]
  /\ reports = [r \in Ranks |-> Missing]
  /\ dataset = Missing
  /\ releases = 1 /\ failures = 0

At(r, place) == generator[r].at = place
Move(r, change) == generator' = [generator EXCEPT ![r] = change]
CurrentJob(r) == generator[r].job
HasJob(r) == CurrentJob(r) \in JobIds

\* shapes, times, depth and contacts of the rollout
QualityGate(content) == content \in AcceptedContents

\* The metadata name the hash of the array and the verdict on it.
Metadata(content) == [artifact_sha256 |-> content, accepted |-> QualityGate(content)]

-----------------------------------------------------------------------------
(* One rank, job by job. *)

\* Rollout, and the two files of EpisodeWriter.write, each opened and written.
OpenArrays(r) ==
  /\ At(r, "write") /\ HasJob(r)
  /\ episodes' = [episodes EXCEPT ![CurrentJob(r)].npz = Torn]
  /\ Move(r, [generator[r] EXCEPT !.at = "arrays"])
  /\ UNCHANGED <<reports, dataset, releases, failures>>

WriteArrays(r, content) ==
  /\ At(r, "arrays")
  /\ episodes' = [episodes EXCEPT ![CurrentJob(r)].npz = content]
  /\ Move(r, [generator[r] EXCEPT !.at = "describe"])
  /\ UNCHANGED <<reports, dataset, releases, failures>>

OpenDescription(r) ==
  /\ At(r, "describe")
  /\ episodes' = [episodes EXCEPT ![CurrentJob(r)].metadata = Torn]
  /\ Move(r, [generator[r] EXCEPT !.at = "metadata"])
  /\ UNCHANGED <<reports, dataset, releases, failures>>

WriteDescription(r) ==
  /\ At(r, "metadata")
  /\ episodes' = [episodes EXCEPT ![CurrentJob(r)].metadata = Metadata(episodes[CurrentJob(r)].npz)]
  /\ Move(r, [generator[r] EXCEPT !.at = "commit"])
  /\ UNCHANGED <<reports, dataset, releases, failures>>

\* The upload, if the episode was accepted, and the hashes of its files.
CommitEpisode(r) ==
  LET j == CurrentJob(r)
  IN  /\ At(r, "commit")
      /\ Move(r, [generator[r] EXCEPT !.at = "write", !.job = NextOwned(@),
              !.commits = @ \cup {[job |-> j, split |-> JobManifest[j].split,
                                   accepted |-> episodes[j].metadata.accepted,
                                   files |-> episodes[j]]}])
      /\ UNCHANGED <<episodes, reports, dataset, releases, failures>>

\* What a report may be before it is whole: nothing or its first lines, the
\* last of them perhaps in part.  Which of the two a file of whole lines is,
\* nobody can tell who reads it.
Report(commits, ends) == [commits |-> commits, ends |-> ends]
Unfinished(commits) ==
  {Report({c \in commits : c.job < j}, "cut") : j \in 1 .. Len(JobManifest) + 1}
    \cup {Report({}, "broken")}

OpenRankReport(r) ==
  /\ At(r, "write") /\ ~HasJob(r)
  /\ \E report \in Unfinished(generator[r].commits) : reports' = [reports EXCEPT ![r] = report]
  /\ Move(r, [generator[r] EXCEPT !.at = "report"])
  /\ UNCHANGED <<episodes, dataset, releases, failures>>

WriteRankReport(r) ==
  /\ At(r, "report")
  /\ reports' = [reports EXCEPT ![r] = Report(generator[r].commits, "whole")]
  /\ Move(r, [generator[r] EXCEPT !.at = "reported"])
  /\ UNCHANGED <<episodes, dataset, releases, failures>>

-----------------------------------------------------------------------------
(* Barriers, the merge, and the way out. *)

WaitsAtBarrier(r) == generator[r].at \in {"reported", "merged", "closing"}

Barrier ==
  /\ \A r \in Ranks : WaitsAtBarrier(r)
  /\ generator' = [r \in Ranks |-> [generator[r] EXCEPT !.at =
       CASE At(r, "reported") -> IF r = 0 THEN "merge" ELSE "merged"
         [] At(r, "merged") -> "closing"
         [] At(r, "closing") -> "exited"]]
  /\ UNCHANGED <<episodes, reports, dataset, releases, failures>>

\* merge_rank_reports: every report must be there, its lines must parse, and no
\* job may be in them twice.
MergeableIgnoringMissing == \A r \in Ranks : reports[r] # Missing => reports[r].ends # "broken"
Mergeable == \A r \in Ranks : reports[r] # Missing /\ reports[r].ends # "broken"
ReportsFound == {r \in Ranks : reports[r] # Missing}
MergedCommits == UNION {reports[r].commits : r \in ReportsFound}

MergeRankReports(r) ==
  /\ At(r, "merge")
  /\ \/ /\ Mergeable
        /\ \A c, d \in MergedCommits : c.job = d.job => c = d
        /\ dataset' = Torn
        /\ Move(r, [generator[r] EXCEPT !.at = "dataset", !.manifest =
                [episodes |-> MergedCommits, created |-> releases,
                 unfinished |-> {q \in ReportsFound : reports[q].ends # "whole"}]])
     \/ /\ ~Mergeable \/ \E c, d \in MergedCommits : c.job = d.job /\ c # d
        /\ Move(r, [generator[r] EXCEPT !.at = "closing"])
        /\ UNCHANGED dataset
  /\ UNCHANGED <<episodes, reports, releases, failures>>

WriteDataset(r) ==
  /\ At(r, "dataset")
  /\ dataset' = generator[r].manifest
  /\ Move(r, [generator[r] EXCEPT !.at = "upload"])
  /\ UNCHANGED <<episodes, reports, releases, failures>>

UploadDatasetCommit(r) ==
  /\ At(r, "upload")
  /\ Move(r, [generator[r] EXCEPT !.at = "merged"])
  /\ UNCHANGED <<episodes, reports, dataset, releases, failures>>

\* finally: whoever raises waits in the last barrier, or raises there too.
GeneratorRaises(r) ==
  /\ ~WaitsAtBarrier(r) /\ ~At(r, "exited")
  /\ failures < MaxFailures /\ failures' = failures + 1
  /\ Move(r, [generator[r] EXCEPT !.at = "closing"])
  /\ UNCHANGED <<episodes, reports, dataset, releases>>

GeneratorIsLost(r) ==
  /\ ~At(r, "exited")
  /\ failures < MaxFailures /\ failures' = failures + 1
  /\ Move(r, [generator[r] EXCEPT !.at = "exited"])
  /\ UNCHANGED <<episodes, reports, dataset, releases>>

BarrierTimeout(r) ==
  /\ WaitsAtBarrier(r)
  /\ \E q \in Ranks : At(q, "exited")
  /\ Move(r, [generator[r] EXCEPT !.at = IF At(r, "closing") THEN "exited" ELSE "closing"])
  /\ UNCHANGED <<episodes, reports, dataset, releases, failures>>

\* The release is launched again, under the id and into the output it had.
LaunchAgain ==
  /\ \A r \in Ranks : At(r, "exited")
  /\ releases < MaxReleases /\ releases' = releases + 1
  /\ generator' = FreshGenerators
  /\ UNCHANGED <<episodes, reports, dataset, failures>>

ReleaseNext ==
  \/ \E r \in Ranks :
       \/ \E content \in EpisodeContents[releases] : WriteArrays(r, content)
       \/ OpenArrays(r) \/ OpenDescription(r) \/ WriteDescription(r) \/ CommitEpisode(r)
       \/ OpenRankReport(r) \/ WriteRankReport(r)
       \/ MergeRankReports(r) \/ WriteDataset(r) \/ UploadDatasetCommit(r)
       \/ GeneratorRaises(r) \/ GeneratorIsLost(r) \/ BarrierTimeout(r)
  \/ Barrier \/ LaunchAgain

ReleaseSpec == ReleaseInit /\ [][ReleaseNext]_releaseVars

-----------------------------------------------------------------------------
(* Properties. *)

Listed(d, j) == {c \in d.episodes : c.job = j}

\* Each job is listed once at most, under the split it was compiled for.  Jobs
\* are lost only from a report whose write raised or was lost, and of those
\* its rank owns only the last.
LosesOnlyUnfinished(d) ==
  \A j \in JobIds :
    /\ \A c, e \in Listed(d, j) : c = e /\ c.split = JobManifest[j].split
    /\ Listed(d, j) = {} =>
         /\ Owner(j) \in d.unfinished
         /\ \A k \in JobIds : Owner(k) = Owner(j) /\ k > j => Listed(d, k) = {}

\* Whichever ranks raise or are lost at any step, whoever passes a barrier on
\* account of them, and whatever reports an earlier launch left: a dataset commit
\* that can be read has lost a job only where writing a report was cut off.
OnlyUnfinishedReportsLoseJobs ==
  dataset \notin {Missing, Torn} => LosesOnlyUnfinished(dataset)

\* What the guide says of the stage DATASET_COMMIT, that a missing commit stops
\* it: a dataset commit lists every job of the manifest.  The code does not keep
\* it: merge_rank_reports takes any lines of a report for all of them.
DatasetIsWhole ==
  dataset \notin {Missing, Torn} => \A j \in JobIds : Listed(dataset, j) # {}
=============================================================================
