---------------------------- MODULE HardExamples ----------------------------
(***************************************************************************)
(* sim2real_hard_example_compiler.py: which audited episodes of a robot    *)
(* become simulation jobs, and the jobs that are compiled from one.        *)
(*                                                                         *)
(* The script itself is a demonstration with one episode; whoever runs it  *)
(* for others asks for eligibility first, as the demonstration does.       *)
(*                                                                         *)
(* Abstractions: a job's physics and randomisations are drawn by a         *)
(* generator that is seeded with the job's seed alone, so <<prior, seed>>  *)
(* stands for all of them.                                                 *)
(***************************************************************************)
EXTENDS Integers, Sequences, SequencesExt

CONSTANTS MinUncertaintyWindows, MinNoveltyScore, MaxSafetyEvents  \* HardExampleSelector

Splits == {"train", "validation", "stress"}

\* A contact, people or hardware event sends the episode to human review.
Eligible(episode) ==
  /\ episode.uncertainty_windows >= MinUncertaintyWindows
  /\ episode.novelty_score >= MinNoveltyScore
  /\ episode.safety_events <= MaxSafetyEvents

\* ScenarioCompiler.compile raises unless; bounds and variants are looked at
\* for each seed.
Compilable(prior, seeds, split) ==
  /\ prior.approval_ticket # "" /\ split \in Splits
  /\ seeds # <<>> => /\ \A bounds \in prior.ranges : bounds[1] <= bounds[2]
                     /\ prior.geometry_variants # {}

Compile(request) ==
  [i \in DOMAIN request.seeds |->
     [parent_episode_id |-> request.episode.episode_id, split |-> request.split,
      seed |-> request.seeds[i], drawn |-> <<request.prior.prior_id, request.seeds[i]>>]]

\* The manifest that write_jsonl leaves of some requests.
CompiledJobs(requests) ==
  FoldLeft(LAMBDA jobs, q :
             IF Eligible(q.episode) /\ Compilable(q.prior, q.seeds, q.split)
               THEN jobs \o Compile(q) ELSE jobs,
           <<>>, requests)
=============================================================================
