-------------------------- MODULE MCDatasetRelease --------------------------
(***************************************************************************)
(* Two ranks and three jobs, so that one rank owns two of them and the     *)
(* other one; a launch and another under the same release id, whose        *)
(* rollouts fail the quality gate; ranks that raise or are lost twice.     *)
(***************************************************************************)
EXTENDS DatasetRelease

CONSTANTS good, bad

MCPrior ==
  [prior_id |-> "cloth-v2", approval_ticket |-> "granted",
   ranges |-> {<<8, 12>>, <<2, 6>>}, geometry_variants |-> {"towel", "folded"}]
MCEpisode(events) ==
  [episode_id |-> "cloth", uncertainty_windows |-> 8, novelty_score |-> 88, safety_events |-> events]
MCRequest(events, seeds, split) ==
  [episode |-> MCEpisode(events), prior |-> MCPrior, seeds |-> seeds, split |-> split]

\* The second is not eligible.
MCJobRequests ==
  <<MCRequest(0, <<101, 102>>, "train"), MCRequest(1, <<101>>, "train"),
    MCRequest(0, <<103>>, "stress")>>

MCEpisodeContents == [n \in 1 .. 2 |-> IF n = 1 THEN {good} ELSE {bad}]
=============================================================================
