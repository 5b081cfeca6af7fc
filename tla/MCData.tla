------------------------------- MODULE MCData --------------------------------
(***************************************************************************)
(* What brings data to a training group, on the instances of the modules   *)
(* below.  The two share no state, so a behaviour is one of either.        *)
(*   DatasetRelease: the commit of the pairs to train on.                  *)
(*   ShardLoadGate: the loads of shards of such data.                      *)
(***************************************************************************)
EXTENDS MCDatasetRelease, MCShardLoadGate

VARIABLE subject

DataInit ==
  /\ subject \in {"release", "gate"}
  /\ ReleaseInit /\ GateInit
  /\ subject # "gate" => limit = 1

\* Ranks may stop for good; the gate may not.

DataNext ==
  /\ UNCHANGED subject
  /\ \/ subject = "release" /\ [ReleaseNext]_releaseVars /\ UNCHANGED vars
     \/ subject = "gate" /\ GateNext /\ UNCHANGED releaseVars

DataSpec ==
  /\ DataInit
  /\ [][DataNext]_<<subject, releaseVars, vars>>
  /\ subject = "gate" => GateFairness
=============================================================================
