-------------------------- MODULE MCCursorLedger ---------------------------
(***************************************************************************)
(* A small instance of CursorLedger for TLC: one run, two manifests of     *)
(* three and two windows, three worker groups (the first one, its          *)
(* replacement under a new epoch with another world size, and a restarted  *)
(* group that kept the first epoch) and plans that are right, stale,       *)
(* double-booked, gapped and too long.                                     *)
(***************************************************************************)
EXTENDS CursorLedger, Sequences, TLC

CONSTANTS m1, m2

MCWindowCount == m1 :> 3 @@ m2 :> 2

Id(restart, world, epoch) ==
  [restart_count |-> restart, world_size |-> world, topology_epoch |-> epoch]

MCIdentities == {Id(0, 2, "e0"), Id(1, 1, "e1"), Id(1, 2, "e0")}

Plan(epoch, m, shares) ==
  [world_size |-> Len(shares), topology_epoch |-> epoch, work_manifest_digest |-> m,
   rank_work_ids |-> shares]

MCPlans ==
  {Plan("e0", m1, s) : s \in {<<{0, 1}, {2}>>,   \* the whole manifest
                              <<{1}, {0}>>, <<{2}, {}>>, <<{1}, {2}>>,
                              <<{0}, {2}>>,      \* skips window 1
                              <<{0, 1}, {1}>>,   \* window 1 on both ranks
                              <<{2}, {3}>>}}     \* beyond the manifest
  \cup {Plan("e1", m1, s) : s \in {<<{0}>>, <<{1, 2}>>, <<{2}>>}}
  \cup {Plan("e0", m2, <<{0}, {1}>>), Plan("e1", m2, <<{0}>>)}

=============================================================================
