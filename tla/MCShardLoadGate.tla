-------------------------- MODULE MCShardLoadGate ---------------------------
(***************************************************************************)
(* Threads on one key, with a flight that can be led, fenced and led again. *)
(* Keys share nothing but the admission budget, and two leaders of one key *)
(* (the fenced and the new one) already compete for that.  p2 is what a    *)
(* corrupted entry or a wrong durable read holds.                          *)
(***************************************************************************)
EXTENDS ShardLoadGate, TLC

CONSTANTS t1, t2, t3, k1, p1, p2

MCThreads == {t1, t2, t3}
MCRequests == {<<k1, p1>>}

\* Threads run the same code and none is named in a safety property.
ThreadSymmetry == Permutations(MCThreads)
=============================================================================
