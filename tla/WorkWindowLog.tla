--------------------------- MODULE WorkWindowLog ---------------------------
(***************************************************************************)
(* The abstract promise of the cursor ledger.  Every run owns an ordered   *)
(* list of training windows, numbered 0, 1, 2, ...  At any time a prefix   *)
(* of that list is done, and at most one further contiguous range is in    *)
(* flight.  A range in flight is either published, and then the prefix     *)
(* grows by exactly that range, or abandoned, and then the prefix stays    *)
(* and the same windows are offered again.  Nothing is skipped, nothing    *)
(* enters the prefix twice, and the prefix never shrinks.                  *)
(***************************************************************************)
EXTENDS Integers

CONSTANT Runs

VARIABLES
  done,       \* done[r]: the windows of run r that are finished for good
  inflight    \* inflight[r]: the windows of run r reserved for one update

logVars == <<done, inflight>>

\* A set of windows that is the list's first few elements.
IsPrefix(S) == \A i \in S : i \in Nat /\ \A j \in 0 .. i : j \in S

LogInit ==
  /\ done = [r \in Runs |-> {}]
  /\ inflight = [r \in Runs |-> {}]

\* Reserve the windows S that directly follow the finished prefix.
Reserve(r, S) ==
  /\ inflight[r] = {}
  /\ S # {}
  /\ S \cap done[r] = {}
  /\ IsPrefix(done[r] \cup S)
  /\ inflight' = [inflight EXCEPT ![r] = S]
  /\ UNCHANGED done

Publish(r) ==
  /\ inflight[r] # {}
  /\ done' = [done EXCEPT ![r] = @ \cup inflight[r]]
  /\ inflight' = [inflight EXCEPT ![r] = {}]

Abandon(r) ==
  /\ inflight[r] # {}
  /\ inflight' = [inflight EXCEPT ![r] = {}]
  /\ UNCHANGED done

\* S is taken from the next value of inflight, so that the choice of the
\* reserved range needs no bound on the number of windows.
LogNext ==
  \E r \in Runs : Reserve(r, inflight'[r]) \/ Publish(r) \/ Abandon(r)

LogSpec == LogInit /\ [][LogNext]_logVars
=============================================================================
