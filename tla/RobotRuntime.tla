---------------------------- MODULE RobotRuntime ----------------------------
(***************************************************************************)
(* SingleFlightInferenceWorker and SafeHandoverCoordinator of              *)
(* ac_vjepa_core.py: planning threads that ask one model for a prediction  *)
(* before a deadline, hand over to a local hold when there is none, and    *)
(* then let the LLM choose how to go on.                                   *)
(*                                                                         *)
(* The model runs requests one after the other and is never interrupted:   *)
(* a result may arrive long after its caller has given up.                 *)
(***************************************************************************)
EXTENDS Integers, Sequences, FiniteSets

CONSTANTS
  Planners,       \* threads that call plan_or_handover
  MaxRequests     \* bound on the requests submitted to the model

VARIABLES
  futures,     \* the requests submitted to the executor, with their results
  inflight,    \* _inflight: the number of a request, or 0
  planner      \* planner -> its call (at, request), the mode it was last told, and
               \* whether it has a supervision packet

runtimeVars == <<futures, inflight, planner>>

Results == {"certain", "uncertain", "invalid", "raised"}

Idle == [at |-> "idle", request |-> 0, mode |-> "none", packet |-> FALSE]

Unfinished == {n \in 1 .. Len(futures) : futures[n] = "running"}

Done(n) == n \notin Unfinished

\* The decision that ends a call; _fallback prepares the packet with it.
Decide(p, mode) ==
  planner' = [planner EXCEPT ![p] = [Idle EXCEPT !.mode = mode, !.packet = (mode = "local_hold")]]

-----------------------------------------------------------------------------
(* plan_or_handover. *)

\* Without a confirmed health, or with a stale state, no request is made.
HandOverUnasked(p, healthy) ==
  /\ planner[p].at = "idle"
  /\ Decide(p, IF healthy THEN "local_hold" ELSE "hard_stop")
  /\ UNCHANGED <<futures, inflight>>

\* A request in flight makes the worker busy until its future is done.
Busy == inflight # 0 /\ ~Done(inflight)

\* The section under the lock; the executor queues the request.
Submit(p) ==
  /\ planner[p].at = "idle"
  /\ Len(futures) < MaxRequests
  /\ ~Busy
  /\ futures' = Append(futures, "running")
  /\ inflight' = Len(futures')
  /\ planner' = [planner EXCEPT ![p] = [Idle EXCEPT !.at = "waiting", !.request = Len(futures')]]

RefuseBusy(p) ==
  /\ planner[p].at = "idle"
  /\ Busy
  /\ Decide(p, "local_hold")
  /\ UNCHANGED <<futures, inflight>>

\* External: the executor's one thread finishes its oldest request.
ModelFinishes(result) ==
  /\ Unfinished # {}
  /\ LET oldest == CHOOSE n \in Unfinished : \A m \in Unfinished : n <= m
     IN  futures' = [futures EXCEPT ![oldest] = result]
  /\ UNCHANGED <<inflight, planner>>

\* future.result returns, or raises what the model raised: that leaves the call
\* without a decision, and the finished request in flight.
Result(p) ==
  /\ planner[p].at = "waiting"
  /\ Done(planner[p].request)
  /\ IF futures[planner[p].request] = "raised" THEN Decide(p, "none")
                                               ELSE planner' = [planner EXCEPT ![p].at = "landing"]
  /\ UNCHANGED <<futures, inflight>>

\* future.result gives up: the request stays in flight.
Timeout(p) ==
  /\ planner[p].at = "waiting"
  /\ ~Done(planner[p].request)
  /\ Decide(p, "local_hold")
  /\ UNCHANGED <<futures, inflight>>

\* The second section under the lock gives up the flight if it is still the
\* caller's own.  (Whosever it is.)
LandedAny(p) == 0
Landed(p) == IF inflight = planner[p].request THEN 0 ELSE inflight

Land(p) ==
  /\ planner[p].at = "landing"
  /\ inflight' = Landed(p)
  /\ Decide(p, IF futures[planner[p].request] = "certain" THEN "normal" ELSE "local_hold")
  /\ UNCHANGED futures

-----------------------------------------------------------------------------
(* Handover to the LLM. *)

ConfirmLocalHold(p) ==
  /\ planner[p].at = "idle" /\ planner[p].mode = "local_hold"
  /\ planner' = [planner EXCEPT ![p].mode = "llm_supervision"]
  /\ UNCHANGED <<futures, inflight>>

\* validate_choice: motion is planned anew only on a fresh state and confirmed
\* health, with a registered skill or a retry.
ChosenMode(choice, ready, registered) ==
  CASE choice \in {"observe", "ask_user"} -> "llm_supervision"
    [] choice = "select_preapproved_skill" /\ ready /\ registered -> "replan_pending"
    [] choice = "retry_after_health" /\ ready -> "replan_pending"
    [] OTHER -> "local_hold"

\* The packet is enough: whether the hold was confirmed is not asked.
ApplyLlmRecoveryChoice(p, choice, ready, registered) ==
  /\ planner[p].at = "idle" /\ planner[p].packet
  /\ planner' = [planner EXCEPT ![p].mode = ChosenMode(choice, ready, registered)]
  /\ UNCHANGED <<futures, inflight>>

-----------------------------------------------------------------------------
RuntimeInit ==
  /\ futures = <<>> /\ inflight = 0
  /\ planner = [p \in Planners |-> Idle]

RecoveryChoice == {"observe", "ask_user", "select_preapproved_skill", "retry_after_health", "end_task"}

RuntimeNext ==
  \/ \E p \in Planners :
       \/ \E healthy \in BOOLEAN : HandOverUnasked(p, healthy)
       \/ Submit(p) \/ RefuseBusy(p) \/ Result(p) \/ Timeout(p) \/ Land(p)
       \/ ConfirmLocalHold(p)
       \/ \E choice \in RecoveryChoice, ready, registered \in BOOLEAN :
            ApplyLlmRecoveryChoice(p, choice, ready, registered)
  \/ \E result \in Results : ModelFinishes(result)

RuntimeSpec == RuntimeInit /\ [][RuntimeNext]_runtimeVars

-----------------------------------------------------------------------------
(* Properties. *)

\* However calls overlap, time out, fail and are overtaken: the model never has a
\* second request behind the one it runs, and while it runs one that one is in
\* flight, so that nobody's deadline is spent in the executor's queue.
OneInference == Unfinished \subseteq {inflight}
=============================================================================
