--------------------------- MODULE RobotPipeline ----------------------------
(***************************************************************************)
(* The four worker threads of spsc_robot_pipeline.py (sensor, state,       *)
(* inference, control), the three rings between them and the safety latch. *)
(*                                                                         *)
(* A call of push or of pop is one step: neither calls a function or loops, *)
(* and these are the points where CPython (3.11 in the repository's image, *)
(* 3.12 in its CI) lets another thread run.  drain_latest is a loop of     *)
(* pops, and a worker can be delayed for any time between two steps.  The   *)
(* clock is read in the step that pushes what was stamped with it: a delay *)
(* in between shows no more than the same delay of the consumer.  Sleeps   *)
(* only delay a worker, and the metrics are counters nobody reads.         *)
(*                                                                         *)
(* An item carries the number of the packet it was made from, the packet's *)
(* capture_ns and, for a control window, expires_ns.                       *)
(***************************************************************************)
EXTENDS SpscRing

CONSTANTS
  Capacity,       \* capacities of the rings
  MaxStateAge,    \* max_state_age_ms
  ControlWindow,  \* control_window_ms
  MaxPackets,     \* bound on captured packets
  MaxTime         \* bound on the clock

Rings == {"sensor", "state", "window"}
Workers == {"sensor", "state", "inference", "control"}
Modes == {"NORMAL", "LOCAL_HOLD", "HARD_STOP"}

ASSUME PipelineAssumption ==
  /\ Capacity \in [Rings -> Nat \ {0, 1}]
  /\ MaxStateAge \in Nat /\ ControlWindow \in Nat
  /\ MaxPackets \in Nat /\ MaxTime \in Nat

VARIABLES
  ring,        \* sensor_ring, state_ring, window_ring
  at,          \* where each worker is in its loop
  item,        \* the newest item that a consumer has drained and not yet used
  active,      \* the control worker's active_window
  mode,        \* the latch
  mode_seen,   \* the control worker's snapshot of it
  stop_event,
  now,         \* the monotonic clock
  captured,    \* number of packets captured so far
  pushed,      \* history: ring -> number of the last item that was pushed
  popped,      \* history: ring -> number of the last item that was popped
  distrusted   \* history: a hold was requested before this control cycle

pipelineVars == <<ring, at, item, active, mode, mode_seen, stop_event, now, captured,
          pushed, popped, distrusted>>

Items == [packet : 1 .. MaxPackets, capture_ns : 0 .. MaxTime, expires_ns : Nat]

Source == [state |-> "sensor", inference |-> "state", control |-> "window"]
Consumers == DOMAIN Source

Goto(w, next) == at' = [at EXCEPT ![w] = next]
Take(w, x) == item' = [item EXCEPT ![w] = x]

\* A push into ring r, for all that it changes.
PushInto(r, x) ==
  /\ ring' = [ring EXCEPT ![r] = Push(@, x)]
  /\ pushed' = IF ring[r].closed THEN pushed ELSE [pushed EXCEPT ![r] = x.packet]

PipelineInit ==
  /\ ring = [r \in Rings |-> EmptyRing(Capacity[r])]
  /\ at = [w \in Workers |-> "check"]
  /\ item = [w \in Consumers |-> Nothing]
  /\ active = Nothing
  /\ mode = "NORMAL" /\ mode_seen = "NORMAL"
  /\ stop_event = FALSE
  /\ now = 0
  /\ captured = 0
  /\ pushed = [r \in Rings |-> 0] /\ popped = [r \in Rings |-> 0]
  /\ distrusted = FALSE

-----------------------------------------------------------------------------
(* What the loops share. *)

\* while not self.stop_event.is_set()
EndLoop(w) ==
  /\ at[w] = "check"
  /\ stop_event
  /\ Goto(w, "ended")
  /\ UNCHANGED <<ring, item, active, mode, mode_seen, stop_event, now, captured,
                 pushed, popped, distrusted>>

BeginDrain(w) ==
  /\ at[w] = "check"
  /\ ~stop_event
  /\ Goto(w, "drain")
  /\ distrusted' = IF w = "control" THEN mode # "NORMAL" ELSE distrusted
  /\ UNCHANGED <<ring, item, active, mode, mode_seen, stop_event, now, captured, pushed, popped>>

\* An iteration of drain_latest.
DrainOne(w) ==
  LET r == Source[w]
  IN /\ at[w] = "drain"
     /\ Unread(ring[r])
     /\ Take(w, NextItem(ring[r]))
     /\ ring' = [ring EXCEPT ![r] = Popped(@)]
     /\ popped' = [popped EXCEPT ![r] = NextItem(ring[r]).packet]
     /\ UNCHANGED <<at, active, mode, mode_seen, stop_event, now, captured, pushed, distrusted>>

\* The pop that finds nothing ends drain_latest.
Drained(w) == at[w] = "drain" /\ ~Unread(ring[Source[w]])

-----------------------------------------------------------------------------
(* What is particular to a worker. *)

Capture ==
  /\ at["sensor"] = "check"
  /\ ~stop_event
  /\ captured < MaxPackets
  /\ captured' = captured + 1
  /\ PushInto("sensor", [packet |-> captured + 1, capture_ns |-> now, expires_ns |-> 0])
  /\ UNCHANGED <<at, item, active, mode, mode_seen, stop_event, now, popped, distrusted>>

\* state_worker and inference_worker after drain_latest.
UseDrained(w) ==
  /\ w # "control"
  /\ Drained(w)
  /\ Goto(w, IF item[w] = Nothing THEN "check" ELSE IF w = "state" THEN "prepare" ELSE "age")
  /\ UNCHANGED <<ring, item, active, mode, mode_seen, stop_event, now, captured, pushed, popped,
                 distrusted>>

PrepareState ==
  /\ at["state"] = "prepare"
  /\ PushInto("state", item["state"])
  /\ Take("state", Nothing)
  /\ Goto("state", "check")
  /\ UNCHANGED <<active, mode, mode_seen, stop_event, now, captured, popped, distrusted>>

\* request_hold: a hard stop is not weakened.
HeldNot == mode
Held == IF mode = "HARD_STOP" THEN mode ELSE "LOCAL_HOLD"

RequestHold ==
  /\ mode' = Held
  /\ Take("inference", Nothing)
  /\ Goto("inference", "check")
  /\ UNCHANGED <<ring, active, mode_seen, stop_event, now, captured, pushed, popped,
                 distrusted>>

TooOld == now - item["inference"].capture_ns > MaxStateAge

StateTooOld == at["inference"] = "age" /\ TooOld /\ RequestHold

StateFresh ==
  /\ at["inference"] = "age"
  /\ ~TooOld
  /\ Goto("inference", "predict")
  /\ UNCHANGED <<ring, item, active, mode, mode_seen, stop_event, now, captured, pushed, popped,
                 distrusted>>

\* The report is late, uncertain or without a candidate.
PredictionRefused == at["inference"] = "predict" /\ RequestHold

PredictionAccepted ==
  /\ at["inference"] = "predict"
  /\ PushInto("window", [item["inference"] EXCEPT !.expires_ns = now + ControlWindow])
  /\ Take("inference", Nothing)
  /\ Goto("inference", "check")
  /\ UNCHANGED <<active, mode, mode_seen, stop_event, now, captured, popped, distrusted>>

\* predict_fn raises: the thread ends, and no hold is requested.
PredictRaises ==
  /\ at["inference"] = "predict"
  /\ Take("inference", Nothing)
  /\ Goto("inference", "ended")
  /\ UNCHANGED <<ring, active, mode, mode_seen, stop_event, now, captured, pushed, popped,
                 distrusted>>

\* control_worker after drain_latest: the newest window replaces the active
\* one, and the latch is read.
Snapshot ==
  /\ Drained("control")
  /\ active' = IF item["control"] # Nothing THEN item["control"] ELSE active
  /\ Take("control", Nothing)
  /\ mode_seen' = mode
  /\ Goto("control", "decide")
  /\ UNCHANGED <<ring, mode, stop_event, now, captured, pushed, popped, distrusted>>

MayAcceptAnyMode == active # Nothing /\ now < active.expires_ns
MayAccept == mode_seen = "NORMAL" /\ active # Nothing /\ now < active.expires_ns

\* The end of a control cycle; its snapshot is dead from here on.
EndCycle ==
  /\ Goto("control", "check")
  /\ mode_seen' = "NORMAL"
  /\ distrusted' = FALSE
  /\ UNCHANGED <<ring, item, mode, stop_event, now, captured, pushed, popped>>

AcceptWindow ==
  /\ at["control"] = "decide"
  /\ MayAccept
  /\ EndCycle
  /\ UNCHANGED active

HoldInstead ==
  /\ at["control"] = "decide"
  /\ ~MayAccept
  /\ EndCycle
  /\ active' = Nothing

-----------------------------------------------------------------------------
(* The main thread and the environment. *)

Stop ==
  /\ ~stop_event
  /\ stop_event' = TRUE
  /\ UNCHANGED <<ring, at, item, active, mode, mode_seen, now, captured, pushed, popped, distrusted>>

\* stop closes the rings in this order.
CloseRing(r) ==
  /\ stop_event
  /\ ~ring[r].closed
  /\ r = "state" => ring["sensor"].closed
  /\ r = "window" => ring["state"].closed
  /\ ring' = [ring EXCEPT ![r].closed = TRUE]
  /\ UNCHANGED <<at, item, active, mode, mode_seen, stop_event, now, captured, pushed, popped,
                 distrusted>>

\* External: whoever watches the robot calls SafetyLatch.hard_stop.
HardStop ==
  /\ mode # "HARD_STOP"
  /\ mode' = "HARD_STOP"
  /\ UNCHANGED <<ring, at, item, active, mode_seen, stop_event, now, captured, pushed, popped,
                 distrusted>>

\* External: time passes.
TimePasses ==
  /\ now < MaxTime
  /\ now' = now + 1
  /\ UNCHANGED <<ring, at, item, active, mode, mode_seen, stop_event, captured, pushed, popped,
                 distrusted>>

PipelineNext ==
  \/ \E w \in Workers : EndLoop(w)
  \/ \E w \in Consumers : BeginDrain(w) \/ DrainOne(w) \/ UseDrained(w)
  \/ Capture
  \/ PrepareState
  \/ StateTooOld \/ StateFresh \/ PredictionRefused \/ PredictionAccepted \/ PredictRaises
  \/ Snapshot \/ AcceptWindow \/ HoldInstead
  \/ Stop \/ \E r \in Rings : CloseRing(r)
  \/ HardStop
  \/ TimePasses

PipelineSpec == PipelineInit /\ [][PipelineNext]_pipelineVars

-----------------------------------------------------------------------------
(***************************************************************************)
(* Properties.                                                             *)
(***************************************************************************)

\* Type invariant; the rings stay well formed though both sides move tail.
PipelineTypeOK ==
  /\ \A r \in Rings : /\ WellFormed(ring[r])
                      /\ \A i \in DOMAIN ring[r].slots : ring[r].slots[i] \in Items \cup {Nothing}
  /\ at \in [Workers -> {"check", "drain", "prepare", "age", "predict", "decide", "ended"}]
  /\ item \in [Consumers -> Items \cup {Nothing}] /\ active \in Items \cup {Nothing}
  /\ {mode, mode_seen} \subseteq Modes
  /\ {stop_event, distrusted} \subseteq BOOLEAN
  /\ now \in 0 .. MaxTime /\ captured \in 0 .. MaxPackets
  /\ {pushed, popped} \subseteq [Rings -> 0 .. MaxPackets]

\* Latest only: through all three rings, with items dropped and drained at
\* any moment, no worker ever gets an item that is older than (or the same
\* as) one it had before, and what drain_latest returns is the newest item
\* that was pushed.
LatestOnly ==
  [][\A w \in Consumers :
       LET r == Source[w]
       IN /\ popped'[r] # popped[r] => popped'[r] > popped[r]
          /\ at[w] = "drain" /\ at'[w] # "drain" /\ item[w] # Nothing =>
               item[w].packet = pushed[r]]_pipelineVars

\* The rings implement queues that displace only the oldest item, and only when
\* they are full, although producer and consumer both move the read index, and
\* each item that is offered to one is newer than those before it.  The packets
\* that a ring holds are those in the slots between its two indices.
Queued(g) ==
  [i \in 1 .. g.head - g.tail |-> g.slots[(g.tail + i - 1) % g.capacity].packet]

QueuedPackets == [r \in Rings |-> Queued(ring[r])]
ClosedRings == [r \in Rings |-> ring[r].closed]

Lossy == INSTANCE LossyQueue WITH
  Queues <- Rings, contents <- QueuedPackets, offered <- pushed, taken <- popped,
  closed <- ClosedRings

ImplementsLossyQueues == Lossy!QueueSpec

\* A control cycle that begins after a hold or a hard stop was requested
\* accepts no window, whatever is still on its way through the rings.
HeldCycleAcceptsNothing ==
  [][at["control"] = "decide" /\ MayAccept /\ at'["control"] = "check" => ~distrusted]_pipelineVars
=============================================================================
