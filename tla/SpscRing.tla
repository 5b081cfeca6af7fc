------------------------------ MODULE SpscRing ------------------------------
(***************************************************************************)
(* The bounded ring of spsc_robot_pipeline.py as operators on a ring       *)
(* record: slots addressed modulo the capacity, and the logical write and  *)
(* read indices, which only grow.  A push into a full ring discards the    *)
(* oldest unread item, so the producer moves the consumer's index too.     *)
(* The counter dropped is left out: nothing depends on it.                 *)
(***************************************************************************)
EXTENDS Integers

CONSTANT Nothing   \* an empty slot, and the result of pop on an empty ring

EmptyRing(capacity) ==
  [slots |-> [i \in 0 .. capacity - 1 |-> Nothing], capacity |-> capacity,
   head |-> 0, tail |-> 0, closed |-> FALSE]

\* (A ring that keeps one slot free.)
FullOneEarly(ring) == ring.head - ring.tail >= ring.capacity - 1
Full(ring) == ring.head - ring.tail >= ring.capacity

\* The drop-oldest step of push.
WithRoomTailKept(ring) ==
  IF Full(ring) THEN [ring EXCEPT !.slots[ring.tail % ring.capacity] = Nothing] ELSE ring
WithRoom(ring) ==
  IF Full(ring)
    THEN [ring EXCEPT !.slots[ring.tail % ring.capacity] = Nothing, !.tail = @ + 1]
    ELSE ring

\* push returns FALSE on a closed ring and leaves it as it is.
Push(ring, item) ==
  LET r == WithRoom(ring)
  IN IF ring.closed THEN ring
     ELSE [r EXCEPT !.slots[r.head % r.capacity] = item, !.head = @ + 1]

Unread(ring) == ring.tail < ring.head

NextItem(ring) == ring.slots[ring.tail % ring.capacity]

\* pop on a ring with an unread item.
Popped(ring) ==
  [ring EXCEPT !.slots[ring.tail % ring.capacity] = Nothing, !.tail = @ + 1]

\* What holds of a ring between any two calls: its indices are at most the
\* capacity apart, and exactly the slots between them hold an item.
WellFormed(ring) ==
  /\ ring.tail \in 0 .. ring.head
  /\ ring.head - ring.tail <= ring.capacity
  /\ \A i \in 0 .. ring.capacity - 1 :
       ring.slots[i] # Nothing <=> \E n \in ring.tail .. ring.head - 1 : n % ring.capacity = i
=============================================================================
