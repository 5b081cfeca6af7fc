----------------------------- MODULE LossyQueue -----------------------------
(***************************************************************************)
(* The abstract promise of the rings between two workers: a queue of       *)
(* bounded capacity that never refuses an item while it is open.  Items    *)
(* are numbered by their age, and each that is offered is newer than those *)
(* before it.  They leave in the order in which they were offered; one     *)
(* that is offered to a full queue displaces the oldest, and no other is   *)
(* ever lost.                                                              *)
(***************************************************************************)
EXTENDS Integers, Sequences

CONSTANTS Queues, Capacity

VARIABLES
  contents,   \* contents[q]: the items offered to q and neither taken nor displaced
  offered,    \* offered[q]: the last item that was offered to q while it was open
  taken,      \* taken[q]: the last item that was taken out of q
  closed      \* closed[q]: q takes no more items, and gives out what it has

queueVars == <<contents, offered, taken, closed>>

QueueInit ==
  /\ contents = [q \in Queues |-> <<>>]
  /\ offered = [q \in Queues |-> 0]
  /\ taken = [q \in Queues |-> 0]
  /\ closed = [q \in Queues |-> FALSE]

Offer(q, x) ==
  /\ ~closed[q] /\ x > offered[q]
  /\ offered' = [offered EXCEPT ![q] = x]
  /\ UNCHANGED <<taken, closed>>
  /\ contents' = [contents EXCEPT ![q] =
       Append(IF Len(@) < Capacity[q] THEN @ ELSE Tail(@), x)]

TakeOldest(q) ==
  /\ contents[q] # <<>>
  /\ taken' = [taken EXCEPT ![q] = Head(contents[q])]
  /\ UNCHANGED <<offered, closed>>
  /\ contents' = [contents EXCEPT ![q] = Tail(@)]

Close(q) ==
  /\ ~closed[q]
  /\ closed' = [closed EXCEPT ![q] = TRUE]
  /\ UNCHANGED <<contents, offered, taken>>

\* The item is taken from the next value of offered: any may be offered.
QueueNext ==
  \E q \in Queues : Offer(q, offered'[q]) \/ TakeOldest(q) \/ Close(q)

QueueSpec == QueueInit /\ [][QueueNext]_queueVars
=============================================================================
