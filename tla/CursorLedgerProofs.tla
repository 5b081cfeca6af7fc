------------------------ MODULE CursorLedgerProofs -------------------------
(***************************************************************************)
(* Proofs about CursorLedger for every set of runs, manifests, identities, *)
(* plans and attempts.                                                     *)
(***************************************************************************)
EXTENDS CursorLedger, FiniteSetTheorems, TLAPS

\* Every row of update_attempts keeps what its reservation established.
RowsWellFormed ==
  \A a \in DOMAIN attempts :
    /\ attempts[a].run_key \in DOMAIN cursors
    /\ ValidPlan(attempts[a].plan)
    /\ attempts[a].work_ids = AllWorkIds(attempts[a].plan)
    /\ attempts[a].work_ids = Slice(attempts[a].start_offset, attempts[a].end_offset)
    /\ attempts[a].start_offset < attempts[a].end_offset

CommittedFinite == \A r \in DOMAIN cursors : IsFiniteSet(InState(r, "COMMITTED"))

\* The inductive invariant, in two parts: the second relies on the first.
ReservationInv == TypeOK /\ RowsWellFormed /\ ReservationIsNextRange

PrefixInv == CommittedFinite /\ ExactlyOnceBelowCursor /\ CommitLineage

-----------------------------------------------------------------------------
(***************************************************************************)
(* Lemmas on the operators.                                                *)
(***************************************************************************)

\* The columns of an attempt that no operation rewrites.
SameColumns(x, y) ==
  /\ x.run_key = y.run_key /\ x.parent = y.parent
  /\ x.start_offset = y.start_offset /\ x.end_offset = y.end_offset
  /\ x.plan = y.plan /\ x.work_ids = y.work_ids

\* A valid plan holds a positive, finite number of windows.
LEMMA PlanSize ==
  ASSUME NEW p \in Plans, ValidPlan(p)
  PROVE  Cardinality(AllWorkIds(p)) \in Nat \ {0} /\ AllWorkIds(p) \subseteq Nat
<1> DEFINE Shares == {p.rank_work_ids[k] : k \in 1 .. p.world_size}
<1>1. /\ p.world_size \in Nat
      /\ p.rank_work_ids \in [1 .. p.world_size -> SUBSET Nat]
      /\ \A k \in 1 .. p.world_size : IsFiniteSet(p.rank_work_ids[k])
  BY LedgerAssumption DEF LedgerAssumption
<1>2. IsFiniteSet(1 .. p.world_size)
  BY <1>1, FS_Interval
<1>3. IsFiniteSet(Shares)
  <2> DEFINE f == [k \in 1 .. p.world_size |-> p.rank_work_ids[k]]
  <2>1. f \in Surjection(1 .. p.world_size, Shares)
    BY DEF Surjection
  <2> QED
    BY <1>2, <2>1, FS_Surjection
<1>4. IsFiniteSet(UNION Shares)
  BY <1>1, <1>3, FS_UNION
<1>5. AllWorkIds(p) = UNION Shares /\ AllWorkIds(p) # {}
  BY DEF AllWorkIds, ValidPlan
<1>6. Cardinality(AllWorkIds(p)) \in Nat /\ Cardinality(AllWorkIds(p)) # 0
  BY <1>4, <1>5, FS_CardinalityType, FS_EmptySet
<1>7. AllWorkIds(p) \subseteq Nat
  BY <1>1 DEF AllWorkIds
<1> QED BY <1>6, <1>7

\* What each operation does to the rows and to the sets of live and committed
\* attempts.
LEMMA PrepareEffect ==
  ASSUME TypeOK, NEW a \in AttemptIds, NEW r \in Runs, NEW m \in Manifests,
         NEW p \in Plans, NEW id \in Identities, PrepareNextUpdate(a, r, m, p, id)
  PROVE  /\ DOMAIN attempts' = DOMAIN attempts \cup {a}
         /\ \A b \in DOMAIN attempts : attempts'[b] = attempts[b]
         /\ \A q : InState(q, "COMMITTED")' = InState(q, "COMMITTED")
         /\ \A q : q # r => InState(q, "PREPARED")' = InState(q, "PREPARED")
         /\ InState(r, "PREPARED")' = {a}
         /\ attempts'[a].run_key = r /\ attempts'[a].parent = cursors[r].commit_id
         /\ attempts'[a].start_offset = cursors[r].next_offset
         /\ attempts'[a].end_offset = cursors[r].next_offset + Cardinality(AllWorkIds(p))
         /\ attempts'[a].plan = p /\ attempts'[a].work_ids = AllWorkIds(p)
         /\ attempts'[a].identity = id /\ attempts'[a].status = "PREPARED"
BY DEF PrepareNextUpdate, InState, NoLiveReservation

LEMMA AbortEffect ==
  ASSUME TypeOK, NEW a \in AttemptIds, AbortUncommitted(a)
  PROVE  /\ DOMAIN attempts' = DOMAIN attempts
         /\ \A b \in DOMAIN attempts : /\ attempts'[b] \in Attempt
                                       /\ SameColumns(attempts'[b], attempts[b])
         /\ \A q : InState(q, "COMMITTED")' = InState(q, "COMMITTED")
         /\ \A q : InState(q, "PREPARED")' \subseteq InState(q, "PREPARED")
BY DEF AbortUncommitted, InState, TypeOK, Attempt, SameColumns

LEMMA RecoverEffect ==
  ASSUME TypeOK, NEW r \in Runs, NEW m \in Manifests, NEW id \in Identities,
         RecoverAfterRendezvous(r, m, id)
  PROVE  /\ DOMAIN attempts' = DOMAIN attempts
         /\ \A b \in DOMAIN attempts : /\ attempts'[b] \in Attempt
                                       /\ SameColumns(attempts'[b], attempts[b])
         /\ \A q : InState(q, "COMMITTED")' = InState(q, "COMMITTED")
         /\ \A q : q # r => InState(q, "PREPARED")' = InState(q, "PREPARED")
         /\ InState(r, "PREPARED")' = {}
BY DEF RecoverAfterRendezvous, InState, TypeOK, Attempt, SameColumns

LEMMA CommitEffect ==
  ASSUME TypeOK, NEW a \in AttemptIds, NEW m \in Manifests, NEW c \in Checkpoints,
         NEW id \in Identities, CommitUpdate(a, m, c, id)
  PROVE  /\ a \in DOMAIN attempts
         /\ a \in InState(attempts[a].run_key, "PREPARED")
         /\ DOMAIN attempts' = DOMAIN attempts
         /\ \A b \in DOMAIN attempts : /\ attempts'[b] \in Attempt
                                       /\ SameColumns(attempts'[b], attempts[b])
         /\ \A q : InState(q, "PREPARED")' = InState(q, "PREPARED") \ {a}
         /\ \A q : q # attempts[a].run_key =>
                     InState(q, "COMMITTED")' = InState(q, "COMMITTED")
         /\ InState(attempts[a].run_key, "COMMITTED")'
              = InState(attempts[a].run_key, "COMMITTED") \cup {a}
         /\ a \notin InState(attempts[a].run_key, "COMMITTED")
BY DEF CommitUpdate, Committable, InState, TypeOK, Attempt, SameColumns

\* What commit_update writes over the cursor of the attempt's run, and that it
\* leaves the other runs' cursors alone.
LEMMA CommitCursor ==
  ASSUME TypeOK, RowsWellFormed, NEW a \in AttemptIds, NEW m \in Manifests,
         NEW c \in Checkpoints, NEW id \in Identities, CommitUpdate(a, m, c, id)
  PROVE  /\ DOMAIN cursors' = DOMAIN cursors
         /\ \A q \in DOMAIN cursors : q # attempts[a].run_key => cursors'[q] = cursors[q]
         /\ attempts[a].run_key \in DOMAIN cursors
         /\ cursors'[attempts[a].run_key] \in Cursor
         /\ cursors'[attempts[a].run_key].commit_id = a
         /\ cursors'[attempts[a].run_key].next_offset = attempts[a].end_offset
         /\ cursors'[attempts[a].run_key].manifest = cursors[attempts[a].run_key].manifest
         /\ cursors'[attempts[a].run_key].committed_step
              = cursors[attempts[a].run_key].committed_step + 1
         /\ cursors[attempts[a].run_key].next_offset = attempts[a].start_offset
         /\ cursors[attempts[a].run_key].commit_id = attempts[a].parent
<1> DEFINE run == attempts[a].run_key
           row == cursors[run]
<1>1. /\ a \in DOMAIN attempts /\ run \in DOMAIN cursors
      /\ cursors' = [cursors EXCEPT ![run] = Advanced(a, c, id)]
      /\ row.next_offset = attempts[a].start_offset /\ row.commit_id = attempts[a].parent
  BY DEF CommitUpdate, Committable, RowsWellFormed
<1>2. row \in Cursor /\ attempts[a] \in Attempt
  BY <1>1 DEF TypeOK
<1>3. /\ row.committed_step \in Nat /\ row.manifest \in Manifests
      /\ attempts[a].end_offset \in Nat
  BY <1>2 DEF Cursor, Attempt
<1>4. /\ Advanced(a, c, id) \in Cursor
      /\ Advanced(a, c, id).commit_id = a
      /\ Advanced(a, c, id).next_offset = attempts[a].end_offset
      /\ Advanced(a, c, id).manifest = row.manifest
      /\ Advanced(a, c, id).committed_step = row.committed_step + 1
  BY <1>3 DEF Advanced, Cursor
<1> QED
  BY <1>1, <1>4

-----------------------------------------------------------------------------
(***************************************************************************)
(* The reservation invariant.                                              *)
(***************************************************************************)

\* The initial tables are empty.
LEMMA InitReservation == LedgerInit => ReservationInv
BY DEF LedgerInit, ReservationInv, TypeOK, RowsWellFormed, ReservationIsNextRange, InState

LEMMA BootstrapReservation ==
  ASSUME ReservationInv, NEW r \in Runs, NEW m \in Manifests, NEW c \in Checkpoints,
         NEW id \in Identities, Bootstrap(r, m, c, id)
  PROVE  ReservationInv'
<1>1. /\ UNCHANGED <<attempts, disk, retired>>
      /\ DOMAIN cursors' = DOMAIN cursors \cup {r} /\ r \notin DOMAIN cursors
      /\ \A q \in DOMAIN cursors : cursors'[q] = cursors[q]
      /\ cursors'[r] = [commit_id |-> Genesis, committed_step |-> 0, next_offset |-> 0,
                 checkpoint |-> c, manifest |-> m, world_size |-> id.world_size,
                 topology_epoch |-> id.topology_epoch]
  BY DEF Bootstrap
<1>2. cursors'[r] \in Cursor /\ cursors'[r].next_offset <= WindowCount[cursors'[r].manifest]
  BY <1>1, LedgerAssumption DEF Cursor, LedgerAssumption
<1>3. TypeOK'
  BY <1>1, <1>2 DEF ReservationInv, TypeOK
<1>4. RowsWellFormed'
  BY <1>1 DEF ReservationInv, RowsWellFormed
<1>5. ReservationIsNextRange'
  BY <1>1 DEF ReservationInv, ReservationIsNextRange, InState
<1> QED
  BY <1>3, <1>4, <1>5 DEF ReservationInv

LEMMA PrepareReservation ==
  ASSUME ReservationInv, NEW a \in AttemptIds, NEW r \in Runs, NEW m \in Manifests,
         NEW p \in Plans, NEW id \in Identities, PrepareNextUpdate(a, r, m, p, id)
  PROVE  ReservationInv'
<1> DEFINE start == cursors[r].next_offset
           end == start + Cardinality(AllWorkIds(p))
<1>1. /\ UNCHANGED <<cursors, disk, retired>> /\ a \notin DOMAIN attempts
      /\ r \in DOMAIN cursors /\ ValidPlan(p) /\ end <= WindowCount[cursors[r].manifest]
      /\ AllWorkIds(p) = Slice(start, end)
  BY DEF PrepareNextUpdate, InsideManifest
<1>2. Cardinality(AllWorkIds(p)) \in Nat \ {0} /\ AllWorkIds(p) \subseteq Nat
  BY <1>1, PlanSize
<1>3. start \in Nat /\ end \in Nat /\ start < end /\ cursors[r].commit_id \in AttemptIds \cup {Genesis}
  BY <1>1, <1>2 DEF ReservationInv, TypeOK, Cursor
<1>4. /\ DOMAIN attempts' = DOMAIN attempts \cup {a}
      /\ \A b \in DOMAIN attempts : attempts'[b] = attempts[b]
      /\ \A q : q # r => InState(q, "PREPARED")' = InState(q, "PREPARED")
      /\ InState(r, "PREPARED")' = {a}
      /\ attempts'[a] = [run_key |-> r, parent |-> cursors[r].commit_id,
                 start_offset |-> start, end_offset |-> end, plan |-> p, identity |-> id,
                 status |-> "PREPARED", work_ids |-> AllWorkIds(p)]
  BY PrepareEffect DEF ReservationInv, PrepareNextUpdate
<1>5. TypeOK'
  <2>1. attempts'[a] \in Attempt
    BY <1>2, <1>3, <1>4 DEF Attempt
  <2> QED
    BY <1>1, <1>4, <2>1 DEF ReservationInv, TypeOK
<1>6. RowsWellFormed'
  BY <1>1, <1>3, <1>4 DEF ReservationInv, RowsWellFormed
<1>7. ReservationIsNextRange'
  <2> SUFFICES ASSUME NEW q \in Runs, NEW b \in InState(q, "PREPARED")'
               PROVE  /\ q \in DOMAIN cursors'
                      /\ InState(q, "PREPARED")' = {b}
                      /\ attempts'[b].parent = cursors'[q].commit_id
                      /\ attempts'[b].start_offset = cursors'[q].next_offset
                      /\ attempts'[b].work_ids = Slice(attempts'[b].start_offset, attempts'[b].end_offset)
                      /\ attempts'[b].end_offset \in
                           cursors'[q].next_offset + 1 .. WindowCount[cursors'[q].manifest]
                      /\ AllWorkIds(attempts'[b].plan) = attempts'[b].work_ids
    BY DEF ReservationIsNextRange
  <2>1. CASE q = r
    <3>1. b = a
      BY <1>4, <2>1
    <3>2. WindowCount[cursors[r].manifest] \in Nat
      BY <1>1, LedgerAssumption DEF LedgerAssumption, ReservationInv, TypeOK, Cursor
    <3> QED
      BY <1>1, <1>3, <1>4, <2>1, <3>1, <3>2
  <2>2. CASE q # r
    <3>1. b \in InState(q, "PREPARED") /\ InState(q, "PREPARED")' = InState(q, "PREPARED")
      BY <1>4, <2>2
    <3>2. b \in DOMAIN attempts /\ attempts'[b] = attempts[b]
      BY <1>4, <3>1 DEF InState
    <3> QED
      BY <1>1, <3>1, <3>2 DEF ReservationInv, ReservationIsNextRange
  <2> QED
    BY <2>1, <2>2
<1> QED
  BY <1>5, <1>6, <1>7 DEF ReservationInv

\* Abort and recovery only take attempts out of the live set.
LEMMA ShrinkReservation ==
  ASSUME ReservationInv, UNCHANGED <<cursors, disk>>,
         retired' \in [Runs -> SUBSET ({id.topology_epoch : id \in Identities}
                                 \cup {p.topology_epoch : p \in Plans})],
         DOMAIN attempts' = DOMAIN attempts,
         \A b \in DOMAIN attempts : /\ attempts'[b] \in Attempt
                                    /\ SameColumns(attempts'[b], attempts[b]),
         \A q : InState(q, "PREPARED")' \subseteq InState(q, "PREPARED")
  PROVE  ReservationInv'
<1>1. TypeOK'
  BY DEF ReservationInv, TypeOK
<1>2. RowsWellFormed'
  BY DEF ReservationInv, RowsWellFormed, SameColumns
<1>3. ReservationIsNextRange'
  <2> SUFFICES ASSUME NEW q \in Runs, NEW b \in InState(q, "PREPARED")'
               PROVE  /\ q \in DOMAIN cursors'
                      /\ InState(q, "PREPARED")' = {b}
                      /\ attempts'[b].parent = cursors'[q].commit_id
                      /\ attempts'[b].start_offset = cursors'[q].next_offset
                      /\ attempts'[b].work_ids = Slice(attempts'[b].start_offset, attempts'[b].end_offset)
                      /\ attempts'[b].end_offset \in
                           cursors'[q].next_offset + 1 .. WindowCount[cursors'[q].manifest]
                      /\ AllWorkIds(attempts'[b].plan) = attempts'[b].work_ids
    BY DEF ReservationIsNextRange
  <2>1. b \in InState(q, "PREPARED") /\ InState(q, "PREPARED") = {b}
    BY DEF ReservationInv, ReservationIsNextRange
  <2>2. InState(q, "PREPARED")' = {b} /\ b \in DOMAIN attempts
    BY <2>1 DEF InState
  <2> QED
    BY <2>1, <2>2 DEF ReservationInv, ReservationIsNextRange, SameColumns
<1> QED
  BY <1>1, <1>2, <1>3 DEF ReservationInv

LEMMA CommitReservation ==
  ASSUME ReservationInv, NEW a \in AttemptIds, NEW m \in Manifests, NEW c \in Checkpoints,
         NEW id \in Identities, CommitUpdate(a, m, c, id)
  PROVE  ReservationInv'
<1> DEFINE run == attempts[a].run_key
<1>1. TypeOK /\ RowsWellFormed /\ UNCHANGED <<disk, retired>>
  BY DEF ReservationInv, CommitUpdate
<1>2. /\ a \in DOMAIN attempts /\ a \in InState(run, "PREPARED") /\ run \in Runs
      /\ DOMAIN attempts' = DOMAIN attempts
      /\ \A b \in DOMAIN attempts : /\ attempts'[b] \in Attempt
                                    /\ SameColumns(attempts'[b], attempts[b])
      /\ \A q : InState(q, "PREPARED")' = InState(q, "PREPARED") \ {a}
  BY <1>1, CommitEffect DEF TypeOK, Attempt
<1>3. /\ DOMAIN cursors' = DOMAIN cursors
      /\ \A q \in DOMAIN cursors : q # run => cursors'[q] = cursors[q]
      /\ cursors'[run] \in Cursor
      /\ cursors'[run].next_offset = attempts[a].end_offset
      /\ cursors'[run].manifest = cursors[run].manifest
  BY <1>1, CommitCursor
<1>4. attempts[a].end_offset <= WindowCount[cursors[run].manifest]
  <2>1. WindowCount[cursors[run].manifest] \in Nat /\ cursors[run].next_offset \in Nat
    BY <1>1, <1>2, LedgerAssumption DEF LedgerAssumption, RowsWellFormed, TypeOK, Cursor
  <2>2. attempts[a].end_offset \in
          cursors[run].next_offset + 1 .. WindowCount[cursors[run].manifest]
    BY <1>2 DEF ReservationInv, ReservationIsNextRange
  <2> QED
    BY <2>1, <2>2
<1>5. TypeOK'
  BY <1>1, <1>2, <1>3, <1>4 DEF TypeOK
<1>6. RowsWellFormed'
  BY <1>1, <1>2, <1>3 DEF RowsWellFormed, SameColumns
<1>7. ReservationIsNextRange'
  <2> SUFFICES ASSUME NEW q \in Runs, NEW b \in InState(q, "PREPARED")'
               PROVE  /\ q \in DOMAIN cursors'
                      /\ InState(q, "PREPARED")' = {b}
                      /\ attempts'[b].parent = cursors'[q].commit_id
                      /\ attempts'[b].start_offset = cursors'[q].next_offset
                      /\ attempts'[b].work_ids = Slice(attempts'[b].start_offset, attempts'[b].end_offset)
                      /\ attempts'[b].end_offset \in
                           cursors'[q].next_offset + 1 .. WindowCount[cursors'[q].manifest]
                      /\ AllWorkIds(attempts'[b].plan) = attempts'[b].work_ids
    BY DEF ReservationIsNextRange
  <2>1. /\ b \in InState(q, "PREPARED") /\ b # a /\ InState(q, "PREPARED") = {b}
        /\ q \in DOMAIN cursors /\ b \in DOMAIN attempts
    BY <1>2 DEF ReservationInv, ReservationIsNextRange, InState
  <2>2. q # run
    BY <1>2, <2>1
  <2>3. cursors'[q] = cursors[q] /\ InState(q, "PREPARED")' = {b}
    BY <1>2, <1>3, <2>1, <2>2
  <2> QED
    BY <1>2, <1>3, <2>1, <2>3 DEF ReservationInv, ReservationIsNextRange, SameColumns
<1> QED
  BY <1>5, <1>6, <1>7 DEF ReservationInv

\* Every step of the ledger preserves the reservation invariant.
LEMMA NextReservation == ReservationInv /\ [LedgerNext]_vars => ReservationInv'
<1> SUFFICES ASSUME ReservationInv, [LedgerNext]_vars PROVE ReservationInv'
  OBVIOUS
<1>1. ASSUME NEW r \in Runs, NEW m \in Manifests, NEW c \in Checkpoints,
             NEW id \in Identities, Bootstrap(r, m, c, id)
      PROVE  ReservationInv'
  BY <1>1, BootstrapReservation
<1>2. ASSUME NEW a \in AttemptIds, NEW r \in Runs, NEW m \in Manifests, NEW p \in Plans,
             NEW id \in Identities, PrepareNextUpdate(a, r, m, p, id)
      PROVE  ReservationInv'
  BY <1>2, PrepareReservation
<1>3. ASSUME NEW a \in AttemptIds, AbortUncommitted(a)
      PROVE  ReservationInv'
  <2>1. UNCHANGED <<cursors, disk>> /\ TypeOK /\ retired' = retired
    BY <1>3 DEF AbortUncommitted, ReservationInv
  <2> QED
    BY <1>3, <2>1, AbortEffect, ShrinkReservation DEF TypeOK
<1>4. ASSUME NEW r \in Runs, NEW m \in Manifests, NEW id \in Identities,
             RecoverAfterRendezvous(r, m, id)
      PROVE  ReservationInv'
  <2>1. UNCHANGED <<cursors, disk>> /\ TypeOK /\ r \in DOMAIN cursors
    BY <1>4 DEF RecoverAfterRendezvous, ReservationInv
  <2>2. KnownEpochs(r) \subseteq {i.topology_epoch : i \in Identities}
                                   \cup {p.topology_epoch : p \in Plans}
    BY <2>1 DEF KnownEpochs, TypeOK, Cursor, Attempt
  <2>3. retired' \in [Runs -> SUBSET ({i.topology_epoch : i \in Identities}
                                 \cup {p.topology_epoch : p \in Plans})]
    BY <1>4, <2>1, <2>2 DEF RecoverAfterRendezvous, TypeOK
  <2>4. \A q : InState(q, "PREPARED")' \subseteq InState(q, "PREPARED")
    <3> TAKE q
    <3>1. q = r \/ q # r
      OBVIOUS
    <3> QED
      BY <1>4, <2>1, <3>1, RecoverEffect
  <2> QED
    BY <1>4, <2>1, <2>3, <2>4, RecoverEffect, ShrinkReservation
<1>5. ASSUME NEW a \in AttemptIds, NEW m \in Manifests, NEW c \in Checkpoints,
             NEW id \in Identities, CommitUpdate(a, m, c, id)
      PROVE  ReservationInv'
  BY <1>5, CommitReservation
<1>6. ASSUME NEW u \in LocalUris, NEW h \in Hashes \cup {NoHash}, WriteCheckpoint(u, h)
      PROVE  ReservationInv'
  BY <1>6 DEF WriteCheckpoint, ReservationInv, TypeOK, RowsWellFormed,
              ReservationIsNextRange, InState
<1>7. CASE UNCHANGED vars
  BY <1>7 DEF vars, ReservationInv, TypeOK, RowsWellFormed, ReservationIsNextRange, InState
<1> QED
  BY <1>1, <1>2, <1>3, <1>4, <1>5, <1>6, <1>7 DEF LedgerNext

\* The tables keep their types for every number of runs, attempts and plans,
\* and no cursor passes the end of its manifest.
THEOREM TypeCorrect == LedgerSpec => []TypeOK
<1>1. LedgerSpec => []ReservationInv
  BY InitReservation, NextReservation, PTL DEF LedgerSpec
<1>2. ReservationInv => TypeOK
  BY DEF ReservationInv
<1> QED
  BY <1>1, <1>2, PTL

\* A run never has two live reservations, and the live one is always the next
\* contiguous range after the committed prefix (prepare_next_update).
THEOREM ReservationCorrect == LedgerSpec => []ReservationIsNextRange
<1>1. LedgerSpec => []ReservationInv
  BY InitReservation, NextReservation, PTL DEF LedgerSpec
<1>2. ReservationInv => ReservationIsNextRange
  BY DEF ReservationInv
<1> QED
  BY <1>1, <1>2, PTL

-----------------------------------------------------------------------------
(***************************************************************************)
(* The committed prefix.                                                   *)
(***************************************************************************)

LEMMA InitPrefix == LedgerInit => PrefixInv
BY DEF LedgerInit, PrefixInv, CommittedFinite, ExactlyOnceBelowCursor, CommitLineage

\* The prefix part only reads cursors, the committed set and fixed columns.
LEMMA SamePrefix ==
  ASSUME PrefixInv, UNCHANGED cursors,
         \A b \in DOMAIN attempts : SameColumns(attempts'[b], attempts[b]),
         \A q : InState(q, "COMMITTED")' = InState(q, "COMMITTED")
  PROVE  PrefixInv'
<1>1. \A q : InState(q, "COMMITTED") \subseteq DOMAIN attempts
  BY DEF InState
<1>2. CommittedFinite'
  BY DEF PrefixInv, CommittedFinite
<1>3. ExactlyOnceBelowCursor'
  BY <1>1 DEF PrefixInv, ExactlyOnceBelowCursor, SameColumns
<1>4. CommitLineage'
  BY <1>1 DEF PrefixInv, CommitLineage, SameColumns
<1> QED
  BY <1>2, <1>3, <1>4 DEF PrefixInv

LEMMA BootstrapPrefix ==
  ASSUME ReservationInv, PrefixInv, NEW r \in Runs, NEW m \in Manifests,
         NEW c \in Checkpoints, NEW id \in Identities, Bootstrap(r, m, c, id)
  PROVE  PrefixInv'
<1>1. /\ UNCHANGED attempts
      /\ DOMAIN cursors' = DOMAIN cursors \cup {r} /\ r \notin DOMAIN cursors
      /\ \A q \in DOMAIN cursors : cursors'[q] = cursors[q]
      /\ cursors'[r].commit_id = Genesis /\ cursors'[r].next_offset = 0
      /\ cursors'[r].committed_step = 0
  BY DEF Bootstrap
<1>2. InState(r, "COMMITTED") = {}
  BY <1>1 DEF ReservationInv, RowsWellFormed, InState
<1>3. \A q : InState(q, "COMMITTED")' = InState(q, "COMMITTED")
  BY <1>1 DEF InState
<1>4. CommittedFinite'
  BY <1>1, <1>2, <1>3, FS_EmptySet DEF PrefixInv, CommittedFinite
<1>5. ExactlyOnceBelowCursor'
  BY <1>1, <1>2, <1>3 DEF PrefixInv, ExactlyOnceBelowCursor, Slice
<1>6. CommitLineage'
  BY <1>1, <1>2, <1>3, FS_EmptySet DEF PrefixInv, CommitLineage
<1> QED
  BY <1>4, <1>5, <1>6 DEF PrefixInv

\* The two parts of PrefixInv for one run, with its committed attempts D, the
\* table rows and the run's cursor as parameters, so that a step may be
\* described by what it changes in them.
ExactBelow(D, rows, n) ==
  LET share(a, k) == rows[a].plan.rank_work_ids[k]
      ranks(a) == 1 .. rows[a].plan.world_size
  IN /\ \A i \in Slice(0, n) : \E a \in D : \E k \in ranks(a) : i \in share(a, k)
     /\ \A a, b \in D : \A j \in ranks(a), k \in ranks(b) :
           <<a, j>> # <<b, k>> => share(a, j) \cap share(b, k) = {}
     /\ \A a \in D : \A k \in ranks(a) : share(a, k) \subseteq Slice(0, n)

ChainTo(D, rows, cursor) ==
  /\ cursor.committed_step = Cardinality(D)
  /\ \/ cursor.commit_id = Genesis /\ cursor.next_offset = 0 /\ D = {}
     \/ cursor.commit_id \in D /\ cursor.next_offset = rows[cursor.commit_id].end_offset
  /\ \A a \in D :
       \/ rows[a].parent = Genesis /\ rows[a].start_offset = 0
       \/ rows[a].parent \in D /\ rows[rows[a].parent].end_offset = rows[a].start_offset
  /\ \A a, b \in D : rows[a].parent = rows[b].parent => a = b

ExactEverywhere ==
  \A r \in DOMAIN cursors :
    ExactBelow(InState(r, "COMMITTED"), attempts, cursors[r].next_offset)

ChainEverywhere ==
  \A r \in DOMAIN cursors : ChainTo(InState(r, "COMMITTED"), attempts, cursors[r])

LEMMA ExactByRun ==
  /\ ExactlyOnceBelowCursor <=> ExactEverywhere
  /\ ExactlyOnceBelowCursor' <=> ExactEverywhere'
BY DEF ExactEverywhere, ExactlyOnceBelowCursor, ExactBelow

LEMMA ChainByRun ==
  /\ CommitLineage <=> ChainEverywhere
  /\ CommitLineage' <=> ChainEverywhere'
BY DEF ChainEverywhere, CommitLineage, ChainTo

\* Rows that agree on the columns of D's attempts are as good.
LEMMA SameExact ==
  ASSUME NEW D, NEW rows, NEW others, NEW n,
         \A a \in D : SameColumns(others[a], rows[a]), ExactBelow(D, rows, n)
  PROVE  ExactBelow(D, others, n)
<1>1. \A a \in D : others[a].plan = rows[a].plan
  BY DEF SameColumns
<1>2. \A i \in Slice(0, n) : \E a \in D : \E k \in 1 .. others[a].plan.world_size :
         i \in others[a].plan.rank_work_ids[k]
  BY <1>1 DEF ExactBelow
<1>3. \A a, b \in D : \A j \in 1 .. others[a].plan.world_size, k \in 1 .. others[b].plan.world_size :
         <<a, j>> # <<b, k>> =>
           others[a].plan.rank_work_ids[j] \cap others[b].plan.rank_work_ids[k] = {}
  BY <1>1 DEF ExactBelow
<1>4. \A a \in D : \A k \in 1 .. others[a].plan.world_size :
         others[a].plan.rank_work_ids[k] \subseteq Slice(0, n)
  BY <1>1 DEF ExactBelow
<1> QED
  BY <1>2, <1>3, <1>4 DEF ExactBelow

LEMMA SameChain ==
  ASSUME NEW D, NEW rows, NEW others, NEW cursor,
         \A a \in D : SameColumns(others[a], rows[a]), ChainTo(D, rows, cursor)
  PROVE  ChainTo(D, others, cursor)
BY DEF ChainTo, SameColumns

LEMMA CommitPrefix ==
  ASSUME ReservationInv, PrefixInv, NEW a \in AttemptIds, NEW m \in Manifests,
         NEW c \in Checkpoints, NEW id \in Identities, CommitUpdate(a, m, c, id)
  PROVE  PrefixInv'
<1> DEFINE run == attempts[a].run_key
           C == InState(run, "COMMITTED")
           next == cursors[run].next_offset
           end == attempts[a].end_offset
           share(b, k) == attempts[b].plan.rank_work_ids[k]
           ranks(b) == 1 .. attempts[b].plan.world_size
<1>1. TypeOK /\ RowsWellFormed
  BY DEF ReservationInv
<1>2. /\ a \in DOMAIN attempts /\ a \notin C
      /\ \A b \in DOMAIN attempts : SameColumns(attempts'[b], attempts[b])
      /\ \A q : q # run => InState(q, "COMMITTED")' = InState(q, "COMMITTED")
      /\ InState(run, "COMMITTED")' = C \cup {a}
  BY <1>1, CommitEffect
<1>0. \A q : q = run => InState(q, "COMMITTED")' = C \cup {a}
  BY <1>2 DEF InState
<1>3. /\ DOMAIN cursors' = DOMAIN cursors /\ run \in DOMAIN cursors
      /\ \A q \in DOMAIN cursors : q # run => cursors'[q] = cursors[q]
      /\ cursors'[run].next_offset = end /\ cursors'[run].commit_id = a
      /\ cursors'[run].committed_step = cursors[run].committed_step + 1
      /\ next = attempts[a].start_offset /\ cursors[run].commit_id = attempts[a].parent
  BY <1>1, CommitCursor
<1>4. /\ next \in Nat /\ end \in Nat /\ next < end /\ cursors[run].committed_step \in Nat
      /\ AllWorkIds(attempts[a].plan) = Slice(next, end) /\ ValidPlan(attempts[a].plan)
  BY <1>1, <1>2, <1>3 DEF TypeOK, RowsWellFormed, Cursor, Attempt
<1>5. \A q : InState(q, "COMMITTED") \subseteq DOMAIN attempts
  BY DEF InState
<1>6. \A b \in C : /\ AllWorkIds(attempts[b].plan) \subseteq Slice(0, next)
                   /\ AllWorkIds(attempts[b].plan)
                        = Slice(attempts[b].start_offset, attempts[b].end_offset)
                   /\ attempts[b].start_offset \in Nat /\ attempts[b].end_offset \in Nat
                   /\ attempts[b].start_offset < attempts[b].end_offset
  <2>1. \A b \in C : \A k \in ranks(b) : share(b, k) \subseteq Slice(0, next)
    BY <1>3 DEF PrefixInv, ExactlyOnceBelowCursor
  <2>2. \A b \in C : AllWorkIds(attempts[b].plan) \subseteq Slice(0, next)
    BY <2>1 DEF AllWorkIds
  <2> QED
    BY <1>1, <1>5, <2>2 DEF TypeOK, RowsWellFormed, Attempt
<1>10. \A q : \A b \in InState(q, "COMMITTED")' : SameColumns(attempts'[b], attempts[b])
  <2> SUFFICES ASSUME NEW q, NEW b \in InState(q, "COMMITTED")'
               PROVE  b \in DOMAIN attempts
    BY <1>2
  <2>1. CASE q = run
    BY <1>0, <1>2, <1>5, <2>1
  <2>2. CASE q # run
    BY <1>2, <1>5, <2>2
  <2> QED
    BY <2>1, <2>2
<1>7. CommittedFinite'
  <2>1. IsFiniteSet(C)
    BY <1>3 DEF PrefixInv, CommittedFinite
  <2>2. IsFiniteSet(C \cup {a})
    BY <2>1, FS_AddElement
  <2>3. ASSUME NEW q \in DOMAIN cursors
        PROVE  IsFiniteSet(InState(q, "COMMITTED")')
    <3>1. CASE q = run
      BY <1>0, <2>2, <3>1
    <3>2. CASE q # run
      BY <1>2, <3>2 DEF PrefixInv, CommittedFinite
    <3> QED
      BY <3>1, <3>2
  <2> QED
    BY <1>3, <2>3 DEF CommittedFinite
<1>8. ExactlyOnceBelowCursor'
  <2> SUFFICES ASSUME NEW q \in DOMAIN cursors
               PROVE  ExactBelow(InState(q, "COMMITTED")', attempts, cursors'[q].next_offset)
    <3>1. \A q \in DOMAIN cursors :
             ExactBelow(InState(q, "COMMITTED")', attempts', cursors'[q].next_offset)
      BY <1>10, SameExact
    <3> QED
      BY <1>3, <3>1, ExactByRun DEF ExactEverywhere
  <2>1. CASE q # run
    BY <1>2, <1>3, <2>1, ExactByRun DEF PrefixInv, ExactEverywhere
  <2>2. CASE q = run
    <3>0. InState(q, "COMMITTED")' = C \cup {a}
      BY <1>0, <2>2
    <3>1. \A i \in Slice(next, end) : \E k \in ranks(a) : i \in share(a, k)
      BY <1>4 DEF AllWorkIds
    <3>2. \A k \in ranks(a) : share(a, k) \subseteq Slice(next, end)
      BY <1>4 DEF AllWorkIds
    <3>3. \A j, k \in ranks(a) : j # k => share(a, j) \cap share(a, k) = {}
      BY <1>4 DEF ValidPlan
    <3>4. \A b \in C : \A k \in ranks(b) : share(b, k) \subseteq Slice(0, next)
      BY <1>3 DEF PrefixInv, ExactlyOnceBelowCursor
    <3>5. /\ Slice(0, end) = Slice(0, next) \cup Slice(next, end)
          /\ Slice(0, next) \cap Slice(next, end) = {}
      BY <1>4 DEF Slice
    <3>6. \A i \in Slice(0, end) :
             \E b \in C \cup {a} : \E k \in ranks(b) : i \in share(b, k)
      BY <1>3, <3>1, <3>5 DEF PrefixInv, ExactlyOnceBelowCursor
    <3>7. \A b, d \in C \cup {a} : \A j \in ranks(b), k \in ranks(d) :
             <<b, j>> # <<d, k>> => share(b, j) \cap share(d, k) = {}
      <4> SUFFICES ASSUME NEW b \in C \cup {a}, NEW d \in C \cup {a},
                          NEW j \in ranks(b), NEW k \in ranks(d), <<b, j>> # <<d, k>>
                   PROVE  share(b, j) \cap share(d, k) = {}
        OBVIOUS
      <4>1. CASE b \in C /\ d \in C
        BY <1>3, <4>1 DEF PrefixInv, ExactlyOnceBelowCursor
      <4>2. CASE b = a /\ d = a
        BY <3>3, <4>2
      <4>3. CASE b \in C /\ d = a
        BY <3>2, <3>4, <3>5, <4>3
      <4>4. CASE b = a /\ d \in C
        BY <3>2, <3>4, <3>5, <4>4
      <4> QED
        BY <4>1, <4>2, <4>3, <4>4
    <3>8. \A b \in C \cup {a} : \A k \in ranks(b) : share(b, k) \subseteq Slice(0, end)
      BY <3>2, <3>4, <3>5
    <3>9. ExactBelow(C \cup {a}, attempts, end)
      BY <3>6, <3>7, <3>8 DEF ExactBelow
    <3> QED
      BY <1>3, <2>2, <3>0, <3>9
  <2> QED
    BY <2>1, <2>2
<1>9. CommitLineage'
  <2> SUFFICES ASSUME NEW q \in DOMAIN cursors
               PROVE  ChainTo(InState(q, "COMMITTED")', attempts, cursors'[q])
    <3>1. \A q \in DOMAIN cursors :
             ChainTo(InState(q, "COMMITTED")', attempts', cursors'[q])
      BY <1>10, SameChain
    <3> QED
      BY <1>3, <3>1, ChainByRun DEF ChainEverywhere
  <2>1. CASE q # run
    BY <1>2, <1>3, <2>1, ChainByRun DEF PrefixInv, ChainEverywhere
  <2>2. CASE q = run
    <3>0. InState(q, "COMMITTED")' = C \cup {a}
      BY <1>0, <2>2
    <3>1. cursors[run].committed_step + 1 = Cardinality(C \cup {a})
      <4>1. IsFiniteSet(C) /\ cursors[run].committed_step = Cardinality(C)
        BY <1>3 DEF PrefixInv, CommitLineage, CommittedFinite
      <4> QED
        BY <1>2, <4>1, FS_AddElement
    <3>2. \/ cursors[run].commit_id = Genesis /\ next = 0 /\ C = {}
          \/ cursors[run].commit_id \in C /\ next = attempts[cursors[run].commit_id].end_offset
      BY <1>3 DEF PrefixInv, CommitLineage
    <3>3. \/ attempts[a].parent = Genesis /\ attempts[a].start_offset = 0
          \/ /\ attempts[a].parent \in C
             /\ attempts[attempts[a].parent].end_offset = attempts[a].start_offset
      BY <1>3, <3>2
    <3>4. \A b \in C :
            \/ attempts[b].parent = Genesis /\ attempts[b].start_offset = 0
            \/ /\ attempts[b].parent \in C
               /\ attempts[attempts[b].parent].end_offset = attempts[b].start_offset
      BY <1>3 DEF PrefixInv, CommitLineage
    <3>5. \A b \in C : attempts[b].start_offset < next
      <4> TAKE b \in C
      <4>1. attempts[b].start_offset \in Slice(attempts[b].start_offset, attempts[b].end_offset)
        BY <1>6 DEF Slice
      <4>2. attempts[b].start_offset \in Slice(0, next)
        BY <1>6, <4>1
      <4> QED
        BY <1>4, <4>2 DEF Slice
    <3>6. \A b \in C : attempts[b].parent # attempts[a].parent
      <4> SUFFICES ASSUME NEW b \in C, attempts[b].parent = attempts[a].parent
                   PROVE  FALSE
        OBVIOUS
      <4>1. attempts[a].parent # Genesis
        <5> SUFFICES ASSUME attempts[a].parent = Genesis PROVE FALSE
          OBVIOUS
        <5>1. cursors[run].commit_id = Genesis /\ Genesis \notin C
          BY <1>1, <1>3, <1>5, LedgerAssumption DEF LedgerAssumption, TypeOK
        <5> QED
          BY <3>2, <5>1
      <4>2. attempts[attempts[a].parent].end_offset = next
        BY <1>3, <3>2, <4>1
      <4>3. attempts[attempts[b].parent].end_offset = attempts[b].start_offset
        BY <3>4, <4>1
      <4>4. attempts[b].start_offset < next /\ attempts[b].start_offset = next /\ next \in Nat
        BY <1>4, <3>5, <4>2, <4>3
      <4> QED
        BY <4>4
    <3>7. \A b, d \in C : attempts[b].parent = attempts[d].parent => b = d
      BY <1>3 DEF PrefixInv, CommitLineage
    <3>8. \A b \in C \cup {a} :
            \/ attempts[b].parent = Genesis /\ attempts[b].start_offset = 0
            \/ /\ attempts[b].parent \in C \cup {a}
               /\ attempts[attempts[b].parent].end_offset = attempts[b].start_offset
      BY <3>3, <3>4
    <3>9. \A b, d \in C \cup {a} : attempts[b].parent = attempts[d].parent => b = d
      BY <3>6, <3>7
    <3>10. ChainTo(C \cup {a}, attempts, cursors'[run])
      BY <1>3, <3>1, <3>8, <3>9 DEF ChainTo
    <3> QED
      BY <2>2, <3>0, <3>10
  <2> QED
    BY <2>1, <2>2
<1> QED
  BY <1>7, <1>8, <1>9 DEF PrefixInv

\* Every step preserves the prefix invariant.
LEMMA NextPrefix == ReservationInv /\ PrefixInv /\ [LedgerNext]_vars => PrefixInv'
<1> SUFFICES ASSUME ReservationInv, PrefixInv, [LedgerNext]_vars PROVE PrefixInv'
  OBVIOUS
<1>1. TypeOK
  BY DEF ReservationInv
<1>2. ASSUME NEW r \in Runs, NEW m \in Manifests, NEW c \in Checkpoints,
             NEW id \in Identities, Bootstrap(r, m, c, id)
      PROVE  PrefixInv'
  BY <1>2, BootstrapPrefix
<1>3. ASSUME NEW a \in AttemptIds, NEW r \in Runs, NEW m \in Manifests, NEW p \in Plans,
             NEW id \in Identities, PrepareNextUpdate(a, r, m, p, id)
      PROVE  PrefixInv'
  <2>1. \A b \in DOMAIN attempts : SameColumns(attempts'[b], attempts[b])
    BY <1>1, <1>3, PrepareEffect DEF SameColumns
  <2> QED
    BY <1>1, <1>3, <2>1, PrepareEffect, SamePrefix DEF PrepareNextUpdate
<1>4. ASSUME NEW a \in AttemptIds, AbortUncommitted(a)
      PROVE  PrefixInv'
  BY <1>1, <1>4, AbortEffect, SamePrefix DEF AbortUncommitted
<1>5. ASSUME NEW r \in Runs, NEW m \in Manifests, NEW id \in Identities,
             RecoverAfterRendezvous(r, m, id)
      PROVE  PrefixInv'
  <2>1. r \in DOMAIN cursors /\ UNCHANGED cursors
    BY <1>5 DEF RecoverAfterRendezvous
  <2>2. /\ \A b \in DOMAIN attempts : SameColumns(attempts'[b], attempts[b])
        /\ \A q : InState(q, "COMMITTED")' = InState(q, "COMMITTED")
    BY <1>1, <1>5, <2>1, RecoverEffect
  <2> QED
    BY <2>1, <2>2, SamePrefix
<1>6. ASSUME NEW a \in AttemptIds, NEW m \in Manifests, NEW c \in Checkpoints,
             NEW id \in Identities, CommitUpdate(a, m, c, id)
      PROVE  PrefixInv'
  BY <1>6, CommitPrefix
<1>7. ASSUME UNCHANGED <<cursors, attempts>>
      PROVE  PrefixInv'
  <2>1. /\ \A b \in DOMAIN attempts : SameColumns(attempts'[b], attempts[b])
        /\ \A q : InState(q, "COMMITTED")' = InState(q, "COMMITTED")
    BY <1>7 DEF SameColumns, InState
  <2> QED
    BY <1>7, <2>1, SamePrefix
<1>8. ASSUME NEW u \in LocalUris, NEW h \in Hashes \cup {NoHash}, WriteCheckpoint(u, h)
      PROVE  PrefixInv'
  BY <1>7, <1>8 DEF WriteCheckpoint
<1>9. CASE LedgerNext
  BY <1>2, <1>3, <1>4, <1>5, <1>6, <1>8, <1>9 DEF LedgerNext
<1>10. CASE UNCHANGED vars
  BY <1>7, <1>10 DEF vars
<1> QED
  BY <1>9, <1>10

LEMMA LedgerInvariant == LedgerSpec => [](ReservationInv /\ PrefixInv)
<1>1. LedgerInit => ReservationInv /\ PrefixInv
  BY InitReservation, InitPrefix
<1>2. ReservationInv /\ PrefixInv /\ [LedgerNext]_vars => (ReservationInv /\ PrefixInv)'
  BY NextReservation, NextPrefix
<1> QED
  BY <1>1, <1>2, PTL DEF LedgerSpec

\* Every window below a cursor was trained by exactly one rank of exactly one
\* committed update, for any manifests, plans and sequence of calls.
THEOREM ExactlyOnce == LedgerSpec => []ExactlyOnceBelowCursor
<1>1. PrefixInv => ExactlyOnceBelowCursor
  BY DEF PrefixInv
<1> QED
  BY <1>1, LedgerInvariant, PTL

\* The committed updates of a run form one unforked chain ending at the cursor,
\* and committed_step counts them.
THEOREM LineageCorrect == LedgerSpec => []CommitLineage
<1>1. PrefixInv => CommitLineage
  BY DEF PrefixInv
<1> QED
  BY <1>1, LedgerInvariant, PTL

-----------------------------------------------------------------------------
(***************************************************************************)
(* The ledger implements WorkWindowLog, and moves a cursor on verified     *)
(* bytes only.  Both rest on the invariant above.                          *)
(***************************************************************************)

LedgerInv == ReservationInv /\ PrefixInv

\* The windows of the attempts of a run that are in a state.
Held(q, s) == UNION {attempts[a].work_ids : a \in InState(q, s)}

\* A run's share of the refinement mapping depends only on its attempts in
\* the state and on their windows.
LEMMA SameHeld ==
  ASSUME NEW q, NEW s, InState(q, s)' = InState(q, s),
         \A b \in InState(q, s) : attempts'[b].work_ids = attempts[b].work_ids
  PROVE  Held(q, s)' = Held(q, s)
BY DEF Held

\* Under the invariant the finished windows of a run are those below its
\* cursor, and those in flight are the ones of its single live reservation.
LEMMA DoneBelowCursor ==
  ASSUME LedgerInv, NEW r \in DOMAIN cursors
  PROVE  Held(r, "COMMITTED") = Slice(0, cursors[r].next_offset)
<1> DEFINE C == InState(r, "COMMITTED")
<1>1. /\ \A i \in Slice(0, cursors[r].next_offset) :
            \E a \in C : \E k \in 1 .. attempts[a].plan.world_size :
              i \in attempts[a].plan.rank_work_ids[k]
      /\ \A a \in C : \A k \in 1 .. attempts[a].plan.world_size :
            attempts[a].plan.rank_work_ids[k] \subseteq Slice(0, cursors[r].next_offset)
  BY DEF LedgerInv, PrefixInv, ExactlyOnceBelowCursor
<1>2. \A a \in C : attempts[a].work_ids = AllWorkIds(attempts[a].plan)
  BY DEF LedgerInv, ReservationInv, RowsWellFormed, InState
<1>3. \A a \in C : attempts[a].work_ids =
        UNION {attempts[a].plan.rank_work_ids[k] : k \in 1 .. attempts[a].plan.world_size}
  BY <1>2 DEF AllWorkIds
<1>4. Held(r, "COMMITTED") \subseteq Slice(0, cursors[r].next_offset)
  BY <1>1, <1>3 DEF Held
<1>5. Slice(0, cursors[r].next_offset) \subseteq Held(r, "COMMITTED")
  BY <1>1, <1>3 DEF Held
<1> QED
  BY <1>4, <1>5

LEMMA InflightOfReservation ==
  ASSUME LedgerInv, NEW r \in Runs, NEW a \in InState(r, "PREPARED")
  PROVE  /\ r \in DOMAIN cursors
         /\ InState(r, "PREPARED") = {a}
         /\ Held(r, "PREPARED") = attempts[a].work_ids
         /\ Held(r, "PREPARED") # {}
<1>1. r \in DOMAIN cursors /\ InState(r, "PREPARED") = {a}
  BY DEF LedgerInv, ReservationInv, ReservationIsNextRange
<1>2. Held(r, "PREPARED") = attempts[a].work_ids
  BY <1>1 DEF Held
<1>3. attempts[a].work_ids # {}
  BY DEF LedgerInv, ReservationInv, RowsWellFormed, ValidPlan, InState
<1> QED
  BY <1>1, <1>2, <1>3

-----------------------------------------------------------------------------
(* How the steps of the ledger map to those of the log. *)

\* A step that leaves the held windows of every run alone.
LEMMA StutterMaps ==
  ASSUME \A q \in Runs : /\ Held(q, "COMMITTED")' = Held(q, "COMMITTED")
                         /\ Held(q, "PREPARED")' = Held(q, "PREPARED")
  PROVE  UNCHANGED Log!logVars
<1>1. DoneWindows' = DoneWindows /\ InflightWindows' = InflightWindows
  BY DEF DoneWindows, InflightWindows, WindowsIn, Held, InState
<1> QED
  BY <1>1 DEF Log!logVars

\* A step that changes the held windows of the run r only.
LEMMA ChangeMaps ==
  ASSUME NEW r \in Runs,
         \A q \in Runs \ {r} : /\ Held(q, "COMMITTED")' = Held(q, "COMMITTED")
                               /\ Held(q, "PREPARED")' = Held(q, "PREPARED")
  PROVE  /\ DoneWindows[r] = Held(r, "COMMITTED") /\ InflightWindows[r] = Held(r, "PREPARED")
         /\ InflightWindows'[r] = Held(r, "PREPARED")'
         /\ DoneWindows' = [DoneWindows EXCEPT ![r] = Held(r, "COMMITTED")']
         /\ InflightWindows' = [InflightWindows EXCEPT ![r] = Held(r, "PREPARED")']
BY DEF DoneWindows, InflightWindows, WindowsIn, Held, InState

LEMMA PrepareMaps ==
  ASSUME LedgerInv, NEW a \in AttemptIds, NEW r \in Runs, NEW m \in Manifests,
         NEW p \in Plans, NEW id \in Identities, PrepareNextUpdate(a, r, m, p, id)
  PROVE  Log!Reserve(r, InflightWindows'[r])
<1> DEFINE start == cursors[r].next_offset
           end == start + Cardinality(AllWorkIds(p))
<1>1. /\ r \in DOMAIN cursors /\ AllWorkIds(p) = Slice(start, end)
      /\ InState(r, "PREPARED") = {} /\ ValidPlan(p) /\ a \notin DOMAIN attempts
  BY DEF PrepareNextUpdate, NoLiveReservation
<1>2. TypeOK
  BY DEF LedgerInv, ReservationInv
<1>3. start \in Nat
  BY <1>1, <1>2 DEF TypeOK, Cursor
<1>4. Cardinality(AllWorkIds(p)) \in Nat \ {0}
  BY <1>1, PlanSize
<1>5. /\ \A b \in DOMAIN attempts : attempts'[b] = attempts[b]
      /\ \A q : InState(q, "COMMITTED")' = InState(q, "COMMITTED")
      /\ \A q : q # r => InState(q, "PREPARED")' = InState(q, "PREPARED")
      /\ InState(r, "PREPARED")' = {a}
      /\ attempts'[a].work_ids = AllWorkIds(p)
  BY <1>2, PrepareEffect DEF PrepareNextUpdate
<1> HIDE DEF start, end
<1>6. \A q \in Runs : Held(q, "COMMITTED")' = Held(q, "COMMITTED")
  <2> TAKE q \in Runs
  <2>1. \A b \in InState(q, "COMMITTED") : attempts'[b].work_ids = attempts[b].work_ids
    BY <1>5 DEF InState
  <2> QED
    BY <1>5, <2>1, SameHeld
<1>7. \A q \in Runs \ {r} : Held(q, "PREPARED")' = Held(q, "PREPARED")
  <2> TAKE q \in Runs \ {r}
  <2>1. \A b \in InState(q, "PREPARED") : attempts'[b].work_ids = attempts[b].work_ids
    BY <1>5 DEF InState
  <2>2. InState(q, "PREPARED")' = InState(q, "PREPARED")
    BY <1>5
  <2> QED
    BY <2>1, <2>2, SameHeld
<1>8. Held(r, "PREPARED") = {} /\ Held(r, "PREPARED")' = Slice(start, end)
  BY <1>1, <1>5 DEF Held
<1>9. Held(r, "COMMITTED") = Slice(0, start)
  BY <1>1, DoneBelowCursor DEF start
<1>10. /\ DoneWindows[r] = Slice(0, start) /\ InflightWindows[r] = {}
       /\ InflightWindows'[r] = Slice(start, end)
       /\ DoneWindows' = [DoneWindows EXCEPT ![r] = Held(r, "COMMITTED")']
       /\ InflightWindows' = [InflightWindows EXCEPT ![r] = Slice(start, end)]
  <2>1. \A q \in Runs \ {r} : /\ Held(q, "COMMITTED")' = Held(q, "COMMITTED")
                              /\ Held(q, "PREPARED")' = Held(q, "PREPARED")
    BY <1>6, <1>7
  <2> QED
    BY <1>8, <1>9, <2>1, ChangeMaps
<1>11. DoneWindows' = DoneWindows
  BY <1>6 DEF DoneWindows, WindowsIn, Held, InState
<1>12. Slice(start, end) # {} /\ Slice(start, end) \cap Slice(0, start) = {}
  BY <1>3, <1>4 DEF Slice, end
<1>13. Log!IsPrefix(Slice(0, start) \cup Slice(start, end))
  BY <1>3, <1>4 DEF Slice, Log!IsPrefix, end
<1> QED
  BY <1>10, <1>11, <1>12, <1>13 DEF Log!Reserve

\* A step that leaves the committed attempts and the other runs alone and
\* empties the live ones of run r: abort_uncommitted, recover_after_rendezvous.
LEMMA AbandonMaps ==
  ASSUME LedgerInv, NEW r \in Runs,
         DOMAIN attempts' = DOMAIN attempts,
         \A b \in DOMAIN attempts : attempts'[b].work_ids = attempts[b].work_ids,
         \A q : InState(q, "COMMITTED")' = InState(q, "COMMITTED"),
         \A q : q # r => InState(q, "PREPARED")' = InState(q, "PREPARED"),
         InState(r, "PREPARED")' = {}
  PROVE  [Log!LogNext]_(Log!logVars)
<1>1. \A q : \A s : \A b \in InState(q, s) : attempts'[b].work_ids = attempts[b].work_ids
  BY DEF InState
<1>2. \A q \in Runs : Held(q, "COMMITTED")' = Held(q, "COMMITTED")
  BY <1>1, SameHeld
<1>3. \A q \in Runs \ {r} : Held(q, "PREPARED")' = Held(q, "PREPARED")
  BY <1>1, SameHeld
<1>4. Held(r, "PREPARED")' = {}
  BY DEF Held
<1>5. CASE InState(r, "PREPARED") = {}
  <2>1. Held(r, "PREPARED") = {}
    BY <1>5 DEF Held
  <2> QED
    BY <1>2, <1>3, <1>4, <2>1, StutterMaps
<1>6. CASE InState(r, "PREPARED") # {}
  <2>1. PICK a \in InState(r, "PREPARED") : TRUE
    BY <1>6
  <2>2. Held(r, "PREPARED") # {}
    BY <2>1, InflightOfReservation
  <2>3. /\ InflightWindows[r] # {}
        /\ InflightWindows' = [InflightWindows EXCEPT ![r] = {}]
    BY <1>2, <1>3, <1>4, <2>2, ChangeMaps
  <2>4. DoneWindows' = DoneWindows
    BY <1>2 DEF DoneWindows, WindowsIn, Held, InState
  <2>5. Log!Abandon(r)
    BY <2>3, <2>4 DEF Log!Abandon
  <2> QED
    BY <2>5 DEF Log!LogNext
<1> QED
  BY <1>5, <1>6

LEMMA CommitMaps ==
  ASSUME LedgerInv, NEW a \in AttemptIds, NEW m \in Manifests, NEW c \in Checkpoints,
         NEW id \in Identities, CommitUpdate(a, m, c, id), NEW r \in Runs,
         r = attempts[a].run_key
  PROVE  Log!Publish(r)
<1>1. TypeOK
  BY DEF LedgerInv, ReservationInv
<1>2. /\ \A b \in DOMAIN attempts : /\ attempts'[b].work_ids = attempts[b].work_ids
                                    /\ attempts'[b].run_key = attempts[b].run_key
      /\ \A q : InState(q, "PREPARED")' = InState(q, "PREPARED") \ {a}
  BY <1>1, CommitEffect DEF SameColumns
<1>3. a \in InState(r, "PREPARED") /\ \A q : q # r => a \notin InState(q, "PREPARED")
  BY <1>1, CommitEffect DEF InState
<1>4. /\ InState(r, "COMMITTED")' = InState(r, "COMMITTED") \cup {a}
      /\ \A q : q # r => InState(q, "COMMITTED")' = InState(q, "COMMITTED")
  BY <1>1, <1>3 DEF CommitUpdate, InState, TypeOK, Attempt
<1>5. \A q : \A s : \A b \in InState(q, s) : attempts'[b].work_ids = attempts[b].work_ids
  BY <1>2 DEF InState
<1>6. \A q \in Runs \ {r} : /\ Held(q, "COMMITTED")' = Held(q, "COMMITTED")
                            /\ Held(q, "PREPARED")' = Held(q, "PREPARED")
  <2> TAKE q \in Runs \ {r}
  <2>1. InState(q, "PREPARED")' = InState(q, "PREPARED")
    <3>1. InState(q, "PREPARED") \ {a} = InState(q, "PREPARED")
      BY <1>3
    <3> QED
      BY <1>2, <3>1
  <2>2. InState(q, "COMMITTED")' = InState(q, "COMMITTED")
    BY <1>4
  <2> QED
    BY <1>5, <2>1, <2>2, SameHeld
<1>7. /\ InState(r, "PREPARED") = {a}
      /\ Held(r, "PREPARED") = attempts[a].work_ids /\ Held(r, "PREPARED") # {}
  BY <1>3, InflightOfReservation
<1>8. Held(r, "PREPARED")' = {}
  <2>1. InState(r, "PREPARED")' = {}
    BY <1>2, <1>7
  <2> QED
    BY <2>1 DEF Held
<1>9. Held(r, "COMMITTED")' = Held(r, "COMMITTED") \cup attempts[a].work_ids
  <2>1. attempts'[a].work_ids = attempts[a].work_ids
    BY <1>3, <1>5
  <2> QED
    BY <1>4, <1>5, <2>1 DEF Held
<1>10. /\ InflightWindows[r] = attempts[a].work_ids /\ InflightWindows[r] # {}
       /\ DoneWindows[r] = Held(r, "COMMITTED")
       /\ DoneWindows' = [DoneWindows EXCEPT ![r] = Held(r, "COMMITTED")']
       /\ InflightWindows' = [InflightWindows EXCEPT ![r] = {}]
  BY <1>6, <1>7, <1>8, ChangeMaps
<1>11. DoneWindows' = [DoneWindows EXCEPT ![r] = @ \cup InflightWindows[r]]
  BY <1>9, <1>10
<1> QED
  BY <1>10, <1>11 DEF Log!Publish

LEMMA InitMaps == LedgerInit => Log!LogInit
BY DEF LedgerInit, Log!LogInit, DoneWindows, InflightWindows, WindowsIn, InState

LEMMA NextMaps == LedgerInv /\ [LedgerNext]_vars => [Log!LogNext]_(Log!logVars)
<1> SUFFICES ASSUME LedgerInv, [LedgerNext]_vars
             PROVE  [Log!LogNext]_(Log!logVars)
  OBVIOUS
<1>1. TypeOK
  BY DEF LedgerInv, ReservationInv
<1>2. ASSUME UNCHANGED attempts
      PROVE  [Log!LogNext]_(Log!logVars)
  <2>1. \A q \in Runs : /\ Held(q, "COMMITTED")' = Held(q, "COMMITTED")
                        /\ Held(q, "PREPARED")' = Held(q, "PREPARED")
    BY <1>2 DEF Held, InState
  <2> QED
    BY <2>1, StutterMaps
<1>3. ASSUME NEW a \in AttemptIds, NEW r \in Runs, NEW m \in Manifests, NEW p \in Plans,
             NEW id \in Identities, PrepareNextUpdate(a, r, m, p, id)
      PROVE  [Log!LogNext]_(Log!logVars)
  BY <1>3, PrepareMaps DEF Log!LogNext
<1>4. ASSUME NEW a \in AttemptIds, AbortUncommitted(a)
      PROVE  [Log!LogNext]_(Log!logVars)
  <2>1. PICK r \in Runs : r = attempts[a].run_key /\ a \in InState(r, "PREPARED")
    BY <1>1, <1>4 DEF AbortUncommitted, InState, TypeOK, Attempt
  <2>2. InState(r, "PREPARED") = {a} /\ \A q : q # r => a \notin InState(q, "PREPARED")
    BY <2>1, InflightOfReservation DEF InState
  <2>3. \A q : InState(q, "PREPARED")' = InState(q, "PREPARED") \ {a}
    BY <1>1, <1>4 DEF AbortUncommitted, InState, TypeOK, Attempt
  <2>4. InState(r, "PREPARED")' = {}
    BY <2>2, <2>3
  <2>5. \A q : q # r => InState(q, "PREPARED")' = InState(q, "PREPARED")
    BY <2>2, <2>3
  <2>6. /\ DOMAIN attempts' = DOMAIN attempts
        /\ \A b \in DOMAIN attempts : attempts'[b].work_ids = attempts[b].work_ids
        /\ \A q : InState(q, "COMMITTED")' = InState(q, "COMMITTED")
    BY <1>1, <1>4, AbortEffect DEF SameColumns
  <2> QED
    BY <2>4, <2>5, <2>6, AbandonMaps
<1>5. ASSUME NEW r \in Runs, NEW m \in Manifests, NEW id \in Identities,
             RecoverAfterRendezvous(r, m, id)
      PROVE  [Log!LogNext]_(Log!logVars)
  <2>1. /\ DOMAIN attempts' = DOMAIN attempts
        /\ \A b \in DOMAIN attempts : attempts'[b].work_ids = attempts[b].work_ids
        /\ \A q : InState(q, "COMMITTED")' = InState(q, "COMMITTED")
        /\ \A q : q # r => InState(q, "PREPARED")' = InState(q, "PREPARED")
        /\ InState(r, "PREPARED")' = {}
    BY <1>1, <1>5, RecoverEffect DEF SameColumns
  <2> QED
    BY <2>1, AbandonMaps
<1>6. ASSUME NEW a \in AttemptIds, NEW m \in Manifests, NEW c \in Checkpoints,
             NEW id \in Identities, CommitUpdate(a, m, c, id)
      PROVE  [Log!LogNext]_(Log!logVars)
  <2>1. PICK r \in Runs : r = attempts[a].run_key
    BY <1>1, <1>6 DEF CommitUpdate, TypeOK, Attempt
  <2>2. Log!Publish(r)
    BY <1>6, <2>1, CommitMaps
  <2> QED
    BY <2>2 DEF Log!LogNext
<1> QED
  BY <1>2, <1>3, <1>4, <1>5, <1>6 DEF LedgerNext, Bootstrap, WriteCheckpoint, vars

\* The ledger implements the log: whatever the groups call, in whatever order
\* and after whatever recoveries, the committed windows grow by exactly the
\* range that was in flight, and never shrink.
THEOREM Refinement == LedgerSpec => ImplementsWorkWindowLog
<1>1. LedgerSpec => []LedgerInv
  BY LedgerInvariant, PTL DEF LedgerInv
<1> QED
  BY <1>1, InitMaps, NextMaps, PTL DEF LedgerSpec, ImplementsWorkWindowLog, Log!LogSpec

-----------------------------------------------------------------------------

\* A cursor moves only by the commit of a live reservation of its run, with a
\* checkpoint whose local bytes have the declared hash in that step.
THEOREM VerifiedAdvance == LedgerSpec => AdvanceIsVerified
<1> DEFINE Moved(r) ==
      /\ \E a \in InState(r, "PREPARED") : attempts'[a].status = "COMMITTED"
      /\ cursors'[r].checkpoint.uri \in LocalUris =>
           disk[cursors'[r].checkpoint.uri] = cursors'[r].checkpoint.sha256
<1>1. ASSUME LedgerInv, [LedgerNext]_vars, NEW r \in DOMAIN cursors, cursors'[r] # cursors[r]
      PROVE  Moved(r)
  <2>1. PICK a \in AttemptIds, m \in Manifests, c \in Checkpoints, id \in Identities :
          CommitUpdate(a, m, c, id)
    <3>1. \A q \in Runs, m \in Manifests, c \in Checkpoints, id \in Identities :
            ~Bootstrap(q, m, c, id)
      BY <1>1 DEF Bootstrap
    <3>2. cursors' # cursors
      BY <1>1
    <3>3. /\ \A a \in AttemptIds, q \in Runs, m \in Manifests, p \in Plans, id \in Identities :
               ~PrepareNextUpdate(a, q, m, p, id)
          /\ \A a \in AttemptIds : ~AbortUncommitted(a)
          /\ \A q \in Runs, m \in Manifests, id \in Identities :
               ~RecoverAfterRendezvous(q, m, id)
          /\ \A u \in LocalUris, h \in Hashes \cup {NoHash} : ~WriteCheckpoint(u, h)
          /\ ~UNCHANGED vars
      BY <3>2 DEF PrepareNextUpdate, AbortUncommitted, RecoverAfterRendezvous,
         WriteCheckpoint, vars
    <3> QED
      BY <1>1, <3>1, <3>3 DEF LedgerNext
  <2>2. TypeOK /\ RowsWellFormed
    BY <1>1 DEF LedgerInv, ReservationInv
  <2>3. r = attempts[a].run_key
    BY <1>1, <2>1, <2>2, CommitCursor
  <2>4. a \in InState(r, "PREPARED")
    BY <2>1, <2>2, <2>3, CommitEffect
  <2>5. attempts'[a].status = "COMMITTED"
    BY <2>1, <2>2, <2>4 DEF CommitUpdate, TypeOK, Attempt, InState
  <2>6. cursors'[r].checkpoint = c
    BY <1>1, <2>1, <2>3 DEF CommitUpdate, Advanced
  <2>7. c.uri \in LocalUris => disk[c.uri] = c.sha256
    BY <2>1 DEF CommitUpdate, BytesMatch
  <2> QED
    BY <2>4, <2>5, <2>6, <2>7
<1>2. LedgerInv /\ [LedgerNext]_vars =>
        [\A r \in DOMAIN cursors : cursors'[r] # cursors[r] => Moved(r)]_vars
  BY <1>1
<1>3. LedgerSpec => []LedgerInv
  BY LedgerInvariant, PTL DEF LedgerInv
<1> QED
  BY <1>2, <1>3, PTL DEF LedgerSpec, AdvanceIsVerified
=============================================================================
