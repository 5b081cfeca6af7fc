--------------------------- MODULE CursorLedger ----------------------------
(***************************************************************************)
(* The transactional data-cursor ledger of elastic_data_cursor_ledger.py:  *)
(* two SQLite tables and the operations that worker groups call on them.   *)
(* Every operation runs inside one BEGIN IMMEDIATE transaction, so it is   *)
(* one atomic action here whatever the number of connections; a call that  *)
(* raises rolls back and changes nothing, so only accepted calls appear.   *)
(* Nothing else survives a crash, hence a crash is simply the absence of   *)
(* further calls by a group, at any point between two operations.          *)
(*                                                                         *)
(* Abstractions: a window's work_id is its offset in its manifest; a       *)
(* manifest is its digest (which covers dataset_commit); topology_epoch    *)
(* stands for the pair of epoch and topology_digest; a commit_id, the hash *)
(* of the attempt and more, is the attempt's own id.                       *)
(***************************************************************************)
EXTENDS Integers, FiniteSets

CONSTANTS
  Runs,         \* run keys
  Manifests,    \* digests of the global work manifests
  WindowCount,  \* WindowCount[m]: number of ordered windows of manifest m
  Identities,   \* elastic identities that worker groups present
  Plans,        \* cursor-bound plans that worker groups present
  LocalUris,    \* file:// checkpoint locations
  RemoteUris,   \* checkpoint locations with any other scheme
  Hashes,       \* SHA-256 values
  AttemptIds,   \* attempt ids; also bounds the number of reservations
  Genesis,      \* the commit id that bootstrap writes
  NoHash        \* content of a checkpoint file that does not exist

ASSUME LedgerAssumption ==
  /\ WindowCount \in [Manifests -> Nat \ {0}]
  /\ \A p \in Plans : /\ p.world_size \in Nat \ {0}
                      /\ p.rank_work_ids \in [1 .. p.world_size -> SUBSET Nat]
                      /\ \A k \in 1 .. p.world_size : IsFiniteSet(p.rank_work_ids[k])
  /\ Genesis \notin AttemptIds
  /\ NoHash \notin Hashes
  /\ LocalUris \cap RemoteUris = {}

VARIABLES
  cursors,   \* table committed_cursors: run key -> row
  attempts,  \* table update_attempts: attempt id -> row
  disk,      \* content of the local checkpoint files, written by trainers
  retired    \* history: the topology epochs that a recovery superseded

vars == <<cursors, attempts, disk, retired>>

Checkpoints == [uri : LocalUris \cup RemoteUris, sha256 : Hashes]

Cursor == [commit_id : AttemptIds \cup {Genesis}, committed_step : Nat,
           next_offset : Nat, checkpoint : Checkpoints, manifest : Manifests,
           world_size : {id.world_size : id \in Identities},
           topology_epoch : {id.topology_epoch : id \in Identities}]

Attempt == [run_key : Runs, parent : AttemptIds \cup {Genesis}, start_offset : Nat,
            end_offset : Nat, plan : Plans, identity : Identities,
            status : {"PREPARED", "ABORTED", "COMMITTED"}, work_ids : SUBSET Nat]

InState(r, s) ==
  {a \in DOMAIN attempts : attempts[a].run_key = r /\ attempts[a].status = s}

\* GlobalWorkManifest.slice: the range, and the check that it lies inside.
Slice(start, end) == start .. end - 1
InsideManifestOffByOne(m, start, end) == start <= end /\ end <= WindowCount[m] + 1
InsideManifest(m, start, end) == start <= end /\ end <= WindowCount[m]

\* CursorBoundPlan.all_work_ids and CursorBoundPlan.validate
AllWorkIds(p) == UNION {p.rank_work_ids[k] : k \in 1 .. p.world_size}

ValidPlanSharedWindows(p) == AllWorkIds(p) # {}
ValidPlan(p) ==
  /\ AllWorkIds(p) # {}
  /\ \A i, j \in 1 .. p.world_size :
        i # j => p.rank_work_ids[i] \cap p.rank_work_ids[j] = {}

PlanMatches(p, id, m) ==
  /\ p.world_size = id.world_size
  /\ p.topology_epoch = id.topology_epoch
  /\ p.work_manifest_digest = m

LedgerInit ==
  /\ cursors = [r \in {} |-> Genesis]
  /\ attempts = [a \in {} |-> Genesis]
  /\ disk = [u \in LocalUris |-> NoHash]
  /\ retired = [r \in Runs |-> {}]

\* bootstrap on a run key that has no row.  On a key that has one the call
\* returns the row or raises, and changes nothing either way.
Bootstrap(r, m, c, id) ==
  /\ r \notin DOMAIN cursors
  /\ LET row == [commit_id |-> Genesis, committed_step |-> 0, next_offset |-> 0,
                 checkpoint |-> c, manifest |-> m, world_size |-> id.world_size,
                 topology_epoch |-> id.topology_epoch]
     IN cursors' = [k \in DOMAIN cursors \cup {r} |-> IF k = r THEN row ELSE cursors[k]]
  /\ UNCHANGED <<attempts, disk, retired>>

\* The PREPARED check of prepare_next_update, which the table's partial
\* unique index repeats.
NoLiveReservationDropped(r) == r \in Runs
NoLiveReservation(r) == InState(r, "PREPARED") = {}

\* prepare_next_update: reserve exactly the next contiguous range.
PrepareNextUpdate(a, r, m, p, id) ==
  /\ a \notin DOMAIN attempts
  /\ r \in DOMAIN cursors
  /\ ValidPlan(p)
  /\ PlanMatches(p, id, m)
  /\ cursors[r].manifest = m
  /\ NoLiveReservation(r)
  /\ LET start == cursors[r].next_offset
         end == start + Cardinality(AllWorkIds(p))
         row == [run_key |-> r, parent |-> cursors[r].commit_id, start_offset |-> start,
                 end_offset |-> end, plan |-> p, identity |-> id,
                 status |-> "PREPARED", work_ids |-> AllWorkIds(p)]
     IN /\ InsideManifest(m, start, end)
        /\ AllWorkIds(p) = Slice(start, end)
        /\ attempts' = [k \in DOMAIN attempts \cup {a} |->
                          IF k = a THEN row ELSE attempts[k]]
  /\ UNCHANGED <<cursors, disk, retired>>

AbortUncommitted(a) ==
  /\ a \in DOMAIN attempts
  /\ attempts[a].status = "PREPARED"
  /\ attempts' = [attempts EXCEPT ![a].status = "ABORTED"]
  /\ UNCHANGED <<cursors, disk, retired>>

\* The epochs that the ledger has seen for a run, for the history variable.
KnownEpochs(r) ==
  {cursors[r].topology_epoch}
    \cup {attempts[a].plan.topology_epoch : a \in {b \in DOMAIN attempts : attempts[b].run_key = r}}

\* recover_after_rendezvous: the aborts and the identity check are one
\* transaction, so a refused identity leaves the reservation in place.
RecoverAfterRendezvous(r, m, id) ==
  /\ r \in DOMAIN cursors
  /\ cursors[r].manifest = m
  /\ \/ id.topology_epoch # cursors[r].topology_epoch
     \/ id.restart_count # 0
  /\ attempts' = [a \in DOMAIN attempts |->
                    IF a \in InState(r, "PREPARED")
                      THEN [attempts[a] EXCEPT !.status = "ABORTED"]
                      ELSE attempts[a]]
  /\ retired' = [retired EXCEPT ![r] = (@ \cup KnownEpochs(r)) \ {id.topology_epoch}]
  /\ UNCHANGED <<cursors, disk>>

\* commit_update, its checks on the attempt and the cursor.
CommittableUnlessCommitted(a, m, id) ==
  /\ attempts[a].status # "COMMITTED"
  /\ attempts[a].identity = id
  /\ PlanMatches(attempts[a].plan, id, m)
  /\ cursors[attempts[a].run_key].commit_id = attempts[a].parent
  /\ cursors[attempts[a].run_key].next_offset = attempts[a].start_offset
Committable(a, m, id) ==
  /\ attempts[a].status = "PREPARED"
  /\ attempts[a].identity = id
  /\ PlanMatches(attempts[a].plan, id, m)
  /\ cursors[attempts[a].run_key].commit_id = attempts[a].parent
  /\ cursors[attempts[a].run_key].next_offset = attempts[a].start_offset

\* The bytes of a file:// checkpoint are hashed; a checkpoint at any other
\* location is taken at its declared hash.
BytesTrusted(c) == c \in Checkpoints
BytesMatch(c) == c.uri \in LocalUris => disk[c.uri] = c.sha256

\* The row that commit_update writes over the run's cursor row.
AdvancedWithoutStep(a, c, id) ==
  [cursors[attempts[a].run_key] EXCEPT !.commit_id = a,
     !.next_offset = attempts[a].end_offset, !.checkpoint = c]
Advanced(a, c, id) ==
  LET cursor == cursors[attempts[a].run_key]
  IN [commit_id |-> a, committed_step |-> cursor.committed_step + 1,
      next_offset |-> attempts[a].end_offset, checkpoint |-> c,
      manifest |-> cursor.manifest, world_size |-> id.world_size,
      topology_epoch |-> id.topology_epoch]

CommitUpdate(a, m, c, id) ==
  /\ a \in DOMAIN attempts
  /\ Committable(a, m, id)
  /\ BytesMatch(c)
  /\ cursors' = [cursors EXCEPT ![attempts[a].run_key] = Advanced(a, c, id)]
  /\ attempts' = [attempts EXCEPT ![a].status = "COMMITTED"]
  /\ UNCHANGED <<disk, retired>>

\* External: a trainer writes, overwrites or loses a local checkpoint file.
WriteCheckpoint(u, h) ==
  /\ disk' = [disk EXCEPT ![u] = h]
  /\ UNCHANGED <<cursors, attempts, retired>>

LedgerNext ==
  \/ \E r \in Runs, m \in Manifests, c \in Checkpoints, id \in Identities :
        Bootstrap(r, m, c, id)
  \/ \E a \in AttemptIds, r \in Runs, m \in Manifests, p \in Plans, id \in Identities :
        PrepareNextUpdate(a, r, m, p, id)
  \/ \E a \in AttemptIds : AbortUncommitted(a)
  \/ \E r \in Runs, m \in Manifests, id \in Identities : RecoverAfterRendezvous(r, m, id)
  \/ \E a \in AttemptIds, m \in Manifests, c \in Checkpoints, id \in Identities :
        CommitUpdate(a, m, c, id)
  \/ \E u \in LocalUris, h \in Hashes \cup {NoHash} : WriteCheckpoint(u, h)

LedgerSpec == LedgerInit /\ [][LedgerNext]_vars

-----------------------------------------------------------------------------
(***************************************************************************)
(* Properties.                                                             *)
(***************************************************************************)

\* Type invariant of the two tables, the files and the history variable.
TypeOK ==
  /\ DOMAIN cursors \subseteq Runs
  /\ \A r \in DOMAIN cursors :
        /\ cursors[r] \in Cursor
        /\ cursors[r].next_offset <= WindowCount[cursors[r].manifest]
  /\ DOMAIN attempts \subseteq AttemptIds
  /\ \A a \in DOMAIN attempts : attempts[a] \in Attempt
  /\ disk \in [LocalUris -> Hashes \cup {NoHash}]
  /\ retired \in [Runs -> SUBSET ({id.topology_epoch : id \in Identities}
                                 \cup {p.topology_epoch : p \in Plans})]

\* The windows below a run's cursor were each trained by exactly one rank of
\* exactly one committed update, and no committed update holds a window at
\* or above the cursor, whatever reservations, aborts, recoveries, world
\* sizes and plans came in between (prepare_next_update's range check and
\* commit_update's cursor move, over any sequence of calls).
ExactlyOnceBelowCursor ==
  \A r \in DOMAIN cursors :
    LET C == InState(r, "COMMITTED")
        share(a, k) == attempts[a].plan.rank_work_ids[k]
        ranks(a) == 1 .. attempts[a].plan.world_size
    IN /\ \A i \in Slice(0, cursors[r].next_offset) :
             \E a \in C : \E k \in ranks(a) : i \in share(a, k)
       /\ \A a, b \in C : \A j \in ranks(a), k \in ranks(b) :
             <<a, j>> # <<b, k>> => share(a, j) \cap share(b, k) = {}
       /\ \A a \in C : \A k \in ranks(a) : share(a, k) \subseteq Slice(0, cursors[r].next_offset)

\* The committed updates of a run form one unforked chain from the genesis
\* commit to the cursor's commit_id: committed_step counts them, each starts
\* where its parent ended, and the cursor stands at the end of the last.
CommitLineage ==
  \A r \in DOMAIN cursors :
    LET C == InState(r, "COMMITTED")
    IN /\ cursors[r].committed_step = Cardinality(C)
       /\ \/ cursors[r].commit_id = Genesis /\ cursors[r].next_offset = 0 /\ C = {}
          \/ /\ cursors[r].commit_id \in C
             /\ cursors[r].next_offset = attempts[cursors[r].commit_id].end_offset
       /\ \A a \in C :
            \/ attempts[a].parent = Genesis /\ attempts[a].start_offset = 0
            \/ /\ attempts[a].parent \in C
               /\ attempts[attempts[a].parent].end_offset = attempts[a].start_offset
       /\ \A a, b \in C : attempts[a].parent = attempts[b].parent => a = b

\* A run has at most one live reservation, and it always holds exactly the
\* windows that follow the committed prefix, with the cursor's commit as its
\* parent: commit_update's "parent commit/cursor moved" refusal can only
\* hit an attempt that is no longer live.
ReservationIsNextRange ==
  \A r \in Runs : \A a \in InState(r, "PREPARED") :
    /\ r \in DOMAIN cursors
    /\ InState(r, "PREPARED") = {a}
    /\ attempts[a].parent = cursors[r].commit_id
    /\ attempts[a].start_offset = cursors[r].next_offset
    /\ attempts[a].work_ids = Slice(attempts[a].start_offset, attempts[a].end_offset)
    /\ attempts[a].end_offset \in cursors[r].next_offset + 1 .. WindowCount[cursors[r].manifest]
    /\ AllWorkIds(attempts[a].plan) = attempts[a].work_ids

\* A cursor moves only when a reservation of its own run is committed, and
\* then with a checkpoint whose local bytes have the declared hash in that
\* very step; a file rewritten since it was declared does not get in.
AdvanceIsVerified ==
  [][\A r \in DOMAIN cursors :
       cursors'[r] # cursors[r] =>
         /\ \E a \in InState(r, "PREPARED") : attempts'[a].status = "COMMITTED"
         /\ cursors'[r].checkpoint.uri \in LocalUris =>
              disk[cursors'[r].checkpoint.uri] = cursors'[r].checkpoint.sha256]_vars

\* The ledger implements the abstract log: the finished windows of a run are
\* those of its committed attempts, the ones in flight those of its live one.
WindowsIn(s) == [r \in Runs |-> UNION {attempts[a].work_ids : a \in InState(r, s)}]

DoneWindows == WindowsIn("COMMITTED")
InflightWindows == WindowsIn("PREPARED")

Log == INSTANCE WorkWindowLog WITH done <- DoneWindows, inflight <- InflightWindows

ImplementsWorkWindowLog == Log!LogSpec

\* What the repository's documents say of a partitioned or replaced group:
\* once a recovery has brought in a group with a new topology epoch, the old
\* epoch is void.  So no update is committed under an epoch that a recovery
\* of its run has superseded.
RetiredEpochNeverCommits ==
  [][\A r \in DOMAIN cursors :
       cursors'[r] # cursors[r] => cursors'[r].topology_epoch \notin retired[r]]_vars
=============================================================================
