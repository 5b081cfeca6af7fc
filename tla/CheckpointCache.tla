-------------------------- MODULE CheckpointCache ---------------------------
(***************************************************************************)
(* Publication and restore of checkpoints: verified_checkpoint_cache.py,   *)
(* with the single flight and the admission control that                   *)
(* checkpoint_cache_load_shedding_simulator.py puts in front of it, called *)
(* in the order of checkpoint_integrity_corruption_demo.py.                *)
(*                                                                         *)
(* Publishers write a manifest's shards to the durable store and then move *)
(* the run's pointer.  Readers hold a pointer they once read, and fetch    *)
(* the shards it names through an untrusted cache.  A shard's bytes stand  *)
(* for their SHA-256, a manifest for its digest.                           *)
(***************************************************************************)
EXTENDS Integers, Sequences, FiniteSets, FiniteSetsExt, TLC

CONSTANTS
  CheckpointIds,    \* manifests
  ShardsOf,       \* manifest -> its shard descriptors, [component, bytes]
  ContractOf,     \* manifest -> what cache keys take of its contract
  Publishers, Produces,   \* publisher -> the manifest of the checkpoint it made
  Readers,                \* one per node: a reader is the node that it is on
  BadBytes,       \* what a corrupted entry holds
  DurableLimit, PerNodeLimit,
  MaxLeaks

ASSUME CacheAssumption ==
  /\ IsFiniteSet(Readers)
  /\ Produces \in [Publishers -> CheckpointIds]
  /\ DurableLimit \in Nat \ {0} /\ PerNodeLimit \in Nat

VARIABLES
  durable,     \* DurableShardStore: the descriptors it holds
  published,   \* the manifests that the pointer named, by revision
  publishers,  \* publisher -> the publication it works on, or NoTask
  entries,     \* cache key -> payload, for the entries that have not expired
  readers,     \* reader -> what it restores, or NoTask
  flights,     \* SingleFlight.inflight
  tokens,      \* TokenBudget: [limit, inflight]
  per_node,    \* node -> its reads in flight
  circuit,     \* circuit_open
  leaked       \* history: readers that were lost with a token

cacheVars == <<durable, published, publishers, entries, readers, flights, tokens,
               per_node, circuit, leaked>>
Restoring == <<entries, readers, flights, tokens, per_node, circuit, leaked>>
Admission == <<flights, tokens, per_node, circuit, leaked>>

NoTask == [phase |-> "idle"]

Descriptors == UNION {ShardsOf[m] : m \in CheckpointIds}
CacheKeys == {ContractOf[m] : m \in CheckpointIds} \X Descriptors

-----------------------------------------------------------------------------
(* Publication. *)

\* The pointer's revision, 0 when there is none.
Revision == Len(published)

\* get_linearizable, or 0 known from the start; the publisher may be slow.
PreparePublication(p) ==
  /\ publishers[p] = NoTask
  /\ publishers' = [publishers EXCEPT ![p] =
       [phase |-> "publishing", manifest |-> Produces[p], expected |-> Revision]]
  /\ UNCHANGED <<durable, published>> /\ UNCHANGED Restoring

\* DurableShardStore.put: content addressed, so a second put changes nothing.
PutShard(p, d) ==
  /\ publishers[p].phase = "publishing" /\ d \in ShardsOf[publishers[p].manifest]
  /\ d \notin durable
  /\ durable' = durable \cup {d}
  /\ UNCHANGED <<published, publishers>> /\ UNCHANGED Restoring

\* All shards are durable before the pointer moves.  (Any of them is.)
ReadyToSwapEarly(p) == ShardsOf[publishers[p].manifest] \cap durable # {}
ReadyToSwap(p) == ShardsOf[publishers[p].manifest] \subseteq durable

\* compare_and_swap: refused if the pointer has moved since it was read.
CompareAndSwap(p) ==
  /\ publishers[p].phase = "publishing"
  /\ ReadyToSwap(p)
  /\ IF publishers[p].expected = Revision
       THEN /\ published' = Append(published, publishers[p].manifest)
            /\ publishers' = [publishers EXCEPT ![p] = [phase |-> "done"]]
       ELSE UNCHANGED published /\ publishers' = [publishers EXCEPT ![p] = NoTask]
  /\ UNCHANGED durable /\ UNCHANGED Restoring

LosePublisher(p) ==
  /\ publishers[p].phase = "publishing"
  /\ publishers' = [publishers EXCEPT ![p] = NoTask]
  /\ UNCHANGED <<durable, published>> /\ UNCHANGED Restoring

-----------------------------------------------------------------------------
(* Restore. *)

\* A reader takes the pointer and starts on its shards.  The pointer may move on.
BeginRestore(r) ==
  /\ readers[r] = NoTask
  /\ Revision > 0
  /\ readers' = [readers EXCEPT ![r] =
       [phase |-> "holding", revision |-> Revision, manifest |-> published[Revision],
        got |-> [d \in {} |-> BadBytes]]]
  /\ UNCHANGED <<durable, published, publishers, entries>> /\ UNCHANGED Admission

Holding(r, phase) == readers[r].phase = phase

\* acquire_or_join, by descriptor.
Request(r, d) ==
  /\ Holding(r, "holding")
  /\ d \in ShardsOf[readers[r].manifest] \ DOMAIN readers[r].got
  /\ flights' = flights \cup {d}
  /\ readers' = [readers EXCEPT ![r] =
       [phase |-> IF d \in flights THEN "following" ELSE "leading", shard |-> d,
        revision |-> @.revision, manifest |-> @.manifest, got |-> @.got]]
  /\ UNCHANGED <<durable, published, publishers, entries, tokens, per_node, circuit, leaked>>

\* TokenBudget.acquire.
HasToken == tokens.inflight < tokens.limit

\* The node has not used up its share.  (Compared with the reads before this one.)
NodeHasShareOffByOne(node) == per_node[node] <= PerNodeLimit
NodeHasShare(node) == per_node[node] < PerNodeLimit

\* begin_durable; a call that is refused has no effect, and may be repeated.
BeginDurable(r) ==
  /\ Holding(r, "leading")
  /\ ~circuit
  /\ NodeHasShare(r)
  /\ HasToken
  /\ tokens' = [tokens EXCEPT !.inflight = @ + 1]
  /\ per_node' = [per_node EXCEPT ![r] = @ + 1]
  /\ readers' = [readers EXCEPT ![r] = [@ EXCEPT !.phase = "reading"]]
  /\ UNCHANGED <<durable, published, publishers, entries, flights, circuit, leaked>>

\* What fetch_verified finds usable in the cache.  (Without looking at the bytes.)
UsableUnverified(key, d) == key \in DOMAIN entries
Usable(key, d) == key \in DOMAIN entries /\ entries[key] = d.bytes

\* fetch_verified: the usable entry, or the durable shard, which is cached.
FetchVerified(r) ==
  LET m == readers[r].manifest
      d == readers[r].shard
      key == <<ContractOf[m], d>>
      payload == IF Usable(key, d) THEN entries[key] ELSE d.bytes
  IN  /\ Usable(key, d) \/ d \in durable
      /\ entries' = IF Usable(key, d) THEN entries ELSE (key :> d.bytes) @@ entries
      /\ readers' = [readers EXCEPT ![r] =
           [phase |-> "holding", revision |-> @.revision, manifest |-> m,
            got |-> [c \in DOMAIN @.got \cup {d} |->
                               IF c = d THEN payload ELSE @.got[c]]]]
      /\ UNCHANGED <<durable, published, publishers>>

\* The leader's fetch, then finish_durable and complete.
LeaderFetch(r) ==
  /\ Holding(r, "reading")
  /\ FetchVerified(r)
  /\ tokens' = [tokens EXCEPT !.inflight = @ - 1]
  /\ per_node' = [per_node EXCEPT ![r] = @ - 1]
  /\ flights' = flights \ {readers[r].shard}
  /\ UNCHANGED <<circuit, leaked>>

\* A follower fetches for itself when the flight is over: from the cache, or,
\* if it wants the shard under another contract or its entry is gone, from the
\* durable store, with no token.
FollowerFetch(r) ==
  /\ Holding(r, "following")
  /\ readers[r].shard \notin flights
  /\ FetchVerified(r)
  /\ UNCHANGED Admission

\* A reader has all it wants.
EndRestore(r) ==
  /\ Holding(r, "holding")
  /\ DOMAIN readers[r].got = ShardsOf[readers[r].manifest]
  /\ readers' = [readers EXCEPT ![r] = NoTask]
  /\ UNCHANGED <<durable, published, publishers, entries>> /\ UNCHANGED Admission

\* A reader is lost.  A leader leaves its flight, and its token if it has one.
LoseReader(r) ==
  LET token == readers[r].phase = "reading"
  IN  /\ readers[r] # NoTask
      /\ Len(leaked) < MaxLeaks
      /\ leaked' = IF token THEN Append(leaked, r) ELSE leaked
      /\ readers' = [readers EXCEPT ![r] = NoTask]
      /\ UNCHANGED <<durable, published, publishers, entries, flights, tokens, per_node, circuit>>

-----------------------------------------------------------------------------
(* Load and cache weather. *)

\* observe: TokenBudget.adapt on the latency, and the circuit on an integrity
\* failure.
Observe(latency, integrity_failures) ==
  /\ tokens' = [tokens EXCEPT !.limit =
       CASE latency = "above_target" -> Max({1, @ \div 2})
         [] latency = "well_below" -> Min({DurableLimit, @ + 1})
         [] latency = "near_target" -> @]
  /\ circuit' = (circuit \/ integrity_failures > 0)
  /\ UNCHANGED <<durable, published, publishers, entries, readers, flights, per_node, leaked>>

CloseCircuitAfterHealthcheck ==
  /\ circuit' = FALSE
  /\ UNCHANGED <<durable, published, publishers, entries, readers, flights, tokens, per_node, leaked>>

\* The time to live is over: the next fetch deletes the entry before it looks.
Expire(key) ==
  /\ key \in DOMAIN entries
  /\ entries' = [k \in DOMAIN entries \ {key} |-> entries[k]]
  /\ UNCHANGED <<durable, published, publishers, readers>> /\ UNCHANGED Admission

CorruptEntry(key) ==
  /\ key \in DOMAIN entries
  /\ entries' = [entries EXCEPT ![key] = BadBytes]
  /\ UNCHANGED <<durable, published, publishers, readers>> /\ UNCHANGED Admission

-----------------------------------------------------------------------------
CacheInit ==
  /\ durable = {} /\ published = <<>>
  /\ publishers = [p \in Publishers |-> NoTask]
  /\ entries = [k \in {} |-> BadBytes]
  /\ readers = [r \in Readers |-> NoTask]
  /\ flights = {} /\ tokens = [limit |-> DurableLimit, inflight |-> 0]
  /\ per_node = [n \in Readers |-> 0]
  /\ circuit = FALSE /\ leaked = <<>>

CacheNext ==
  \/ \E p \in Publishers :
       \/ PreparePublication(p)
       \/ \E d \in Descriptors : PutShard(p, d)
       \/ CompareAndSwap(p) \/ LosePublisher(p)
  \/ \E r \in Readers :
       \/ BeginRestore(r)
       \/ \E d \in Descriptors : Request(r, d)
       \/ BeginDurable(r) \/ LeaderFetch(r) \/ FollowerFetch(r) \/ EndRestore(r) \/ LoseReader(r)
  \/ \E latency \in {"above_target", "near_target", "well_below"}, failures \in {0, 1} :
       Observe(latency, failures)
  \/ CloseCircuitAfterHealthcheck
  \/ \E key \in CacheKeys : Expire(key) \/ CorruptEntry(key)

CacheSpec == CacheInit /\ [][CacheNext]_cacheVars

-----------------------------------------------------------------------------
(* Properties. *)

\* What a reader has restored are the true bytes of shards of the manifest that
\* was published under the revision it began with: no mixture of checkpoints
\* although the pointer moves and checkpoints share shards, nothing corrupted,
\* nothing of a publication that was lost before its swap; and the shards it
\* still lacks are there to be read.
RestoredIsPublished ==
  \A r \in Readers : readers[r] # NoTask =>
    LET task == readers[r]
    IN  /\ published[task.revision] = task.manifest
        /\ DOMAIN task.got \subseteq ShardsOf[task.manifest]
        /\ \A d \in DOMAIN task.got : task.got[d] = d.bytes
        /\ ShardsOf[task.manifest] \subseteq durable

WithToken(r) == readers[r].phase = "reading"

\* However the limit adapts, readers with a token never exceed the tokens there
\* ever were nor their node's share, every token is held by a reader or went
\* with a lost one, and no two of them read the same shard.
StampedeShielded ==
  /\ tokens.limit \in 1 .. DurableLimit /\ tokens.inflight \in 0 .. DurableLimit
  /\ tokens.inflight = Cardinality({r \in Readers : WithToken(r)}) + Len(leaked)
  /\ \A r \in Readers :
       /\ per_node[r] <= PerNodeLimit
       /\ per_node[r] = (IF WithToken(r) THEN 1 ELSE 0)
                        + Cardinality({i \in 1 .. Len(leaked) : leaked[i] = r})
  /\ \A r, s \in Readers :
       WithToken(r) /\ WithToken(s) /\ r # s => readers[r].shard # readers[s].shard
=============================================================================
