--------------------------- MODULE TrainingProofs ---------------------------
(***************************************************************************)
(* Proofs about what surrounds a training group, for any number of         *)
(* processes and any bounds.                                               *)
(***************************************************************************)
EXTENDS CheckpointCache, DdpTrainer, IncrementalRun, FiniteSetTheorems, TLAPS

-----------------------------------------------------------------------------
(***************************************************************************)
(* The checkpoint cache.                                                   *)
(***************************************************************************)

\* What a reader works on is what was published when it began.
Restoration(task) ==
  /\ task.phase \in {"holding", "following", "leading", "reading"}
  /\ task.revision \in 1 .. Len(published) /\ task.manifest = published[task.revision]
  /\ DOMAIN task.got \subseteq ShardsOf[task.manifest]
  /\ \A d \in DOMAIN task.got : task.got[d] = d.bytes
  /\ task.phase # "holding" =>
       /\ DOMAIN task = {"phase", "shard", "revision", "manifest", "got"}
       /\ task.shard \in ShardsOf[task.manifest]

\* A manifest is published after all of its shards, and stays so.
PublicationInv ==
  /\ published \in Seq(CheckpointIds)
  /\ \A i \in 1 .. Len(published) : ShardsOf[published[i]] \subseteq durable
  /\ DOMAIN publishers = Publishers
  /\ \A p \in Publishers :
       publishers[p].phase = "publishing" => publishers[p].manifest \in CheckpointIds

RestoreInv ==
  /\ PublicationInv
  /\ DOMAIN readers = Readers
  /\ \A r \in Readers : readers[r] = NoTask \/ Restoration(readers[r])

LEMMA NoTaskFields == NoTask.phase = "idle"
BY DEF NoTask

\* A step of a publisher.
LEMMA PublishingKeepsRestoreInv ==
  ASSUME RestoreInv, NEW p \in Publishers,
         \/ PreparePublication(p)
         \/ \E d \in Descriptors : PutShard(p, d)
         \/ CompareAndSwap(p) \/ LosePublisher(p)
  PROVE  RestoreInv'
<1>1. UNCHANGED readers
  BY DEF PreparePublication, PutShard, CompareAndSwap, LosePublisher, Restoring
<1>2. PublicationInv' /\ Len(published) <= Len(published')
      /\ \A i \in 1 .. Len(published) : published'[i] = published[i]
  <2>5. Len(published) \in Nat
    BY DEF RestoreInv, PublicationInv
  <2>1. CASE PreparePublication(p)
    <3>1. Produces[p] \in CheckpointIds
      BY CacheAssumption
    <3>2. /\ UNCHANGED <<durable, published>>
          /\ publishers' = [publishers EXCEPT ![p] =
               [phase |-> "publishing", manifest |-> Produces[p], expected |-> Revision]]
      BY <2>1 DEF PreparePublication
    <3>3. PublicationInv'
      BY <3>1, <3>2 DEF RestoreInv, PublicationInv
    <3> QED
      BY <3>2, <3>3, <2>5
  <2>2. ASSUME NEW d \in Descriptors, PutShard(p, d)
        PROVE  PublicationInv' /\ UNCHANGED published
    BY <2>2 DEF PutShard, RestoreInv, PublicationInv
  <2>3. CASE CompareAndSwap(p)
    <3>1. CASE publishers[p].expected = Revision
      <4>1. /\ published' = Append(published, publishers[p].manifest)
            /\ publishers' = [publishers EXCEPT ![p] = [phase |-> "done"]]
            /\ UNCHANGED durable
            /\ publishers[p].manifest \in CheckpointIds
            /\ ShardsOf[publishers[p].manifest] \subseteq durable
        BY <2>3, <3>1 DEF CompareAndSwap, ReadyToSwap, RestoreInv, PublicationInv
      <4>2. /\ published' \in Seq(CheckpointIds) /\ Len(published') = Len(published) + 1
            /\ \A i \in 1 .. Len(published) : published'[i] = published[i]
            /\ published'[Len(published')] = publishers[p].manifest
            /\ Len(published) \in Nat
        BY <4>1 DEF RestoreInv, PublicationInv
      <4>3. \A i \in 1 .. Len(published') : ShardsOf[published'[i]] \subseteq durable
        BY <4>1, <4>2 DEF RestoreInv, PublicationInv
      <4>4. /\ DOMAIN publishers' = Publishers
            /\ \A q \in Publishers : publishers'[q].phase = "publishing" =>
                 publishers'[q].manifest \in CheckpointIds
        BY <4>1 DEF RestoreInv, PublicationInv
      <4> QED
        BY <4>1, <4>2, <4>3, <4>4 DEF PublicationInv
    <3>2. CASE publishers[p].expected # Revision
      BY <2>3, <3>2, NoTaskFields DEF CompareAndSwap, RestoreInv, PublicationInv
    <3> QED
      BY <3>1, <3>2
  <2>4. CASE LosePublisher(p)
    BY <2>4, NoTaskFields DEF LosePublisher, RestoreInv, PublicationInv
  <2> QED
    BY <2>1, <2>2, <2>3, <2>4, <2>5
<1>3. \A task : Restoration(task) => Restoration(task)'
  <2>1. Len(published) \in Nat /\ Len(published') \in Nat
    BY <1>2 DEF RestoreInv, PublicationInv
  <2>2. ASSUME NEW task, Restoration(task) PROVE Restoration(task)'
    <3>1. task.revision \in 1 .. Len(published)
      BY <2>2 DEF Restoration
    <3>2. /\ task.revision \in 1 .. Len(published')
          /\ published'[task.revision] = published[task.revision]
      BY <1>2, <2>1, <3>1
    <3> QED
      BY <2>2, <3>2 DEF Restoration
  <2> QED
    BY <2>2
<1> QED
  BY <1>1, <1>2, <1>3 DEF RestoreInv

\* A step of a reader.
LEMMA RestoringKeepsRestoreInv ==
  ASSUME RestoreInv, NEW r \in Readers,
         \/ BeginRestore(r)
         \/ \E d \in Descriptors : Request(r, d)
         \/ BeginDurable(r) \/ LeaderFetch(r) \/ FollowerFetch(r) \/ EndRestore(r)
         \/ LoseReader(r)
  PROVE  RestoreInv'
<1>1. UNCHANGED <<durable, published, publishers>>
  BY DEF BeginRestore, Request, BeginDurable, LeaderFetch, FollowerFetch, FetchVerified,
         EndRestore, LoseReader
<1>2. \A task : Restoration(task)' <=> Restoration(task)
  BY <1>1 DEF Restoration
<1>3. PublicationInv'
  BY <1>1 DEF RestoreInv, PublicationInv
<1>4. ASSUME NEW task, readers' = [readers EXCEPT ![r] = task],
             task = NoTask \/ Restoration(task)
      PROVE  RestoreInv'
  BY <1>2, <1>3, <1>4 DEF RestoreInv
<1>5. readers[r].phase # "idle" => Restoration(readers[r])
  BY NoTaskFields DEF RestoreInv
<1>6. CASE BeginRestore(r)
  <2> DEFINE task == [phase |-> "holding", revision |-> Revision,
                      manifest |-> published[Revision], got |-> [d \in {} |-> BadBytes]]
  <2>1. Restoration(task)
    BY <1>6 DEF BeginRestore, Revision, Restoration, RestoreInv, PublicationInv
  <2>2. readers' = [readers EXCEPT ![r] = task]
    BY <1>6 DEF BeginRestore
  <2> QED
    BY <1>4, <2>1, <2>2
<1>7. ASSUME NEW d \in Descriptors, Request(r, d) PROVE RestoreInv'
  <2> DEFINE task == [phase |-> IF d \in flights THEN "following" ELSE "leading", shard |-> d,
                      revision |-> readers[r].revision, manifest |-> readers[r].manifest,
                      got |-> readers[r].got]
  <2>1. Restoration(task)
    BY <1>5, <1>7 DEF Request, Holding, Restoration
  <2>2. readers' = [readers EXCEPT ![r] = task]
    BY <1>7 DEF Request
  <2> QED
    BY <1>4, <2>1, <2>2
<1>8. CASE BeginDurable(r)
  <2> DEFINE task == [readers[r] EXCEPT !.phase = "reading"]
  <2>1. Restoration(task)
    BY <1>5, <1>8 DEF BeginDurable, Holding, Restoration
  <2>2. readers' = [readers EXCEPT ![r] = task]
    BY <1>8 DEF BeginDurable
  <2> QED
    BY <1>4, <2>1, <2>2
<1>9. ASSUME FetchVerified(r), readers[r].phase \in {"reading", "following"} PROVE RestoreInv'
  <2> DEFINE shard == readers[r].shard
             key == <<ContractOf[readers[r].manifest], shard>>
             payload == IF Usable(key, shard) THEN entries[key] ELSE shard.bytes
             got == [c \in DOMAIN readers[r].got \cup {shard} |->
                       IF c = shard THEN payload ELSE readers[r].got[c]]
             task == [phase |-> "holding", revision |-> readers[r].revision,
                      manifest |-> readers[r].manifest, got |-> got]
  <2>1. payload = shard.bytes
    BY DEF Usable
  <2>2. readers' = [readers EXCEPT ![r] = task]
    BY <1>9 DEF FetchVerified
  <2> HIDE DEF payload
  <2>3. Restoration(task)
    BY <1>5, <1>9, <2>1 DEF Restoration
  <2> QED
    BY <1>4, <2>2, <2>3
<1>10. CASE EndRestore(r) \/ LoseReader(r)
  BY <1>4, <1>10 DEF EndRestore, LoseReader
<1> QED
  BY <1>6, <1>7, <1>8, <1>9, <1>10 DEF LeaderFetch, FollowerFetch, Holding

LEMMA StepKeepsRestoreInv ==
  ASSUME RestoreInv, [CacheNext]_cacheVars
  PROVE  RestoreInv'
<1>1. ASSUME UNCHANGED <<durable, published, publishers, readers>> PROVE RestoreInv'
  BY <1>1 DEF RestoreInv, PublicationInv, Restoration
<1> QED
  BY <1>1, PublishingKeepsRestoreInv, RestoringKeepsRestoreInv
     DEF CacheNext, cacheVars, Observe, CloseCircuitAfterHealthcheck, Expire, CorruptEntry

\* The inductive invariant of publication and restore.
THEOREM RestoreInvCorrect == CacheSpec => []RestoreInv
<1>1. CacheInit => RestoreInv
  BY NoTaskFields DEF CacheInit, RestoreInv, PublicationInv
<1> QED
  BY <1>1, StepKeepsRestoreInv, PTL DEF CacheSpec

\* A reader's shards are those of one published manifest, in its true bytes, though
\* the pointer moves, publishers are lost half way and the cache lies.
THEOREM RestoredCorrect == CacheSpec => []RestoredIsPublished
<1>1. RestoreInv => RestoredIsPublished
  BY DEF RestoreInv, PublicationInv, Restoration, RestoredIsPublished
<1> QED
  BY <1>1, RestoreInvCorrect, PTL

Leads(r) == readers[r].phase \in {"leading", "reading"}
Holders == {r \in Readers : WithToken(r)}
Occurrences(s, x) == Cardinality({i \in 1 .. Len(s) : s[i] = x})
Lost(r) == Occurrences(leaked, r)

\* Each shard has one leader at a time, and each token one holder.
TokenInv ==
  /\ tokens \in [limit : 1 .. DurableLimit, inflight : 0 .. DurableLimit]
  /\ per_node \in [Readers -> 0 .. PerNodeLimit]
  /\ leaked \in Seq(Readers)
  /\ \A r \in Readers : Leads(r) => readers[r].shard \in flights
  /\ \A r, s \in Readers : Leads(r) /\ Leads(s) /\ r # s => readers[r].shard # readers[s].shard
  /\ tokens.inflight = Cardinality(Holders) + Len(leaked)
  /\ \A r \in Readers : per_node[r] = (IF WithToken(r) THEN 1 ELSE 0) + Lost(r)

LEMMA HoldersAreFinite == IsFiniteSet(Holders) /\ Cardinality(Holders) \in Nat
BY CacheAssumption, FS_Subset, FS_CardinalityType DEF Holders

LEMMA CountAppended ==
  ASSUME NEW S, NEW s \in Seq(S), NEW x \in S, NEW y
  PROVE  /\ Occurrences(s, y) \in Nat
         /\ Occurrences(Append(s, x), y) = Occurrences(s, y) + IF x = y THEN 1 ELSE 0
<1> DEFINE old == {i \in 1 .. Len(s) : s[i] = y}
           new == {i \in 1 .. Len(Append(s, x)) : Append(s, x)[i] = y}
<1>1. Len(s) \in Nat /\ IsFiniteSet(1 .. Len(s))
  BY FS_Interval
<1>2. IsFiniteSet(old) /\ Cardinality(old) \in Nat
  BY <1>1, FS_Subset, FS_CardinalityType
<1>3. new = IF x = y THEN old \cup {Len(s) + 1} ELSE old
  OBVIOUS
<1>4. Len(s) + 1 \notin old
  BY <1>1
<1>5. Cardinality(old \cup {Len(s) + 1}) = Cardinality(old) + 1
  BY <1>2, <1>4, FS_AddElement
<1> HIDE DEF old, new
<1>6. Cardinality(new) = Cardinality(old) + IF x = y THEN 1 ELSE 0
  BY <1>2, <1>3, <1>5
<1> QED
  BY <1>2, <1>6 DEF old, new, Occurrences

LEMMA LostIsNatural ==
  ASSUME TokenInv, NEW r \in Readers
  PROVE  Lost(r) \in Nat
BY CountAppended DEF TokenInv, Lost

\* A fetch puts the reader back to choosing its next shard.
LEMMA FetchEnds ==
  ASSUME NEW r \in Readers, FetchVerified(r)
  PROVE  \E task : readers' = [readers EXCEPT ![r] = task] /\ task.phase = "holding"
<1> DEFINE shard == readers[r].shard
           key == <<ContractOf[readers[r].manifest], shard>>
           payload == IF Usable(key, shard) THEN entries[key] ELSE shard.bytes
           got == [c \in DOMAIN readers[r].got \cup {shard} |->
                     IF c = shard THEN payload ELSE readers[r].got[c]]
           task == [phase |-> "holding", revision |-> readers[r].revision,
                    manifest |-> readers[r].manifest, got |-> got]
<1>1. readers' = [readers EXCEPT ![r] = task]
  BY DEF FetchVerified
<1>2. task.phase = "holding"
  OBVIOUS
<1> HIDE DEF task
<1> QED
  BY <1>1, <1>2

\* A step that neither gives nor takes a token.
LEMMA OtherStepKeepsTokenInv ==
  ASSUME TokenInv, UNCHANGED <<per_node, leaked>>, tokens'.inflight = tokens.inflight,
         tokens' \in [limit : 1 .. DurableLimit, inflight : 0 .. DurableLimit],
         \A r \in Readers : WithToken(r)' <=> WithToken(r),
         \A r \in Readers : Leads(r)' => readers'[r].shard \in flights',
         \A r, s \in Readers : Leads(r)' /\ Leads(s)' /\ r # s =>
            readers'[r].shard # readers'[s].shard
  PROVE  TokenInv'
<1>1. UNCHANGED Holders
  BY DEF Holders
<1> QED
  BY <1>1 DEF TokenInv, Lost

LEMMA StepKeepsTokenInv ==
  ASSUME RestoreInv, TokenInv, CacheNext
  PROVE  TokenInv'
<1> USE DEF RestoreInv
<1>1. ASSUME UNCHANGED <<readers, flights, tokens, per_node, leaked>> PROVE TokenInv'
  BY <1>1 DEF TokenInv, Holders, WithToken, Leads, Lost
<1>2. ASSUME NEW r \in Readers, BeginRestore(r) PROVE TokenInv'
  BY <1>2, NoTaskFields, OtherStepKeepsTokenInv
     DEF BeginRestore, Admission, TokenInv, WithToken, Leads
<1>3. ASSUME NEW r \in Readers, NEW d \in Descriptors, Request(r, d) PROVE TokenInv'
  BY <1>3, OtherStepKeepsTokenInv DEF Request, Holding, TokenInv, WithToken, Leads
<1>4. ASSUME NEW r \in Readers, BeginDurable(r) PROVE TokenInv'
  <2> DEFINE task == [readers[r] EXCEPT !.phase = "reading"]
  <2>1. Restoration(readers[r]) /\ readers[r].phase = "leading"
    BY <1>4, NoTaskFields DEF BeginDurable, Holding
  <2>2. task.phase = "reading" /\ task.shard = readers[r].shard
    BY <2>1 DEF Restoration
  <2>3. readers' = [readers EXCEPT ![r] = task]
    BY <1>4 DEF BeginDurable
  <2> HIDE DEF task
  <2>4. /\ tokens.inflight < tokens.limit /\ per_node[r] < PerNodeLimit
        /\ tokens' = [tokens EXCEPT !.inflight = @ + 1]
        /\ per_node' = [per_node EXCEPT ![r] = @ + 1]
        /\ UNCHANGED <<flights, leaked>>
    BY <1>4 DEF BeginDurable, HasToken, NodeHasShare
  <2>5. \A s \in Readers : /\ Leads(s)' <=> Leads(s)
                           /\ Leads(s) => readers'[s].shard = readers[s].shard
                           /\ s # r => (WithToken(s)' <=> WithToken(s))
    BY <2>1, <2>2, <2>3 DEF Leads, WithToken
  <2>6. ~WithToken(r) /\ WithToken(r)'
    BY <2>1, <2>2, <2>3 DEF WithToken
  <2>7. Holders' = Holders \cup {r} /\ r \notin Holders
    BY <2>5, <2>6 DEF Holders
  <2>8. Cardinality(Holders') = Cardinality(Holders) + 1
    BY <2>7, HoldersAreFinite, FS_AddElement
  <2>9. \A s \in Readers : Lost(s) \in Nat /\ Lost(s)' = Lost(s)
    BY <2>4, LostIsNatural DEF Lost
  <2>10. /\ tokens'.inflight = tokens.inflight + 1
         /\ tokens' \in [limit : 1 .. DurableLimit, inflight : 0 .. DurableLimit]
    BY <2>4, CacheAssumption, SMTT(20) DEF TokenInv
  <2>11. /\ per_node' \in [Readers -> 0 .. PerNodeLimit]
         /\ \A s \in Readers : per_node'[s] = (IF WithToken(s)' THEN 1 ELSE 0) + Lost(s)
    BY <2>4, <2>5, <2>6, <2>9, CacheAssumption DEF TokenInv
  <2>12. /\ \A s \in Readers : Leads(s)' => readers'[s].shard \in flights'
         /\ \A s, q \in Readers : Leads(s)' /\ Leads(q)' /\ s # q =>
              readers'[s].shard # readers'[q].shard
    BY <2>4, <2>5, SMTT(20) DEF TokenInv
  <2>13. leaked' \in Seq(Readers) /\ tokens'.inflight = Cardinality(Holders') + Len(leaked')
    <3>1. Len(leaked) \in Nat
      BY DEF TokenInv
    <3> QED
      BY <2>4, <2>8, <2>10, <3>1, HoldersAreFinite DEF TokenInv
  <2>14. \A s \in Readers : per_node'[s] = (IF WithToken(s)' THEN 1 ELSE 0) + Lost(s)'
    BY <2>9, <2>11
  <2> QED
    BY <2>10, <2>11, <2>12, <2>13, <2>14 DEF TokenInv
<1>5. ASSUME NEW r \in Readers, LeaderFetch(r) PROVE TokenInv'
  <2>1. Restoration(readers[r]) /\ readers[r].phase = "reading"
    BY <1>5, NoTaskFields DEF LeaderFetch, Holding
  <2>2. PICK task : readers' = [readers EXCEPT ![r] = task] /\ task.phase = "holding"
    BY <1>5, FetchEnds DEF LeaderFetch
  <2>4. /\ tokens' = [tokens EXCEPT !.inflight = @ - 1]
        /\ per_node' = [per_node EXCEPT ![r] = @ - 1]
        /\ flights' = flights \ {readers[r].shard} /\ UNCHANGED leaked
    BY <1>5 DEF LeaderFetch
  <2>5. /\ \A s \in Readers \ {r} : readers'[s] = readers[s] /\ (WithToken(s)' <=> WithToken(s))
        /\ WithToken(r) /\ ~WithToken(r)' /\ Leads(r) /\ ~Leads(r)'
    BY <2>1, <2>2 DEF Leads, WithToken
  <2>7. Holders' = Holders \ {r} /\ r \in Holders
    BY <2>5 DEF Holders
  <2>8. Cardinality(Holders') = Cardinality(Holders) - 1
    BY <2>7, HoldersAreFinite, FS_RemoveElement
  <2>9. \A s \in Readers : Lost(s) \in Nat /\ Lost(s)' = Lost(s)
    BY <2>4, LostIsNatural DEF Lost
  <2>10. Cardinality(Holders) # 0 /\ Cardinality(Holders') \in Nat
    <3>1. IsFiniteSet(Holders')
      BY <2>7, HoldersAreFinite, FS_RemoveElement
    <3> QED
      BY <2>7, <3>1, HoldersAreFinite, FS_EmptySet, FS_CardinalityType
  <2>12. /\ tokens'.inflight = tokens.inflight - 1
         /\ tokens' \in [limit : 1 .. DurableLimit, inflight : 0 .. DurableLimit]
    <3>1. Len(leaked) \in Nat /\ tokens.inflight = Cardinality(Holders) + Len(leaked)
      BY DEF TokenInv
    <3>2. tokens.inflight - 1 \in 0 .. DurableLimit
      BY <2>10, <3>1, HoldersAreFinite, CacheAssumption DEF TokenInv
    <3> QED
      BY <2>4, <3>2 DEF TokenInv
  <2>11. /\ per_node' \in [Readers -> 0 .. PerNodeLimit]
         /\ \A s \in Readers : per_node'[s] = (IF WithToken(s)' THEN 1 ELSE 0) + Lost(s)
    BY <2>4, <2>5, <2>9, CacheAssumption DEF TokenInv
  <2>13. \A s \in Readers : Leads(s)' =>
           /\ s # r /\ Leads(s) /\ readers'[s].shard = readers[s].shard
           /\ readers[s].shard # readers[r].shard
    BY <2>5 DEF Leads, TokenInv
  <2>14. /\ \A s \in Readers : Leads(s)' => readers'[s].shard \in flights'
         /\ \A s, q \in Readers : Leads(s)' /\ Leads(q)' /\ s # q =>
              readers'[s].shard # readers'[q].shard
    BY <2>4, <2>13 DEF TokenInv
  <2>15. leaked' \in Seq(Readers) /\ tokens'.inflight = Cardinality(Holders') + Len(leaked')
    <3>1. Len(leaked) \in Nat
      BY DEF TokenInv
    <3> QED
      BY <2>4, <2>8, <2>12, <3>1, HoldersAreFinite DEF TokenInv
  <2>16. \A s \in Readers : per_node'[s] = (IF WithToken(s)' THEN 1 ELSE 0) + Lost(s)'
    BY <2>9, <2>11
  <2> QED
    BY <2>11, <2>12, <2>14, <2>15, <2>16 DEF TokenInv
<1>6. ASSUME NEW r \in Readers, FollowerFetch(r) PROVE TokenInv'
  <2>1. PICK task : readers' = [readers EXCEPT ![r] = task] /\ task.phase = "holding"
    BY <1>6, FetchEnds DEF FollowerFetch
  <2>2. readers[r].phase = "following" /\ UNCHANGED <<flights, tokens, per_node, leaked>>
    BY <1>6 DEF FollowerFetch, Admission, Holding
  <2> QED
    BY <2>1, <2>2, OtherStepKeepsTokenInv DEF TokenInv, WithToken, Leads
<1>7. ASSUME NEW r \in Readers, EndRestore(r) PROVE TokenInv'
  BY <1>7, NoTaskFields, OtherStepKeepsTokenInv
     DEF EndRestore, Admission, Holding, TokenInv, WithToken, Leads
<1>8. ASSUME NEW r \in Readers, LoseReader(r), readers[r].phase # "reading" PROVE TokenInv'
  BY <1>8, NoTaskFields, OtherStepKeepsTokenInv DEF LoseReader, TokenInv, WithToken, Leads
<1>9. ASSUME NEW r \in Readers, LoseReader(r), readers[r].phase = "reading" PROVE TokenInv'
  <2>1. /\ leaked' = Append(leaked, r) /\ readers' = [readers EXCEPT ![r] = NoTask]
        /\ UNCHANGED <<flights, tokens, per_node>>
    BY <1>9 DEF LoseReader
  <2>2. /\ \A s \in Readers \ {r} : readers'[s] = readers[s] /\ (WithToken(s)' <=> WithToken(s))
        /\ WithToken(r) /\ ~WithToken(r)' /\ Leads(r) /\ ~Leads(r)'
    BY <1>9, <2>1, NoTaskFields DEF Leads, WithToken
  <2>3. Holders' = Holders \ {r} /\ r \in Holders
    BY <2>2 DEF Holders
  <2>4. Cardinality(Holders') = Cardinality(Holders) - 1
    BY <2>3, HoldersAreFinite, FS_RemoveElement
  <2>5. \A s \in Readers : Lost(s) \in Nat /\ Lost(s)' = Lost(s) + IF s = r THEN 1 ELSE 0
    <3>1. leaked \in Seq(Readers)
      BY DEF TokenInv
    <3> QED
      BY <2>1, <3>1, CountAppended DEF Lost
  <2>6. leaked' \in Seq(Readers) /\ Len(leaked') = Len(leaked) + 1 /\ Len(leaked) \in Nat
    BY <2>1 DEF TokenInv
  <2>7. ASSUME NEW s \in Readers
        PROVE  per_node'[s] = (IF WithToken(s)' THEN 1 ELSE 0) + Lost(s)'
    <3>1. per_node'[s] = per_node[s] /\ per_node[s] = (IF WithToken(s) THEN 1 ELSE 0) + Lost(s)
      BY <2>1 DEF TokenInv
    <3>2. Lost(s) \in Nat /\ Lost(s)' = Lost(s) + IF s = r THEN 1 ELSE 0
      BY <2>5
    <3>3. CASE s = r
      <4>1. WithToken(s) /\ ~WithToken(s)' /\ Lost(s)' = Lost(s) + 1
        BY <2>2, <3>2, <3>3
      <4> HIDE DEF WithToken, Lost
      <4> QED
        BY <3>1, <3>2, <4>1
    <3>4. CASE s # r
      <4>1. (WithToken(s)' <=> WithToken(s)) /\ Lost(s)' = Lost(s)
        BY <2>2, <3>2, <3>4
      <4> QED
        BY <3>1, <4>1
    <3> QED
      BY <3>3, <3>4
  <2>8. \A s \in Readers : Leads(s)' => Leads(s) /\ readers'[s] = readers[s]
    BY <2>2 DEF Leads
  <2>9. tokens'.inflight = Cardinality(Holders') + Len(leaked')
    BY <2>1, <2>4, <2>6, HoldersAreFinite DEF TokenInv
  <2> QED
    BY <2>1, <2>6, <2>7, <2>8, <2>9 DEF TokenInv
<1>10. ASSUME NEW latency \in {"above_target", "near_target", "well_below"},
              NEW broken \in {0, 1}, Observe(latency, broken)
       PROVE  TokenInv'
  <2>1. PICK limit : tokens' = [tokens EXCEPT !.limit = limit] /\ limit \in 1 .. DurableLimit
    <3>1. tokens.limit \in 1 .. DurableLimit
      BY DEF TokenInv
    <3>2. tokens.limit \div 2 \in Int /\ tokens.limit \div 2 <= tokens.limit
      BY <3>1, CacheAssumption
    <3>3. Max({1, tokens.limit \div 2}) \in 1 .. DurableLimit
      BY <3>1, <3>2, CacheAssumption DEF Max
    <3>4. Min({DurableLimit, tokens.limit + 1}) \in 1 .. DurableLimit
      BY <3>1, CacheAssumption DEF Min
    <3> QED
      BY <1>10, <3>1, <3>3, <3>4 DEF Observe
  <2>2. /\ tokens'.inflight = tokens.inflight
        /\ tokens' \in [limit : 1 .. DurableLimit, inflight : 0 .. DurableLimit]
    BY <2>1 DEF TokenInv
  <2>3. UNCHANGED <<readers, flights, per_node, leaked>>
    BY <1>10 DEF Observe
  <2> QED
    BY <2>2, <2>3, OtherStepKeepsTokenInv DEF TokenInv, WithToken, Leads
<1> QED
  BY <1>1, <1>2, <1>3, <1>4, <1>5, <1>6, <1>7, <1>8, <1>9, <1>10
     DEF CacheNext, PreparePublication, PutShard, CompareAndSwap, LosePublisher, Restoring,
         CloseCircuitAfterHealthcheck, Expire, CorruptEntry, Admission

\* However the limit adapts and whichever readers are lost: tokens balance, a node
\* keeps its share, and a shard is read by one leader at a time.
THEOREM ShieldCorrect == CacheSpec => []StampedeShielded
<1>1. CacheInit => TokenInv
  <2>1. CacheInit => Holders = {}
    BY NoTaskFields DEF CacheInit, Holders, WithToken
  <2>2. CacheInit => \A r \in Readers : Lost(r) = 0
    <3>1. CacheInit => \A r \in Readers : {i \in 1 .. Len(leaked) : leaked[i] = r} = {}
      BY DEF CacheInit
    <3> QED
      BY <3>1, FS_EmptySet DEF Lost, Occurrences
  <2> SUFFICES ASSUME CacheInit PROVE TokenInv
    OBVIOUS
  <2>3. \A r \in Readers : ~WithToken(r) /\ ~Leads(r) /\ Lost(r) = 0 /\ per_node[r] = 0
    BY <2>2, NoTaskFields DEF CacheInit, WithToken, Leads
  <2>4. Cardinality(Holders) = 0 /\ tokens.inflight = 0 /\ leaked = <<>> /\ Len(leaked) = 0
    BY <2>1, FS_EmptySet DEF CacheInit
  <2>5. /\ tokens \in [limit : 1 .. DurableLimit, inflight : 0 .. DurableLimit]
        /\ per_node \in [Readers -> 0 .. PerNodeLimit] /\ leaked \in Seq(Readers)
    BY CacheAssumption DEF CacheInit
  <2> QED
    BY <2>3, <2>4, <2>5 DEF TokenInv
<1>2. RestoreInv /\ TokenInv /\ [CacheNext]_cacheVars => TokenInv'
  <2>1. ASSUME TokenInv, UNCHANGED cacheVars PROVE TokenInv'
    BY <2>1 DEF cacheVars, TokenInv, Holders, WithToken, Leads, Lost
  <2> QED
    BY <2>1, StepKeepsTokenInv
<1>3. TokenInv => StampedeShielded
  <2> SUFFICES ASSUME TokenInv PROVE StampedeShielded
    OBVIOUS
  <2>1. \A r, s \in Readers :
          WithToken(r) /\ WithToken(s) /\ r # s => readers[r].shard # readers[s].shard
    BY DEF TokenInv, WithToken, Leads
  <2> QED
    BY <2>1, CacheAssumption DEF TokenInv, Lost, Occurrences, Holders, StampedeShielded
<1> QED
  BY <1>1, <1>2, <1>3, RestoreInvCorrect, PTL DEF CacheSpec

-----------------------------------------------------------------------------
(***************************************************************************)
(* The DDP trainer.                                                        *)
(***************************************************************************)

TrainerPlaces == {"init", "fetch", "optimizer", "write", "writing", "replace", "exited"} \cup Meetings
Saving == {"write", "writing", "replace"}
Positions == [at : TrainerPlaces, epoch : Nat, batch : Nat, micro : Nat, step : Nat]
Models == [origin : Trainers, steps : Nat, garbled : BOOLEAN]

\* The optimizer steps of an epoch, and of all.
UpdatesPerEpoch == batches \div Accumulation
AllUpdates == Epochs * UpdatesPerEpoch
UpdatesAt(t) == t.epoch * UpdatesPerEpoch + t.batch \div Accumulation

\* How many steps a rank has made when it is at a place.
Placed(r, t) ==
  /\ t.at \in {"init", "construct"} => t.epoch = 0 /\ t.batch = 0 /\ t.step = 0
  /\ t.at \in {"fetch", "gradients", "optimizer", "ema", "log", "save", "saved"} =>
       t.epoch < Epochs /\ t.batch <= batches
  /\ t.at = "fetch" => t.step = UpdatesAt(t)
  /\ t.at \in {"gradients", "optimizer"} => t.step + 1 = UpdatesAt(t)
  /\ t.at \in {"ema", "log", "save", "saved"} => t.step = UpdatesAt(t) /\ t.step > 0
  /\ t.at = "final" => t.epoch = Epochs /\ t.step = AllUpdates
  /\ t.at \in Saving =>
       /\ r = Primary
       /\ \/ t.epoch = Epochs /\ t.step = AllUpdates
          \/ t.epoch < Epochs /\ t.batch <= batches /\ t.step = UpdatesAt(t) /\ t.step > 0

\* The meeting that a rank is at or comes to next.
AfterSave(step) == IF step < AllUpdates THEN <<"gradients", step>> ELSE <<"final", step>>
AfterLog(step) == IF step % SaveInterval = 0 THEN <<"save", step>> ELSE AfterSave(step)
AfterEma(step) == IF step % LogInterval = 0 THEN <<"log", step>> ELSE AfterLog(step)
AfterUpdate(step) == IF step % EmaInterval = 0 THEN <<"ema", step>> ELSE AfterEma(step)
Ahead(t) ==
  CASE t.at \in {"init", "construct"} -> <<"construct", 0>>
    [] t.at = "fetch" -> AfterSave(t.step)
    [] t.at = "optimizer" -> AfterUpdate(t.step + 1)
    [] t.at \in Saving -> <<IF t.epoch = Epochs THEN "cleanup" ELSE "saved", t.step>>
    [] OTHER -> <<t.at, t.step>>

SomeoneLeft == \E r \in Trainers : trainer[r].at = "exited"

PositionInv ==
  /\ trainer \in [Trainers -> Positions] /\ replica \in [Trainers -> Models]
  /\ batches \in Nat
  /\ \A r \in Trainers : Placed(r, trainer[r]) /\ replica[r].steps >= trainer[r].step

\* As long as nobody has left, those who did not raise come to the same meeting.
LockstepInv ==
  ~SomeoneLeft =>
    \A r, q \in Trainers :
      trainer[r].at # "cleanup" /\ trainer[q].at # "cleanup" => Ahead(trainer[r]) = Ahead(trainer[q])

\* Wrong data is with a rank only when another has left it alone.
GarbledInv ==
  \A r \in Trainers : replica[r].garbled =>
    /\ trainer[r].at = "init" \/ SomeoneLeft
    /\ trainer[r].at \notin Saving

SoundCheckpoint(file, n) ==
  /\ file.is = "checkpoint" /\ file.model \in Models /\ ~file.model.garbled
  /\ file.global_step = IF n = LastPt THEN AllUpdates ELSE n
  /\ file.model.steps >= file.global_step

DiskInv ==
  /\ DOMAIN disk_files = TrainerPaths
  /\ \A p \in TrainerPaths : p[1] = "final" =>
       disk_files[p] = Absent \/ SoundCheckpoint(disk_files[p], p[2])
  /\ parent = NoParent \/ (parent \in TrainerPaths /\ parent[1] = "final")
  /\ \A r \in Trainers : trainer[r].at = "replace" /\ Target(r) \in TrainerPaths =>
       SoundCheckpoint(disk_files[Temporary(Target(r))], Target(r)[2])

TrainerInv == PositionInv /\ LockstepInv /\ GarbledInv /\ DiskInv

\* The number of whole updates in some batches.
LEMMA WholeUpdates ==
  ASSUME NEW a \in Nat \ {0}, NEW b \in Nat
  PROVE  /\ b \div a \in Nat /\ 0 \div a = 0
         /\ (b + 1) \div a = (b \div a) + IF (b + 1) % a = 0 THEN 1 ELSE 0
<1>1. b \div a \in Nat /\ b % a \in 0 .. a - 1 /\ b = a * (b \div a) + (b % a)
  OBVIOUS
<1>2. /\ (b + 1) \div a \in Nat /\ (b + 1) % a \in 0 .. a - 1
      /\ b + 1 = a * ((b + 1) \div a) + ((b + 1) % a)
  OBVIOUS
<1> DEFINE p == b \div a
           n == (b + 1) \div a
<1>3. ASSUME (b + 1) % a = 0 PROVE n = p + 1
  <2>1. a * n = a * p + (b % a) + 1
    BY <1>1, <1>2, <1>3
  <2>2. CASE n <= p
    <3>1. a * n <= a * p
      BY <1>1, <1>2, <2>2
    <3> QED
      BY <1>1, <1>2, <2>1, <3>1
  <2>3. CASE n >= p + 2
    <3>1. a * n >= a * (p + 2) /\ a * (p + 2) = a * p + 2 * a
      BY <1>1, <1>2, <2>3
    <3> QED
      BY <1>1, <1>2, <2>1, <3>1
  <2> QED
    BY <1>1, <1>2, <2>2, <2>3
<1>4. ASSUME (b + 1) % a # 0 PROVE n = p
  <2>1. a * n + ((b + 1) % a) = a * p + (b % a) + 1 /\ (b + 1) % a >= 1
    BY <1>1, <1>2, <1>4
  <2>2. CASE n + 1 <= p
    <3>1. a * (n + 1) <= a * p /\ a * (n + 1) = a * n + a
      BY <1>1, <1>2, <2>2
    <3> QED
      BY <1>1, <1>2, <2>1, <3>1
  <2>3. CASE n >= p + 1
    <3>1. a * n >= a * (p + 1) /\ a * (p + 1) = a * p + a
      BY <1>1, <1>2, <2>3
    <3> QED
      BY <1>1, <1>2, <2>1, <3>1
  <2> QED
    BY <1>1, <1>2, <2>2, <2>3
<1>5. 0 \div a = 0
  OBVIOUS
<1> QED
  BY <1>1, <1>3, <1>4, <1>5

LEMMA WholeUpdatesGrow ==
  ASSUME NEW a \in Nat \ {0}, NEW b \in Nat, NEW c \in Nat, b <= c
  PROVE  b \div a <= c \div a
<1> DEFINE p == b \div a
           q == c \div a
<1>1. /\ p \in Nat /\ q \in Nat /\ b % a \in 0 .. a - 1 /\ c % a \in 0 .. a - 1
      /\ b = a * p + (b % a) /\ c = a * q + (c % a)
  OBVIOUS
<1> SUFFICES ASSUME p >= q + 1 PROVE FALSE
  BY <1>1
<1>2. a * p >= a * (q + 1) /\ a * (q + 1) = a * q + a
  BY <1>1
<1> QED
  BY <1>1, <1>2

\* Where the steps of a rank that is in an epoch stand to all of them.
LEMMA StepsOfAnEpoch ==
  ASSUME batches \in Nat, NEW t \in Positions, t.epoch < Epochs, t.batch <= batches
  PROVE  /\ UpdatesPerEpoch \in Nat /\ AllUpdates \in Nat /\ UpdatesAt(t) \in Nat
         /\ UpdatesAt(t) <= AllUpdates
         /\ t.batch = batches => UpdatesAt(t) = (t.epoch + 1) * UpdatesPerEpoch
         /\ t.epoch + 1 = Epochs => (t.epoch + 1) * UpdatesPerEpoch = AllUpdates
<1> DEFINE u == UpdatesPerEpoch
           d == t.batch \div Accumulation
<1>1. u \in Nat /\ d \in Nat /\ d <= u /\ (t.batch = batches => d = u)
  <2>1. t.batch \in Nat /\ Accumulation \in Nat \ {0}
    BY DdpTrainerAssumption DEF Positions
  <2>2. d \in Nat /\ batches \div Accumulation \in Nat
    BY <2>1, WholeUpdates
  <2>3. d <= batches \div Accumulation
    BY <2>1, WholeUpdatesGrow
  <2> QED
    BY <2>2, <2>3 DEF UpdatesPerEpoch
<1>2. t.epoch \in Nat /\ Epochs \in Nat /\ t.epoch + 1 <= Epochs
  BY DdpTrainerAssumption DEF Positions
<1>3. UpdatesAt(t) = t.epoch * u + d /\ AllUpdates = Epochs * u
  BY DEF UpdatesAt, AllUpdates
<1> HIDE DEF u, d
<1>4. t.epoch * u \in Nat /\ Epochs * u \in Nat /\ (t.epoch + 1) * u = t.epoch * u + u
  BY <1>1, <1>2
<1>5. (t.epoch + 1) * u <= Epochs * u
  BY <1>1, <1>2
<1> QED
  BY <1>1, <1>2, <1>3, <1>4, <1>5 DEF u

\* A step of one rank, for all but the disk.
LEMMA RankKeepsTrainerInv ==
  ASSUME PositionInv, LockstepInv, GarbledInv, NEW r \in Trainers,
         UNCHANGED batches, trainer[r].at # "exited",
         trainer' \in [Trainers -> Positions], \A s \in Trainers \ {r} : trainer'[s] = trainer[s],
         Placed(r, trainer[r])',
         \/ trainer'[r].at \in {"cleanup", "exited"}
         \/ trainer[r].at # "cleanup" /\ Ahead(trainer[r])' = Ahead(trainer[r]),
         replica' \in [Trainers -> Models], \A s \in Trainers \ {r} : replica'[s] = replica[s],
         replica'[r].steps >= trainer'[r].step,
         replica'[r].garbled =>
            replica[r].garbled /\ (trainer[r].at = "init" => trainer'[r].at \in {"init", "exited"}),
         trainer'[r].at \in Saving => trainer[r].at \in Saving
  PROVE  PositionInv' /\ LockstepInv' /\ GarbledInv'
<1>1. ASSUME NEW s \in Trainers \ {r} PROVE Placed(s, trainer[s])' /\ Ahead(trainer[s])' = Ahead(trainer[s])
  <2>1. Placed(s, trainer[s])
    BY DEF PositionInv
  <2> QED
    BY <2>1 DEF Placed, Ahead, UpdatesAt, UpdatesPerEpoch, AllUpdates, AfterUpdate, AfterEma,
                AfterLog, AfterSave
<1>2. PositionInv'
  BY <1>1 DEF PositionInv
<1>3. SomeoneLeft => SomeoneLeft'
  BY DEF SomeoneLeft
<1>4. ASSUME ~SomeoneLeft', NEW s \in Trainers, trainer'[s].at # "cleanup"
      PROVE  trainer[s].at # "cleanup" /\ Ahead(trainer[s])' = Ahead(trainer[s])
  <2>1. CASE s = r
    BY <1>4, <2>1 DEF SomeoneLeft
  <2>2. CASE s # r
    BY <1>1, <1>4, <2>2
  <2> QED
    BY <2>1, <2>2
<1>5. LockstepInv'
  <2> SUFFICES ASSUME ~SomeoneLeft', NEW s \in Trainers, NEW q \in Trainers,
                      trainer'[s].at # "cleanup", trainer'[q].at # "cleanup"
               PROVE  Ahead(trainer[s])' = Ahead(trainer[q])'
    BY DEF LockstepInv
  <2> QED
    BY <1>3, <1>4 DEF LockstepInv
<1>6. GarbledInv'
  <2> SUFFICES ASSUME NEW s \in Trainers, replica'[s].garbled
               PROVE  /\ trainer'[s].at = "init" \/ SomeoneLeft'
                      /\ trainer'[s].at \notin Saving
    BY DEF GarbledInv
  <2>1. CASE s = r
    BY <1>3, <2>1 DEF GarbledInv, SomeoneLeft
  <2>2. CASE s # r
    BY <1>3, <2>2 DEF GarbledInv
  <2> QED
    BY <2>1, <2>2
<1> QED
  BY <1>2, <1>5, <1>6

\* The disk, when nothing is written to it.
LEMMA UntouchedDiskStaysSound ==
  ASSUME DiskInv, UNCHANGED <<batches, disk_files, parent>>,
         \A r \in Trainers : trainer'[r].at = "replace" => trainer'[r] = trainer[r]
  PROVE  DiskInv'
BY DEF DiskInv, SoundCheckpoint, AllUpdates, UpdatesPerEpoch, Target

\* A rank that raises or is lost.
LEMMA LeavingKeepsTrainerInv ==
  ASSUME TrainerInv, NEW r \in Trainers, NEW at \in {"cleanup", "exited"},
         trainer' = [trainer EXCEPT ![r] = [trainer[r] EXCEPT !.at = at]],
         trainer[r].at # "exited", UNCHANGED <<batches, replica, disk_files, parent>>,
         trainer[r].at = "init" => at = "exited"
  PROVE  TrainerInv'
<1>1. trainer[r] \in Positions /\ replica[r].steps >= trainer[r].step
  BY DEF TrainerInv, PositionInv
<1>2. /\ trainer'[r] \in Positions /\ trainer'[r].at = at /\ trainer'[r].step = trainer[r].step
      /\ trainer' \in [Trainers -> Positions] /\ \A s \in Trainers \ {r} : trainer'[s] = trainer[s]
  BY <1>1 DEF TrainerInv, PositionInv, Positions, TrainerPlaces, Meetings, Barriers
<1>3. Placed(r, trainer[r])' /\ trainer'[r].at \notin Saving
  BY <1>2 DEF Placed, Saving
<1>4. PositionInv' /\ LockstepInv' /\ GarbledInv'
  BY <1>1, <1>2, <1>3, RankKeepsTrainerInv DEF TrainerInv, PositionInv
<1>5. DiskInv'
  BY <1>2, UntouchedDiskStaysSound DEF TrainerInv
<1> QED
  BY <1>4, <1>5 DEF TrainerInv

LEMMA LeavingStepsKeepTrainerInv ==
  ASSUME TrainerInv, NEW r \in Trainers, NoModel(r) \/ TimeOut(r) \/ RankRaises(r) \/ RankIsLost(r)
  PROVE  TrainerInv'
<1>1. CASE NoModel(r)
  BY <1>1, LeavingKeepsTrainerInv DEF NoModel, Moves, Settings
<1>2. CASE TimeOut(r)
  BY <1>2, LeavingKeepsTrainerInv
     DEF TimeOut, Waits, Cleanup, Moves, Settings, Meetings, Barriers
<1>3. CASE RankRaises(r)
  BY <1>3, LeavingKeepsTrainerInv DEF RankRaises, Cleanup, Moves
<1>4. CASE RankIsLost(r)
  BY <1>4, LeavingKeepsTrainerInv DEF RankIsLost, Moves
<1> QED
  BY <1>1, <1>2, <1>3, <1>4

LEMMA LoadModelKeepsTrainerInv ==
  ASSUME TrainerInv, NEW r \in Trainers, LoadModel(r)
  PROVE  TrainerInv'
<1>1. trainer[r] \in Positions /\ replica[r] \in Models /\ Placed(r, trainer[r])
  BY DEF TrainerInv, PositionInv
<1>2. /\ trainer[r].at = "init" /\ trainer' = [trainer EXCEPT ![r] = [trainer[r] EXCEPT !.at = "construct"]]
      /\ UNCHANGED <<batches, disk_files, parent>>
  BY DEF LoadModel, Moves, Settings
<1>3. /\ trainer'[r] \in Positions /\ trainer'[r].at = "construct" /\ trainer'[r].step = 0
      /\ trainer' \in [Trainers -> Positions] /\ \A s \in Trainers \ {r} : trainer'[s] = trainer[s]
      /\ Placed(r, trainer[r])'
  BY <1>1, <1>2 DEF TrainerInv, PositionInv, Positions, TrainerPlaces, Meetings, Barriers, Placed, Saving
<1>4. PICK model \in Models : replica' = [replica EXCEPT ![r] = model] /\ ~model.garbled
  <2>1. CASE parent = NoParent
    <3>1. Untrained(r) \in Models /\ ~Untrained(r).garbled
      BY DEF Untrained, Models
    <3>2. replica' = [replica EXCEPT ![r] = Untrained(r)]
      BY <2>1 DEF LoadModel
    <3> QED
      BY <3>1, <3>2
  <2>2. CASE parent # NoParent
    <3>1. /\ replica' = [replica EXCEPT ![r] = disk_files[parent].model]
          /\ disk_files[parent] # Absent
      BY <2>2 DEF LoadModel
    <3>2. SoundCheckpoint(disk_files[parent], parent[2])
      BY <2>2, <3>1 DEF TrainerInv, DiskInv
    <3> QED
      BY <3>1, <3>2 DEF SoundCheckpoint
  <2> QED
    BY <2>1, <2>2
<1>5. /\ replica' \in [Trainers -> Models] /\ \A s \in Trainers \ {r} : replica'[s] = replica[s]
      /\ replica'[r].steps >= 0 /\ ~replica'[r].garbled
  BY <1>4 DEF TrainerInv, PositionInv, Models
<1>6. Ahead(trainer[r])' = Ahead(trainer[r]) /\ trainer'[r].at \notin Saving
  BY <1>2, <1>3 DEF Ahead, Saving
<1>7. PositionInv' /\ LockstepInv' /\ GarbledInv'
  BY <1>2, <1>3, <1>5, <1>6, RankKeepsTrainerInv DEF TrainerInv
<1>8. DiskInv'
  BY <1>2, <1>3, UntouchedDiskStaysSound DEF TrainerInv
<1> QED
  BY <1>7, <1>8 DEF TrainerInv

LEMMA TrainMicroBatchKeepsTrainerInv ==
  ASSUME TrainerInv, NEW r \in Trainers, TrainMicroBatch(r)
  PROVE  TrainerInv'
<1> DEFINE t == trainer[r]
           n == trainer'[r]
<1>1. t \in Positions /\ Placed(r, t) /\ batches \in Nat /\ Accumulation \in Nat \ {0}
  BY DdpTrainerAssumption DEF TrainerInv, PositionInv
<1>2. /\ t.at = "fetch" /\ t.batch < batches /\ UNCHANGED <<batches, replica, disk_files, parent>>
      /\ t.epoch < Epochs /\ t.step = UpdatesAt(t)
  BY <1>1 DEF TrainMicroBatch, Settings, Placed
<1>3. /\ n.at = IF (t.batch + 1) % Accumulation = 0 THEN "gradients" ELSE "fetch"
      /\ n.batch = t.batch + 1 /\ n.epoch = t.epoch /\ n.step = t.step
      /\ n \in Positions
      /\ trainer' \in [Trainers -> Positions] /\ \A s \in Trainers \ {r} : trainer'[s] = trainer[s]
  <2> DEFINE place == IF (t.batch + 1) % Accumulation = 0 THEN "gradients" ELSE "fetch"
             batch == t.batch + 1
             micro == t.micro + 1
             next == [t EXCEPT !.batch = batch, !.micro = micro, !.at = place]
  <2>1. trainer' = [trainer EXCEPT ![r] = next]
    BY <1>1 DEF TrainMicroBatch, Moves, IsUpdateStep, Positions
  <2>2. place \in TrainerPlaces /\ batch \in Nat /\ micro \in Nat
    BY <1>1 DEF TrainerPlaces, Meetings, Positions
  <2> HIDE DEF place, batch, micro
  <2>3. /\ next.at = place /\ next.batch = batch /\ next.epoch = t.epoch
        /\ next.step = t.step /\ next \in Positions
    BY <1>1, <2>2 DEF Positions
  <2> HIDE DEF next
  <2>4. n = next /\ trainer' \in [Trainers -> Positions]
        /\ \A s \in Trainers \ {r} : trainer'[s] = trainer[s]
    BY <2>1, <2>3 DEF TrainerInv, PositionInv
  <2> QED
    BY <2>3, <2>4 DEF place, batch
<1>4. t.batch \in Nat /\ n.batch \in Nat /\ t.epoch \in Nat /\ n.batch <= batches /\ t.step \in Nat
  BY <1>1, <1>2, <1>3 DEF Positions
<1>5. UpdatesAt(n) = UpdatesAt(t) + IF (t.batch + 1) % Accumulation = 0 THEN 1 ELSE 0
  <2>1. n.batch \div Accumulation =
          (t.batch \div Accumulation) + IF (t.batch + 1) % Accumulation = 0 THEN 1 ELSE 0
    <3> HIDE DEF t, n
    <3>1. (t.batch + 1) \div Accumulation =
            (t.batch \div Accumulation) + IF (t.batch + 1) % Accumulation = 0 THEN 1 ELSE 0
      BY <1>1, <1>4, WholeUpdates
    <3> QED
      BY <1>3, <3>1
  <2>2. t.batch \div Accumulation \in Nat
    <3> HIDE DEF t
    <3> QED
      BY <1>1, <1>4, WholeUpdates
  <2>3. UpdatesPerEpoch \in Nat
    <3>1. t.batch <= batches
      BY <1>1, <1>2, <1>4
    <3> QED
      BY <1>1, <1>2, <3>1, StepsOfAnEpoch
  <2>4. t.epoch * UpdatesPerEpoch \in Nat
    BY <1>4, <2>3
  <2> HIDE DEF t, n
  <2> QED
    BY <1>3, <2>1, <2>2, <2>4 DEF UpdatesAt
<1>6. UpdatesAt(t) \in Nat /\ UpdatesAt(n) <= AllUpdates /\ AllUpdates \in Nat
  BY <1>1, <1>2, <1>3, <1>4, StepsOfAnEpoch
<1>7. Placed(r, n) /\ Ahead(n) = Ahead(t) /\ n.at \in {"fetch", "gradients"}
  <2> HIDE DEF t, n
  <2> QED
    BY <1>2, <1>3, <1>4, <1>5, <1>6 DEF Placed, Ahead, AfterSave, Saving
<1>8. Placed(r, trainer[r])' /\ Ahead(trainer[r])' = Ahead(trainer[r])
  BY <1>2, <1>7 DEF Placed, Ahead, UpdatesAt, UpdatesPerEpoch, AllUpdates, AfterUpdate, AfterEma,
                    AfterLog, AfterSave
<1>9. PositionInv' /\ LockstepInv' /\ GarbledInv'
  BY <1>2, <1>3, <1>7, <1>8, RankKeepsTrainerInv DEF TrainerInv, PositionInv, Saving
<1>10. DiskInv'
  BY <1>2, <1>3, <1>7, UntouchedDiskStaysSound DEF TrainerInv
<1> QED
  BY <1>9, <1>10 DEF TrainerInv

LEMMA EndOfEpochKeepsTrainerInv ==
  ASSUME TrainerInv, NEW r \in Trainers, EndOfEpoch(r)
  PROVE  TrainerInv'
<1> DEFINE t == trainer[r]
           n == trainer'[r]
<1>1. t \in Positions /\ Placed(r, t) /\ batches \in Nat /\ Accumulation \in Nat \ {0} /\ Epochs \in Nat
  BY DdpTrainerAssumption DEF TrainerInv, PositionInv
<1>2. /\ t.at = "fetch" /\ t.batch = batches /\ UNCHANGED <<batches, replica, disk_files, parent>>
      /\ t.epoch < Epochs /\ t.step = UpdatesAt(t) /\ t.epoch \in Nat
  BY <1>1 DEF EndOfEpoch, Settings, Placed, Positions
<1>3. /\ n.at = IF t.epoch + 1 = Epochs THEN "final" ELSE "fetch"
      /\ n.batch = 0 /\ n.epoch = t.epoch + 1 /\ n.step = t.step
      /\ n \in Positions
      /\ trainer' \in [Trainers -> Positions] /\ \A s \in Trainers \ {r} : trainer'[s] = trainer[s]
  <2> DEFINE place == IF t.epoch + 1 = Epochs THEN "final" ELSE "fetch"
             epoch == t.epoch + 1
             next == [t EXCEPT !.epoch = epoch, !.batch = 0, !.at = place]
  <2>1. trainer' = [trainer EXCEPT ![r] = next]
    BY <1>1 DEF EndOfEpoch, Moves, Positions
  <2>2. place \in TrainerPlaces /\ epoch \in Nat
    BY <1>2 DEF TrainerPlaces, Meetings, Barriers
  <2> HIDE DEF place, epoch
  <2>3. /\ next.at = place /\ next.batch = 0 /\ next.epoch = epoch
        /\ next.step = t.step /\ next \in Positions
    BY <1>1, <2>2 DEF Positions
  <2> HIDE DEF next
  <2>4. n = next /\ trainer' \in [Trainers -> Positions]
        /\ \A s \in Trainers \ {r} : trainer'[s] = trainer[s]
    BY <2>1, <2>3 DEF TrainerInv, PositionInv
  <2> QED
    BY <2>3, <2>4 DEF place, epoch
<1>4. /\ UpdatesAt(t) \in Nat /\ UpdatesPerEpoch \in Nat /\ UpdatesAt(t) = (t.epoch + 1) * UpdatesPerEpoch
      /\ (t.epoch + 1 = Epochs => UpdatesAt(t) = AllUpdates)
  BY <1>1, <1>2, StepsOfAnEpoch
<1>5. UpdatesAt(n) = UpdatesAt(t)
  <2>1. 0 \div Accumulation = 0 /\ (t.epoch + 1) * UpdatesPerEpoch \in Nat
    BY <1>1, <1>2, <1>4, WholeUpdates
  <2> HIDE DEF t, n
  <2> QED
    BY <1>3, <1>4, <2>1 DEF UpdatesAt
<1>6. Placed(r, n) /\ Ahead(n) = Ahead(t) /\ n.at \in {"fetch", "final"}
  <2> HIDE DEF t, n
  <2>1. CASE t.epoch + 1 = Epochs
    <3>1. n.at = "final" /\ n.step = AllUpdates /\ n.epoch = Epochs /\ AllUpdates \in Nat
      BY <1>2, <1>3, <1>4, <2>1
    <3> QED
      BY <1>2, <1>3, <3>1 DEF Placed, Ahead, AfterSave, Saving
  <2>2. CASE t.epoch + 1 # Epochs
    <3>1. n.at = "fetch" /\ n.step = UpdatesAt(n) /\ n.epoch < Epochs /\ n.batch <= batches
      BY <1>1, <1>2, <1>3, <1>5, <2>2
    <3> QED
      BY <1>2, <1>3, <3>1 DEF Placed, Ahead, Saving
  <2> QED
    BY <2>1, <2>2
<1>7. Placed(r, trainer[r])' /\ Ahead(trainer[r])' = Ahead(trainer[r])
  BY <1>2, <1>6 DEF Placed, Ahead, UpdatesAt, UpdatesPerEpoch, AllUpdates, AfterUpdate, AfterEma,
                    AfterLog, AfterSave
<1>8. PositionInv' /\ LockstepInv' /\ GarbledInv'
  BY <1>2, <1>3, <1>6, <1>7, RankKeepsTrainerInv DEF TrainerInv, PositionInv, Saving
<1>9. DiskInv'
  BY <1>2, <1>3, <1>6, UntouchedDiskStaysSound DEF TrainerInv
<1> QED
  BY <1>8, <1>9 DEF TrainerInv

\* The place that LogOrGoOn names is the meeting ahead, or the way to it.
LEMMA PlaceAfterUpdate ==
  ASSUME NEW r \in Trainers, NEW step \in Nat, NEW place,
         \/ place = IF step % EmaInterval = 0 THEN "ema" ELSE LogOrGoOn(r, step)
         \/ place = LogOrGoOn(r, step)
         \/ place = SaveOrGoOn(r, step)
  PROVE  place \in {"ema", "log", "save", "fetch"} /\ place \in TrainerPlaces
BY DEF LogOrGoOn, SaveOrGoOn, TrainerPlaces, Meetings, Barriers

LEMMA OptimizerStepKeepsTrainerInv ==
  ASSUME TrainerInv, NEW r \in Trainers, OptimizerStep(r)
  PROVE  TrainerInv'
<1> DEFINE t == trainer[r]
           n == trainer'[r]
           step == t.step + 1
           place == IF step % EmaInterval = 0 THEN "ema" ELSE LogOrGoOn(r, step)
<1>1. t \in Positions /\ Placed(r, t) /\ replica[r] \in Models /\ replica[r].steps >= t.step
  BY DEF TrainerInv, PositionInv
<1>2. /\ t.at = "optimizer" /\ UNCHANGED <<batches, disk_files, parent>>
      /\ t.epoch < Epochs /\ t.batch <= batches /\ step = UpdatesAt(t) /\ step \in Nat /\ step > 0
  BY <1>1 DEF OptimizerStep, Settings, Placed, Positions
<1>3. place \in {"ema", "log", "save", "fetch"} /\ place \in TrainerPlaces
  BY <1>2, PlaceAfterUpdate
<1>4. /\ n.at = place /\ n.batch = t.batch /\ n.epoch = t.epoch /\ n.step = step
      /\ n \in Positions
      /\ trainer' \in [Trainers -> Positions] /\ \A s \in Trainers \ {r} : trainer'[s] = trainer[s]
  <2> DEFINE next == [t EXCEPT !.step = step, !.micro = 0, !.at = place]
  <2>1. trainer' = [trainer EXCEPT ![r] = next]
    BY <1>1 DEF OptimizerStep, Moves, Positions
  <2> HIDE DEF place, step
  <2>3. /\ next.at = place /\ next.batch = t.batch /\ next.epoch = t.epoch
        /\ next.step = step /\ next \in Positions
    BY <1>1, <1>2, <1>3 DEF Positions
  <2> HIDE DEF next
  <2> QED
    BY <2>1, <2>3 DEF TrainerInv, PositionInv
<1>5. /\ replica' \in [Trainers -> Models] /\ \A s \in Trainers \ {r} : replica'[s] = replica[s]
      /\ replica'[r].steps = replica[r].steps + 1 /\ replica'[r].garbled = replica[r].garbled
  <2> DEFINE steps == replica[r].steps + 1
             model == [replica[r] EXCEPT !.steps = steps]
  <2>1. replica' = [replica EXCEPT ![r] = model]
    BY <1>1 DEF OptimizerStep, Models
  <2>2. steps \in Nat
    BY <1>1 DEF Models
  <2> HIDE DEF steps
  <2>3. model \in Models /\ model.steps = steps /\ model.garbled = replica[r].garbled
    BY <1>1, <2>2 DEF Models
  <2> HIDE DEF model
  <2> QED
    BY <2>1, <2>3 DEF TrainerInv, PositionInv, steps
<1>6. UpdatesAt(n) = UpdatesAt(t)
  BY <1>4 DEF UpdatesAt
<1>7. Placed(r, n) /\ n.at \notin Saving
  <2> HIDE DEF t, n, place, step
  <2> QED
    BY <1>2, <1>3, <1>4, <1>6 DEF Placed, Saving
<1>8. Ahead(n) = Ahead(t)
  <2>1. Ahead(t) = AfterUpdate(step)
    BY <1>2 DEF Ahead, Saving
  <2> HIDE DEF t, n, step
  <2>2. Ahead(n) = AfterUpdate(step)
    BY <1>3, <1>4 DEF Ahead, AfterUpdate, AfterEma, AfterLog, LogOrGoOn, SaveOrGoOn, Saving
  <2> QED
    BY <2>1, <2>2
<1>9. Placed(r, trainer[r])' /\ Ahead(trainer[r])' = Ahead(trainer[r])
  BY <1>2, <1>7, <1>8 DEF Placed, Ahead, UpdatesAt, UpdatesPerEpoch, AllUpdates, AfterUpdate,
                          AfterEma, AfterLog, AfterSave
<1>10. replica'[r].steps >= trainer'[r].step
  BY <1>1, <1>2, <1>4, <1>5 DEF Positions, Models
<1>11. PositionInv' /\ LockstepInv' /\ GarbledInv'
  BY <1>2, <1>4, <1>5, <1>7, <1>9, <1>10, RankKeepsTrainerInv DEF TrainerInv
<1>12. DiskInv'
  BY <1>2, <1>4, <1>7, UntouchedDiskStaysSound DEF TrainerInv, Saving
<1> QED
  BY <1>11, <1>12 DEF TrainerInv

\* The paths of the disk, as save_checkpoint names them.
LEMMA TrainerPathsPair ==
  ASSUME NEW r \in Trainers
  PROVE  /\ Target(r) \in TrainerPaths <=> Temporary(Target(r)) \in TrainerPaths
         /\ Target(r)[1] = "final" /\ Temporary(Target(r))[1] # "final"
         /\ Target(r) # Temporary(Target(r))
         /\ \A p \in TrainerPaths : p[1] = "final" /\ p # Target(r) => p # Temporary(Target(r))
BY DEF TrainerPaths, Target, Temporary, Temporaries, Path

LEMMA TargetStays ==
  ASSUME NEW r \in Trainers, trainer'[r].epoch = trainer[r].epoch, trainer'[r].step = trainer[r].step
  PROVE  Target(r)' = Target(r)
BY DEF Target

\* Rank 0 goes on in save_checkpoint.
LEMMA SavingKeepsTrainerInv ==
  ASSUME TrainerInv, NEW r \in Trainers, NEW at \in {"writing", "replace", "saved", "cleanup"},
         trainer[r].at \in Saving,
         trainer' = [trainer EXCEPT ![r] = [trainer[r] EXCEPT !.at = at]],
         UNCHANGED <<batches, replica, parent>>,
         at = "saved" => trainer[r].epoch # Epochs
  PROVE  /\ PositionInv' /\ LockstepInv' /\ GarbledInv'
         /\ trainer'[r].at = at /\ trainer'[r].epoch = trainer[r].epoch
         /\ trainer'[r].step = trainer[r].step /\ Target(r)' = Target(r)
         /\ \A s \in Trainers : trainer'[s].at = "replace" => s = r
<1> DEFINE t == trainer[r]
           n == trainer'[r]
<1>1. t \in Positions /\ Placed(r, t) /\ replica[r].steps >= t.step
  BY DEF TrainerInv, PositionInv
<1>2. /\ n.at = at /\ n.epoch = t.epoch /\ n.step = t.step /\ n.batch = t.batch /\ n \in Positions
      /\ trainer' \in [Trainers -> Positions] /\ \A s \in Trainers \ {r} : trainer'[s] = trainer[s]
  BY <1>1 DEF TrainerInv, PositionInv, Positions, TrainerPlaces, Meetings, Barriers
<1>3. /\ r = Primary
      /\ \/ t.epoch = Epochs /\ t.step = AllUpdates
         \/ t.epoch < Epochs /\ t.batch <= batches /\ t.step = UpdatesAt(t) /\ t.step > 0
      /\ at = "saved" => t.epoch # Epochs
  BY <1>1 DEF Placed
<1>4. UpdatesAt(n) = UpdatesAt(t)
  BY <1>2 DEF UpdatesAt
<1>5. Placed(r, n)
  <2> HIDE DEF t, n
  <2> QED
    BY <1>2, <1>3, <1>4 DEF Placed, Saving
<1>6. at # "cleanup" => Ahead(n) = Ahead(t)
  <2> HIDE DEF t, n
  <2>1. t.at \in Saving => Ahead(t) = <<IF t.epoch = Epochs THEN "cleanup" ELSE "saved", t.step>>
    BY DEF Ahead, Saving
  <2>2. n.at \in Saving => Ahead(n) = <<IF n.epoch = Epochs THEN "cleanup" ELSE "saved", n.step>>
    BY DEF Ahead, Saving
  <2>3. n.at = "saved" => Ahead(n) = <<"saved", n.step>>
    BY DEF Ahead, Saving
  <2> QED
    BY <1>2, <2>1, <2>2, <2>3 DEF Saving, t
<1>7. Placed(r, trainer[r])' /\ (at # "cleanup" => Ahead(trainer[r])' = Ahead(trainer[r]))
  BY <1>5, <1>6 DEF Placed, Ahead, UpdatesAt, UpdatesPerEpoch, AllUpdates, AfterUpdate,
                    AfterEma, AfterLog, AfterSave
<1>8. PositionInv' /\ LockstepInv' /\ GarbledInv'
  BY <1>1, <1>2, <1>7, RankKeepsTrainerInv DEF TrainerInv, PositionInv, GarbledInv, Saving
<1>9. ASSUME NEW s \in Trainers, trainer'[s].at = "replace" PROVE s = r
  <2>1. trainer'[s].at \in Saving => s = Primary
    BY <1>8 DEF PositionInv, Placed
  <2> QED
    BY <1>3, <1>9, <2>1 DEF Saving
<1> QED
  BY <1>2, <1>8, <1>9, TargetStays

LEMMA WriteTemporaryKeepsTrainerInv ==
  ASSUME TrainerInv, NEW r \in Trainers, WriteTemporary(r)
  PROVE  TrainerInv'
<1>1. /\ trainer[r].at \in Saving /\ UNCHANGED <<batches, replica, parent>>
      /\ trainer' = [trainer EXCEPT ![r] = [trainer[r] EXCEPT !.at = "writing"]]
      /\ disk_files' = [disk_files EXCEPT ![Temporary(Target(r))] = Partial]
  BY DEF WriteTemporary, Moves, Settings, Saving
<1>2. /\ PositionInv' /\ LockstepInv' /\ GarbledInv' /\ trainer'[r].at = "writing"
      /\ \A s \in Trainers : trainer'[s].at = "replace" => s = r
  BY <1>1, SavingKeepsTrainerInv
<1>3. DiskInv'
  BY <1>1, <1>2, TrainerPathsPair DEF TrainerInv, DiskInv, SoundCheckpoint, AllUpdates, UpdatesPerEpoch
<1> QED
  BY <1>2, <1>3 DEF TrainerInv

LEMMA TemporaryWrittenKeepsTrainerInv ==
  ASSUME TrainerInv, NEW r \in Trainers, TemporaryWritten(r)
  PROVE  TrainerInv'
<1>1. /\ trainer[r].at \in Saving /\ UNCHANGED <<batches, replica, parent>>
      /\ trainer' = [trainer EXCEPT ![r] = [trainer[r] EXCEPT !.at = "replace"]]
      /\ disk_files' = [disk_files EXCEPT ![Temporary(Target(r))] = Payload(r)]
  BY DEF TemporaryWritten, Moves, Settings, Saving
<1>2. /\ PositionInv' /\ LockstepInv' /\ GarbledInv' /\ Target(r)' = Target(r)
      /\ \A s \in Trainers : trainer'[s].at = "replace" => s = r
  BY <1>1, SavingKeepsTrainerInv
<1>3. SoundCheckpoint(Payload(r), Target(r)[2])
  <2> DEFINE t == trainer[r]
  <2>1. t \in Positions /\ Placed(r, t) /\ replica[r] \in Models /\ replica[r].steps >= t.step
    BY DEF TrainerInv, PositionInv
  <2>2. ~replica[r].garbled
    BY <1>1 DEF TrainerInv, GarbledInv
  <2>3. t.step = IF Target(r)[2] = LastPt THEN AllUpdates ELSE Target(r)[2]
    BY <1>1, <2>1 DEF Placed, Target, Path, LastPt, Positions
  <2> QED
    BY <2>1, <2>2, <2>3 DEF SoundCheckpoint, Payload
<1>4. DiskInv'
  <2>1. \A file, n : SoundCheckpoint(file, n)' <=> SoundCheckpoint(file, n)
    BY <1>1 DEF SoundCheckpoint, AllUpdates, UpdatesPerEpoch
  <2>2. DOMAIN disk_files' = TrainerPaths /\ \A p \in TrainerPaths : p[1] = "final" => disk_files'[p] = disk_files[p]
    BY <1>1, TrainerPathsPair DEF TrainerInv, DiskInv
  <2>3. Target(r) \in TrainerPaths => disk_files'[Temporary(Target(r))] = Payload(r)
    BY <1>1, TrainerPathsPair DEF TrainerInv, DiskInv
  <2> QED
    BY <1>1, <1>2, <1>3, <2>1, <2>2, <2>3 DEF TrainerInv, DiskInv
<1> QED
  BY <1>2, <1>4 DEF TrainerInv

LEMMA ReplaceCheckpointKeepsTrainerInv ==
  ASSUME TrainerInv, NEW r \in Trainers, ReplaceCheckpoint(r)
  PROVE  TrainerInv'
<1> DEFINE at == IF trainer[r].epoch = Epochs THEN "cleanup" ELSE "saved"
<1>1. /\ trainer[r].at = "replace" /\ UNCHANGED <<batches, replica, parent>>
      /\ trainer' = [trainer EXCEPT ![r] = [trainer[r] EXCEPT !.at = at]]
      /\ disk_files' = [disk_files EXCEPT ![Target(r)] = disk_files[Temporary(Target(r))],
                                          ![Temporary(Target(r))] = Absent]
  BY DEF ReplaceCheckpoint, Moves, Settings
<1>2. /\ PositionInv' /\ LockstepInv' /\ GarbledInv' /\ trainer'[r].at = at
      /\ \A s \in Trainers : trainer'[s].at = "replace" => s = r
  BY <1>1, SavingKeepsTrainerInv DEF Saving
<1>3. DOMAIN disk_files' = TrainerPaths
  BY <1>1 DEF TrainerInv, DiskInv
<1>4. ASSUME NEW p \in TrainerPaths, p[1] = "final"
      PROVE  disk_files'[p] = Absent \/ SoundCheckpoint(disk_files'[p], p[2])
  <2>1. CASE p = Target(r)
    <3>1. disk_files'[p] = disk_files[Temporary(Target(r))]
      BY <1>1, <1>4, <2>1, TrainerPathsPair DEF TrainerInv, DiskInv
    <3> QED
      BY <1>1, <1>4, <2>1, <3>1 DEF TrainerInv, DiskInv
  <2>2. CASE p # Target(r)
    <3>1. disk_files'[p] = disk_files[p]
      BY <1>1, <1>4, <2>2, TrainerPathsPair DEF TrainerInv, DiskInv
    <3> QED
      BY <1>4, <3>1 DEF TrainerInv, DiskInv
  <2> QED
    BY <2>1, <2>2
<1>5. \A file, n : SoundCheckpoint(file, n)' <=> SoundCheckpoint(file, n)
  BY <1>1 DEF SoundCheckpoint, AllUpdates, UpdatesPerEpoch
<1>6. DiskInv'
  BY <1>1, <1>2, <1>3, <1>4, <1>5 DEF TrainerInv, DiskInv
<1> QED
  BY <1>2, <1>6 DEF TrainerInv

-----------------------------------------------------------------------------

\* Where a rank goes on from a meeting.
LEMMA BeyondIsPlaced ==
  ASSUME PositionInv, NEW r \in Trainers, Waits(r), NEW n,
         n = [trainer[r] EXCEPT !.at = Beyond(r)]
  PROVE  /\ n \in Positions /\ Placed(r, n)
         /\ n.step = trainer[r].step /\ n.epoch = trainer[r].epoch /\ n.batch = trainer[r].batch
         /\ n.at = Beyond(r) /\ n.at \notin {"init", "replace", "writing"}
         /\ trainer[r].at = "cleanup" <=> n.at = "exited"
         /\ n.at = "write" => r = Primary /\ trainer[r].at \in {"save", "final"}
<1> DEFINE t == trainer[r]
<1>1. t \in Positions /\ Placed(r, t) /\ t.at \in Meetings
  BY DEF PositionInv, Waits
<1>2. Beyond(r) \in TrainerPlaces
  BY <1>1 DEF Beyond, Meetings, Barriers, TrainerPlaces, LogOrGoOn, SaveOrGoOn
<1>3. /\ n.at = Beyond(r) /\ n.step = t.step /\ n.epoch = t.epoch /\ n.batch = t.batch
      /\ n \in Positions
  BY <1>1, <1>2 DEF Positions
<1>4. UpdatesAt(n) = UpdatesAt(t)
  BY <1>3 DEF UpdatesAt
<1>5. ASSUME t.at = "construct" PROVE UpdatesAt(t) = 0 /\ batches \in Nat /\ 0 < Epochs /\ n.batch <= batches
  <2>1. t.epoch = 0 /\ t.batch = 0 /\ 0 \div Accumulation = 0 /\ UpdatesPerEpoch \in Nat
    BY <1>1, <1>5, WholeUpdates, DdpTrainerAssumption DEF Placed, UpdatesPerEpoch, PositionInv
  <2> QED
    BY <1>3, <2>1, DdpTrainerAssumption DEF UpdatesAt, PositionInv
<1>6. Placed(r, n)
  <2> HIDE DEF t
  <2>1. Beyond(r) = CASE t.at = "construct" -> "fetch"
                      [] t.at = "gradients" -> "optimizer"
                      [] t.at = "ema" -> LogOrGoOn(r, t.step)
                      [] t.at = "log" -> SaveOrGoOn(r, t.step)
                      [] t.at = "save" -> IF r = Primary THEN "write" ELSE "saved"
                      [] t.at = "saved" -> "fetch"
                      [] t.at = "final" -> IF r = Primary THEN "write" ELSE "cleanup"
                      [] t.at = "cleanup" -> "exited"
    BY DEF Beyond, t
  <2>2. CASE t.at = "construct"
    BY <1>1, <1>3, <1>4, <1>5, <2>1, <2>2 DEF Placed, Saving
  <2>3. CASE t.at = "gradients"
    BY <1>1, <1>3, <1>4, <2>1, <2>3 DEF Placed, Saving
  <2>4. CASE t.at \in {"ema", "log"}
    BY <1>1, <1>3, <1>4, <2>1, <2>4 DEF Placed, Saving, LogOrGoOn, SaveOrGoOn
  <2>5. CASE t.at \in {"save", "saved"}
    BY <1>1, <1>3, <1>4, <2>1, <2>5 DEF Placed, Saving
  <2>6. CASE t.at \in {"final", "cleanup"}
    BY <1>1, <1>3, <1>4, <2>1, <2>6 DEF Placed, Saving
  <2> QED
    BY <1>1, <2>2, <2>3, <2>4, <2>5, <2>6 DEF Meetings, Barriers
<1>7. /\ n.at \notin {"init", "replace", "writing"}
      /\ t.at = "cleanup" <=> n.at = "exited"
      /\ n.at = "write" => r = Primary /\ t.at \in {"save", "final"}
  <2>1. CASE t.at \in {"construct", "gradients", "save", "saved", "final", "cleanup"}
    BY <1>3, <2>1 DEF Beyond
  <2>2. CASE t.at \in {"ema", "log"}
    <3>1. Beyond(r) \in {"log", "save", "fetch"}
      BY <2>2 DEF Beyond, LogOrGoOn, SaveOrGoOn
    <3> QED
      BY <1>3, <2>2, <3>1
  <2> QED
    BY <1>1, <2>1, <2>2 DEF Meetings, Barriers
<1> QED
  BY <1>3, <1>6, <1>7

\* Two ranks that wait, and have the same meeting ahead, are at it.
LEMMA WaitersMeet ==
  ASSUME PositionInv, LockstepInv, ~SomeoneLeft, NEW r \in Trainers, NEW q \in Trainers,
         Waits(r), Waits(q), trainer[r].at # "cleanup", trainer[q].at # "cleanup"
  PROVE  trainer[r].at = trainer[q].at /\ trainer[r].step = trainer[q].step
<1>1. Ahead(trainer[r]) = Ahead(trainer[q])
  BY DEF LockstepInv
<1>2. ASSUME NEW s \in Trainers, Waits(s) PROVE Ahead(trainer[s]) = <<trainer[s].at, trainer[s].step>>
  <2>1. trainer[s].at = "construct" => trainer[s].step = 0
    BY DEF PositionInv, Placed
  <2> QED
    BY <1>2, <2>1 DEF Ahead, Waits, Meetings, Barriers, Saving
<1> QED
  BY <1>1, <1>2

\* All go on from their meetings together.
LEMMA GoingOnKeepsLockstep ==
  ASSUME PositionInv, LockstepInv, \A r \in Trainers : Waits(r), AllGoOn, UNCHANGED batches
  PROVE  /\ trainer' \in [Trainers -> Positions] /\ \A r \in Trainers : Placed(r, trainer[r])'
         /\ \A r \in Trainers :
              /\ trainer'[r].step = trainer[r].step
              /\ trainer'[r].at \notin {"init", "replace", "writing"}
              /\ trainer[r].at = "cleanup" <=> trainer'[r].at = "exited"
              /\ trainer'[r].at = "write" => r = Primary /\ trainer[r].at \in {"save", "final"}
         /\ LockstepInv' /\ ~SomeoneLeft
<1>1. ASSUME NEW r \in Trainers
      PROVE  /\ trainer'[r] = [trainer[r] EXCEPT !.at = Beyond(r)]
             /\ trainer'[r] \in Positions /\ Placed(r, trainer'[r])
             /\ trainer'[r].step = trainer[r].step /\ trainer'[r].epoch = trainer[r].epoch
             /\ trainer'[r].at = Beyond(r) /\ trainer'[r].at \notin {"init", "replace", "writing"}
             /\ trainer[r].at = "cleanup" <=> trainer'[r].at = "exited"
             /\ trainer'[r].at = "write" => r = Primary /\ trainer[r].at \in {"save", "final"}
  <2>1. trainer'[r] = [trainer[r] EXCEPT !.at = Beyond(r)]
    BY DEF AllGoOn
  <2> QED
    BY <2>1, BeyondIsPlaced
<1>2. trainer' \in [Trainers -> Positions]
  BY <1>1 DEF AllGoOn
<1>3. ASSUME NEW r \in Trainers PROVE Placed(r, trainer[r])' /\ Ahead(trainer[r])' = Ahead(trainer'[r])
  BY <1>1 DEF Placed, Ahead, UpdatesAt, UpdatesPerEpoch, AllUpdates, AfterUpdate,
              AfterEma, AfterLog, AfterSave
<1>4. ~SomeoneLeft
  BY DEF SomeoneLeft, Waits, Meetings, Barriers
<1>5. LockstepInv'
  <2> SUFFICES ASSUME ~SomeoneLeft', NEW r \in Trainers, NEW q \in Trainers,
                      trainer'[r].at # "cleanup", trainer'[q].at # "cleanup"
               PROVE  Ahead(trainer'[r]) = Ahead(trainer'[q])
    BY <1>3 DEF LockstepInv
  <2>1. trainer[r].at # "cleanup" /\ trainer[q].at # "cleanup"
    BY <1>1 DEF SomeoneLeft
  <2>2. trainer[r].at = trainer[q].at /\ trainer[r].step = trainer[q].step
    BY <1>4, <2>1, WaitersMeet
  <2> DEFINE from == trainer[r].at
             step == trainer[r].step
             there(s) == trainer'[s]
  <2>3. ASSUME NEW s \in {r, q}
        PROVE  Ahead(there(s)) = CASE from = "construct" -> AfterSave(step)
                                   [] from = "gradients" -> AfterUpdate(step + 1)
                                   [] from = "ema" -> AfterEma(step)
                                   [] from = "log" -> AfterLog(step)
                                   [] from = "save" -> <<"saved", step>>
                                   [] from = "saved" -> AfterSave(step)
                                   [] from = "final" -> <<"cleanup", step>>
    <3>1. /\ trainer[s].at = from /\ there(s).step = step /\ from \in Meetings \ {"cleanup"}
          /\ there(s).at = Beyond(s) /\ there(s).at # "cleanup" /\ there(s).epoch = trainer[s].epoch
      BY <1>1, <2>1, <2>2 DEF Waits
    <3>2. /\ trainer[s].at = "save" => trainer[s].epoch # Epochs
          /\ trainer[s].at = "final" => trainer[s].epoch = Epochs
      BY DdpTrainerAssumption DEF PositionInv, Placed, Positions
    <3>3. Beyond(s) = CASE from = "construct" -> "fetch"
                        [] from = "gradients" -> "optimizer"
                        [] from = "ema" -> LogOrGoOn(s, step)
                        [] from = "log" -> SaveOrGoOn(s, step)
                        [] from = "save" -> IF s = Primary THEN "write" ELSE "saved"
                        [] from = "saved" -> "fetch"
                        [] from = "final" -> IF s = Primary THEN "write" ELSE "cleanup"
      BY <2>2, <3>1 DEF Beyond
    <3> HIDE DEF from, step, there
    <3> QED
      BY <3>1, <3>2, <3>3 DEF Ahead, AfterEma, AfterLog, LogOrGoOn, SaveOrGoOn, Saving, Meetings, Barriers
  <2> QED
    BY <2>3
<1> QED
  BY <1>1, <1>2, <1>3, <1>4, <1>5

LEMMA CollectivesKeepTrainerInv ==
  ASSUME TrainerInv, Collective \/ MismatchedCollective
  PROVE  TrainerInv'
<1>1. /\ \A r \in Trainers : Waits(r)
      /\ AllGoOn /\ UNCHANGED <<batches, disk_files, parent>>
  BY DEF Collective, MismatchedCollective, Settings
<1>2. /\ trainer' \in [Trainers -> Positions] /\ \A r \in Trainers : Placed(r, trainer[r])'
      /\ LockstepInv' /\ ~SomeoneLeft
  BY <1>1, GoingOnKeepsLockstep DEF TrainerInv
<1>3. ASSUME NEW r \in Trainers
      PROVE  /\ trainer'[r].step = trainer[r].step
             /\ trainer'[r].at \notin {"init", "replace", "writing"}
             /\ trainer[r].at = "cleanup" <=> trainer'[r].at = "exited"
             /\ trainer'[r].at = "write" => r = Primary /\ trainer[r].at \in {"save", "final"}
  BY <1>1, GoingOnKeepsLockstep DEF TrainerInv
<1>4. ASSUME NEW r \in Trainers
      PROVE  /\ ~replica[r].garbled /\ replica[r] \in Models /\ replica[r].steps \in Nat
             /\ replica[r].steps >= trainer[r].step
             /\ trainer[r].at = "construct" => trainer[r].step = 0
  <2>1. trainer[r].at # "init"
    BY <1>1 DEF Waits, Meetings, Barriers
  <2> QED
    BY <1>2, <2>1 DEF TrainerInv, GarbledInv, PositionInv, Models, Placed
<1>5. DiskInv'
  BY <1>1, <1>3, UntouchedDiskStaysSound DEF TrainerInv
<1>6. CASE Collective
  <2>1. CASE trainer[Primary].at = "construct"
    <3>1. \A r \in Trainers : trainer[r].at = "construct"
      BY <2>1, <1>6, DdpTrainerAssumption DEF Collective, Agree, Kind, Primary, Barriers
    <3>2. Primary \in Trainers /\ replica' = [r \in Trainers |-> replica[Primary]]
      BY <1>6, <2>1, DdpTrainerAssumption DEF Collective, Primary
    <3>3. replica' \in [Trainers -> Models] /\ \A r \in Trainers : ~replica'[r].garbled
      BY <1>4, <3>2
    <3>4. \A r \in Trainers : replica'[r].steps >= trainer'[r].step
      BY <1>3, <1>4, <3>1, <3>2
    <3> QED
      BY <1>1, <1>2, <1>5, <3>3, <3>4 DEF TrainerInv, PositionInv, GarbledInv
  <2>2. CASE trainer[Primary].at # "construct"
    <3>1. replica' = replica
      BY <1>6, <2>2 DEF Collective
    <3> QED
      BY <1>1, <1>2, <1>3, <1>4, <1>5, <3>1 DEF TrainerInv, PositionInv, GarbledInv
  <2> QED
    BY <2>1, <2>2
<1>7. CASE MismatchedCollective
  <2>1. SomeoneLeft'
    <3>1. PICK r \in Trainers, q \in Trainers : Kind(trainer[r].at) # Kind(trainer[q].at)
      BY <1>7 DEF MismatchedCollective, Agree
    <3>2. trainer[r].at = "cleanup" \/ trainer[q].at = "cleanup"
      BY <1>1, <1>2, <3>1, WaitersMeet DEF TrainerInv
    <3> QED
      BY <1>3, <3>2 DEF SomeoneLeft
  <2>2. ASSUME NEW r \in Trainers
        PROVE  /\ replica'[r] \in Models /\ replica'[r].steps = replica[r].steps
               /\ replica'[r].garbled => TakesData(r)
    <3> DEFINE garbled == replica[r].garbled \/ TakesData(r)
    <3>1. replica'[r] = [replica[r] EXCEPT !.garbled = garbled]
      BY <1>7 DEF MismatchedCollective
    <3>2. garbled \in BOOLEAN /\ (garbled => TakesData(r))
      BY <1>4 DEF TakesData
    <3> HIDE DEF garbled
    <3> QED
      BY <1>4, <3>1, <3>2 DEF Models
  <2>3. replica' \in [Trainers -> Models]
    BY <1>7, <2>2 DEF MismatchedCollective
  <2>4. \A r \in Trainers : replica'[r].steps >= trainer'[r].step
    BY <1>3, <1>4, <2>2
  <2>5. GarbledInv'
    BY <1>3, <2>1, <2>2 DEF GarbledInv, TakesData, Saving
  <2> QED
    BY <1>1, <1>2, <1>5, <2>3, <2>4, <2>5 DEF TrainerInv, PositionInv
<1> QED
  BY <1>6, <1>7

LEMMA RelaunchKeepsTrainerInv ==
  ASSUME TrainerInv, NEW p \in {NoParent} \cup ({Path(LastPt), Path(1)} \cap TrainerPaths), Relaunch(p)
  PROVE  TrainerInv'
<1>1. /\ trainer' = [r \in Trainers |-> Started] /\ parent' = p
      /\ UNCHANGED <<replica, disk_files, batches>>
  BY DEF Relaunch
<1>2. Started \in Positions /\ Started.at = "init" /\ Started.step = 0
  BY DEF Started, Positions, TrainerPlaces
<1>3. \A r \in Trainers : trainer'[r] = Started
  BY <1>1
<1>4. \A r \in Trainers : Placed(r, trainer[r])'
  BY <1>3 DEF Placed, Started, Saving
<1>5. PositionInv'
  BY <1>1, <1>2, <1>3, <1>4 DEF TrainerInv, PositionInv, Models
<1>6. LockstepInv'
  BY <1>3 DEF LockstepInv, Ahead
<1>7. GarbledInv'
  BY <1>2, <1>3 DEF GarbledInv, Saving
<1>8. p = NoParent \/ (p \in TrainerPaths /\ p[1] = "final")
  BY DEF Path
<1>9. DiskInv'
  BY <1>1, <1>2, <1>3, <1>8 DEF TrainerInv, DiskInv, SoundCheckpoint, AllUpdates, UpdatesPerEpoch
<1> QED
  BY <1>5, <1>6, <1>7, <1>9 DEF TrainerInv

\* Whatever raises, dies or is written half: a file under a final name is a whole
\* checkpoint of the step its name says, and no reduction that a leaving rank's
\* barrier met went into it.
THEOREM CheckpointCorrect == TrainerSpec => []CheckpointIsSound
<1>1. TrainerInit => TrainerInv
  <2> SUFFICES ASSUME TrainerInit PROVE TrainerInv
    OBVIOUS
  <2>1. Started \in Positions /\ Started.at = "init" /\ Started.step = 0
    BY DEF Started, Positions, TrainerPlaces
  <2>2. \A r \in Trainers : Untrained(r) \in Models /\ ~Untrained(r).garbled /\ Untrained(r).steps = 0
    BY DEF Untrained, Models
  <2>3. \A r \in Trainers : trainer[r] = Started /\ replica[r] = Untrained(r)
    BY DEF TrainerInit
  <2>4. \A r \in Trainers : Placed(r, trainer[r])
    BY <2>3 DEF Placed, Started, Saving
  <2>5. PositionInv
    BY <2>1, <2>2, <2>3, <2>4, DdpTrainerAssumption DEF TrainerInit, PositionInv
  <2>6. LockstepInv /\ GarbledInv
    BY <2>2, <2>3 DEF LockstepInv, GarbledInv
  <2>7. DiskInv
    BY <2>1, <2>3 DEF TrainerInit, DiskInv
  <2> QED
    BY <2>5, <2>6, <2>7 DEF TrainerInv
<1>2. TrainerInv /\ [TrainerNext]_trainerVars => TrainerInv'
  <2>1. ASSUME TrainerInv, UNCHANGED trainerVars PROVE TrainerInv'
    <3>1. UNCHANGED <<trainer, replica, batches, disk_files, parent>>
      BY <2>1 DEF trainerVars
    <3>2. PositionInv'
      BY <2>1, <3>1 DEF TrainerInv, PositionInv, Placed, UpdatesAt, UpdatesPerEpoch, AllUpdates
    <3>3. LockstepInv'
      <4>1. \A r \in Trainers : Ahead(trainer[r])' = Ahead(trainer[r])
        BY <3>1 DEF Ahead, UpdatesPerEpoch, AllUpdates, AfterUpdate, AfterEma, AfterLog, AfterSave
      <4> QED
        BY <2>1, <3>1, <4>1 DEF TrainerInv, LockstepInv, SomeoneLeft
    <3>4. GarbledInv' /\ DiskInv'
      BY <2>1, <3>1, UntouchedDiskStaysSound DEF TrainerInv, GarbledInv, SomeoneLeft
    <3> QED
      BY <3>2, <3>3, <3>4 DEF TrainerInv
  <2> QED
    BY <2>1, LeavingStepsKeepTrainerInv, LoadModelKeepsTrainerInv, TrainMicroBatchKeepsTrainerInv,
       EndOfEpochKeepsTrainerInv, OptimizerStepKeepsTrainerInv, WriteTemporaryKeepsTrainerInv,
       TemporaryWrittenKeepsTrainerInv, ReplaceCheckpointKeepsTrainerInv, CollectivesKeepTrainerInv,
       RelaunchKeepsTrainerInv DEF TrainerNext
<1>3. TrainerInv => CheckpointIsSound
  <2> SUFFICES ASSUME TrainerInv, NEW p \in TrainerPaths, disk_files[Path(p[2])] # Absent
               PROVE  /\ disk_files[Path(p[2])] # Partial
                      /\ ~disk_files[Path(p[2])].model.garbled
                      /\ disk_files[Path(p[2])].global_step =
                           IF p[2] = LastPt THEN Epochs * (batches \div Accumulation) ELSE p[2]
                      /\ disk_files[Path(p[2])].model.steps >= disk_files[Path(p[2])].global_step
    BY DEF CheckpointIsSound
  <2>1. Path(p[2]) \in TrainerPaths /\ Path(p[2])[1] = "final" /\ Path(p[2])[2] = p[2]
    BY DEF Path, TrainerPaths
  <2>2. SoundCheckpoint(disk_files[Path(p[2])], p[2])
    BY <2>1 DEF TrainerInv, DiskInv
  <2> QED
    BY <2>2 DEF SoundCheckpoint, AllUpdates, UpdatesPerEpoch, Partial
<1> QED
  BY <1>1, <1>2, <1>3, PTL DEF TrainerSpec

-----------------------------------------------------------------------------
(***************************************************************************)
(* The dataset release.                                                    *)
(***************************************************************************)

\* The commits of the jobs that a rank owns below a bound.
Lists(commits, r, bound) ==
  /\ \A c \in commits :
       /\ c.job \in JobIds /\ Owner(c.job) = r /\ c.job < bound
       /\ c.split = JobManifest[c.job].split
  /\ \A j \in JobIds : Owner(j) = r /\ j < bound => \E c \in commits : c.job = j

AtJob(t) == t.at \in {"arrays", "describe", "metadata", "commit"}
Generating(t) == t.at \in {"write", "report"} \/ AtJob(t)

\* A rank has committed what it owns before the job it is at, which is all of it
\* when it writes its report, and writes the manifest that it merged.
RankIsSound(r, t) ==
  /\ Generating(t) =>
       /\ t.job \in Nat \ {0} /\ Owner(t.job) = r /\ Lists(t.commits, r, t.job)
       /\ AtJob(t) => t.job \in JobIds
       /\ t.at = "report" => t.job \notin JobIds
  /\ t.at = "dataset" => LosesOnlyUnfinished(t.manifest)

GeneratorInv == \A r \in Ranks : RankIsSound(r, generator[r])

\* A report is of what its rank owns up to some job, and of all of it when it is
\* whole, also if a later launch has begun to generate.
ReportIsSound(r, report) ==
  \E bound \in Nat :
    /\ Lists(report.commits, r, bound)
    /\ report.ends = "whole" => bound > Len(JobManifest)

ReportsInv == \A r \in Ranks : reports[r] # Missing => ReportIsSound(r, reports[r])

RankFields == {"at", "job", "commits", "manifest"}

ReleaseInv ==
  /\ DOMAIN generator = Ranks /\ DOMAIN reports = Ranks
  /\ \A r \in Ranks : DOMAIN generator[r] = RankFields
  /\ GeneratorInv /\ ReportsInv /\ OnlyUnfinishedReportsLoseJobs

\* The next job that a rank owns, and no other between.
LEMMA NextJob ==
  ASSUME NEW n \in Nat \ {0}, NEW j \in Nat \ {0}, NEW k \in Nat \ {0},
         (j - 1) % n = (k - 1) % n
  PROVE  /\ (k + n - 1) % n = (k - 1) % n
         /\ j < k + n => j < k \/ j = k
<1> DEFINE a == j - 1
           b == k - 1
           p == a \div n
           q == b \div n
<1>1. /\ a \in Nat /\ b \in Nat /\ p \in Nat /\ q \in Nat /\ a % n \in 0 .. n - 1
      /\ a = n * p + (a % n) /\ b = n * q + (b % n)
  OBVIOUS
<1>2. ASSUME j < k + n, k < j PROVE FALSE
  <2>1. p > q
    <3> SUFFICES ASSUME p <= q PROVE FALSE
      BY <1>1
    <3>1. n * p <= n * q
      BY <1>1
    <3> QED
      BY <1>1, <1>2, <3>1
  <2>2. n * p >= n * (q + 1) /\ n * (q + 1) = n * q + n
    BY <1>1, <2>1
  <2> QED
    BY <1>1, <1>2, <2>2
<1>3. (b + n) % n = b % n
  <2> DEFINE s == (b + n) \div n
             m == (b + n) % n
  <2>1. s \in Nat /\ m \in 0 .. n - 1 /\ b + n = n * s + m
    BY <1>1
  <2>2. CASE s <= q
    <3>1. n * s <= n * q
      BY <1>1, <2>1, <2>2
    <3> QED
      BY <1>1, <2>1, <3>1
  <2>3. CASE s >= q + 2
    <3>1. n * s >= n * (q + 2) /\ n * (q + 2) = n * q + 2 * n
      BY <1>1, <2>1, <2>3
    <3> QED
      BY <1>1, <2>1, <3>1
  <2>4. CASE s = q + 1
    <3>1. n * s = n * q + n
      BY <1>1, <2>4
    <3> QED
      BY <1>1, <2>1, <3>1
  <2> QED
    BY <1>1, <2>1, <2>2, <2>3, <2>4
<1>4. k + n - 1 = b + n
  OBVIOUS
<1> QED
  BY <1>2, <1>3, <1>4

LEMMA WorldSizePositive ==
  /\ Cardinality(Ranks) \in Nat \ {0}
  /\ \A r \in Ranks : r \in 0 .. Cardinality(Ranks) - 1
BY DatasetReleaseAssumption, FS_CardinalityType, FS_EmptySet

LEMMA JobBounds ==
  /\ Len(JobManifest) \in Nat
  /\ \A j \in Nat \ {0} : j \in JobIds <=> j <= Len(JobManifest)
  /\ \A j \in JobIds : j \in Nat \ {0} /\ j <= Len(JobManifest) /\ Owner(j) \in Ranks
<1>1. Len(JobManifest) \in Nat /\ JobIds = 1 .. Len(JobManifest)
  BY JobManifestAssumption
<1>2. ASSUME NEW j \in JobIds PROVE j \in Nat \ {0} /\ j <= Len(JobManifest) /\ Owner(j) \in Ranks
  <2>1. j \in Nat \ {0} /\ j <= Len(JobManifest)
    BY <1>1
  <2>2. Owner(j) \in 0 .. Cardinality(Ranks) - 1
    BY <2>1, WorldSizePositive DEF Owner
  <2> QED
    BY <2>1, <2>2, DatasetReleaseAssumption
<1> QED
  BY <1>1, <1>2

\* A step of one rank that writes no report and no dataset commit.
LEMMA RankKeepsReleaseInv ==
  ASSUME ReleaseInv, NEW r \in Ranks, NEW t, Move(r, t), UNCHANGED reports,
         DOMAIN t = RankFields, RankIsSound(r, t),
         OnlyUnfinishedReportsLoseJobs'
  PROVE  ReleaseInv'
<1>1. DOMAIN generator' = Ranks /\ generator'[r] = t /\ \A s \in Ranks \ {r} : generator'[s] = generator[s]
  BY DEF ReleaseInv, Move
<1>2. \A s \in Ranks : DOMAIN generator'[s] = RankFields
  BY <1>1 DEF ReleaseInv
<1>3. GeneratorInv'
  BY <1>1 DEF ReleaseInv, GeneratorInv
<1>4. ReportsInv'
  BY DEF ReleaseInv, ReportsInv
<1> QED
  BY <1>1, <1>2, <1>3, <1>4 DEF ReleaseInv

LEMMA SameDatasetLosesTheSame ==
  ASSUME ReleaseInv, UNCHANGED dataset
  PROVE  OnlyUnfinishedReportsLoseJobs'
BY DEF ReleaseInv, OnlyUnfinishedReportsLoseJobs

\* A rank goes on to another place with the job and the commits it has.
LEMMA PlaceKeepsReleaseInv ==
  ASSUME ReleaseInv, NEW r \in Ranks, NEW at, Move(r, [generator[r] EXCEPT !.at = at]),
         UNCHANGED <<reports, dataset>>, at \notin {"write", "dataset"},
         Generating([at |-> at]) =>
           Generating(generator[r]) /\ (IF at = "report" THEN ~HasJob(r) ELSE HasJob(r))
  PROVE  ReleaseInv'
<1> DEFINE t == [generator[r] EXCEPT !.at = at]
<1>1. /\ DOMAIN t = RankFields /\ t.at = at /\ t.job = generator[r].job
      /\ t.commits = generator[r].commits
  BY DEF ReleaseInv, RankFields
<1>2. RankIsSound(r, generator[r])
  BY DEF ReleaseInv, GeneratorInv
<1> HIDE DEF t
<1>3. Generating(t) <=> Generating([at |-> at])
  BY <1>1 DEF Generating, AtJob
<1>4. AtJob(t) => at # "report"
  BY <1>1 DEF AtJob
<1>5. RankIsSound(r, t)
  BY <1>1, <1>2, <1>3, <1>4 DEF RankIsSound, HasJob, CurrentJob
<1> QED
  BY <1>1, <1>5, RankKeepsReleaseInv, SameDatasetLosesTheSame DEF t

LEMMA CommitEpisodeKeepsReleaseInv ==
  ASSUME ReleaseInv, NEW r \in Ranks, CommitEpisode(r)
  PROVE  ReleaseInv'
<1> DEFINE t == generator[r]
           j == CurrentJob(r)
           commit == [job |-> j, split |-> JobManifest[j].split,
                      accepted |-> episodes[j].metadata.accepted, files |-> episodes[j]]
           commits == t.commits \cup {commit}
           job == NextOwned(j)
           next == [t EXCEPT !.at = "write", !.job = job, !.commits = commits]
<1>1. /\ DOMAIN t = RankFields /\ t.at = "commit" /\ j = t.job
      /\ j \in JobIds /\ j \in Nat \ {0} /\ Owner(j) = r /\ Lists(t.commits, r, j)
  BY DEF ReleaseInv, GeneratorInv, RankIsSound, Generating, AtJob, CommitEpisode, At, CurrentJob
<1>2. Move(r, next) /\ UNCHANGED <<reports, dataset>>
  BY <1>1 DEF CommitEpisode
<1>3. commit.job = j /\ commit.split = JobManifest[j].split
  OBVIOUS
<1> HIDE DEF commit
<1>4. job \in Nat \ {0} /\ Owner(job) = r /\ j < job
  <2>1. job \in Nat \ {0} /\ j < job
    BY <1>1, WorldSizePositive DEF NextOwned
  <2>2. Owner(job) = r
    BY <1>1, WorldSizePositive, NextJob DEF NextOwned, Owner
  <2> QED
    BY <2>1, <2>2
<1>5. Lists(commits, r, job)
  <2>1. ASSUME NEW c \in commits
        PROVE  /\ c.job \in JobIds /\ Owner(c.job) = r /\ c.job < job
               /\ c.split = JobManifest[c.job].split
    <3>1. CASE c = commit
      BY <1>1, <1>3, <1>4, <3>1
    <3>2. CASE c \in t.commits
      <4>1. /\ c.job \in JobIds /\ Owner(c.job) = r /\ c.job < j
            /\ c.split = JobManifest[c.job].split
        BY <1>1, <3>2 DEF Lists
      <4>2. c.job \in Nat
        BY <4>1, JobBounds
      <4> QED
        BY <1>1, <1>4, <4>1, <4>2
    <3> QED
      BY <3>1, <3>2
  <2>2. ASSUME NEW k \in JobIds, Owner(k) = r, k < job PROVE \E c \in commits : c.job = k
    <3>1. k \in Nat \ {0}
      BY JobBounds
    <3>2. k < j \/ k = j
      BY <1>1, <2>2, <3>1, WorldSizePositive, NextJob DEF NextOwned, Owner
    <3> QED
      BY <1>1, <1>3, <2>2, <3>2 DEF Lists
  <2> QED
    BY <2>1, <2>2 DEF Lists
<1> HIDE DEF j, commits, job
<1>6. DOMAIN next = RankFields /\ next.at = "write" /\ next.job = job /\ next.commits = commits
  BY <1>1 DEF RankFields
<1> HIDE DEF next
<1>7. RankIsSound(r, next)
  BY <1>4, <1>5, <1>6 DEF RankIsSound, AtJob
<1> QED
  BY <1>2, <1>6, <1>7, RankKeepsReleaseInv, SameDatasetLosesTheSame

\* A report that was not written to its end is of the first jobs its rank owns.
LEMMA UnfinishedIsSound ==
  ASSUME NEW r \in Ranks, NEW commits, NEW bound \in Nat, bound > Len(JobManifest),
         Lists(commits, r, bound), NEW report \in Unfinished(commits)
  PROVE  ReportIsSound(r, report)
<1>1. CASE report = Report({}, "broken")
  <2>1. report.commits = {} /\ report.ends = "broken"
    BY <1>1 DEF Report
  <2>2. Lists({}, r, 0)
    BY JobBounds DEF Lists
  <2> QED
    BY <2>1, <2>2 DEF ReportIsSound
<1>2. CASE report \in {Report({c \in commits : c.job < j}, "cut") : j \in 1 .. Len(JobManifest) + 1}
  <2>1. PICK j \in 1 .. Len(JobManifest) + 1 : report = Report({c \in commits : c.job < j}, "cut")
    BY <1>2
  <2>2. report.commits = {c \in commits : c.job < j} /\ report.ends = "cut"
    BY <2>1 DEF Report
  <2>3. j \in Nat /\ j <= bound
    BY JobBounds
  <2>4. ASSUME NEW k \in JobIds, Owner(k) = r, k < j PROVE \E c \in report.commits : c.job = k
    <3>1. k < bound
      BY <2>3, <2>4, JobBounds
    <3> QED
      BY <2>2, <2>4, <3>1 DEF Lists
  <2>5. Lists(report.commits, r, j)
    BY <2>2, <2>4 DEF Lists
  <2> QED
    BY <2>2, <2>3, <2>5 DEF ReportIsSound
<1> QED
  BY <1>1, <1>2 DEF Unfinished

LEMMA ReportKeepsReleaseInv ==
  ASSUME ReleaseInv, NEW r \in Ranks, OpenRankReport(r) \/ WriteRankReport(r)
  PROVE  ReleaseInv'
<1> DEFINE t == generator[r]
<1>1. /\ DOMAIN t = RankFields /\ t.job \in Nat \ {0} /\ t.job \notin JobIds
      /\ Owner(t.job) = r /\ Lists(t.commits, r, t.job)
  BY DEF ReleaseInv, GeneratorInv, RankIsSound, Generating, OpenRankReport, WriteRankReport, At,
         HasJob, CurrentJob
<1>2. t.job > Len(JobManifest)
  BY <1>1, JobBounds
<1>3. UNCHANGED dataset
  BY DEF OpenRankReport, WriteRankReport
<1>4. PICK at \in {"report", "reported"} : generator' = [generator EXCEPT ![r] = [t EXCEPT !.at = at]]
  BY DEF OpenRankReport, WriteRankReport, Move
<1>5. PICK report : ReportIsSound(r, report) /\ reports' = [reports EXCEPT ![r] = report]
  <2>1. CASE OpenRankReport(r)
    <3>1. PICK report \in Unfinished(t.commits) : reports' = [reports EXCEPT ![r] = report]
      BY <2>1 DEF OpenRankReport
    <3> QED
      BY <1>1, <1>2, <3>1, UnfinishedIsSound
  <2>2. CASE WriteRankReport(r)
    <3>1. reports' = [reports EXCEPT ![r] = Report(t.commits, "whole")]
      BY <2>2 DEF WriteRankReport
    <3>2. Report(t.commits, "whole").commits = t.commits
      BY DEF Report
    <3>3. ReportIsSound(r, Report(t.commits, "whole"))
      BY <1>1, <1>2, <3>2 DEF ReportIsSound
    <3> QED
      BY <3>1, <3>3
  <2> QED
    BY <2>1, <2>2
<1>6. /\ DOMAIN generator' = Ranks /\ generator'[r].at = at /\ DOMAIN generator'[r] = RankFields
      /\ generator'[r].job = t.job /\ generator'[r].commits = t.commits
      /\ \A s \in Ranks \ {r} : generator'[s] = generator[s]
  BY <1>1, <1>4 DEF ReleaseInv, RankFields
<1>7. RankIsSound(r, generator'[r])
  BY <1>1, <1>6 DEF RankIsSound, AtJob, Generating
<1>8. GeneratorInv' /\ \A s \in Ranks : DOMAIN generator'[s] = RankFields
  BY <1>6, <1>7 DEF ReleaseInv, GeneratorInv
<1>9. DOMAIN reports' = Ranks /\ ReportsInv'
  BY <1>5 DEF ReleaseInv, ReportsInv
<1> QED
  BY <1>3, <1>6, <1>8, <1>9, SameDatasetLosesTheSame DEF ReleaseInv

\* What is missing from a manifest was missing from the end of its rank's report.
LEMMA MergedLosesOnlyUnfinished ==
  ASSUME ReportsInv, Mergeable, \A c, d \in MergedCommits : c.job = d.job => c = d,
         NEW manifest, manifest.episodes = MergedCommits,
         manifest.unfinished = {q \in ReportsFound : reports[q].ends # "whole"}
  PROVE  LosesOnlyUnfinished(manifest)
<1> SUFFICES ASSUME NEW j \in JobIds
             PROVE  /\ \A c, e \in Listed(manifest, j) : c = e /\ c.split = JobManifest[j].split
                    /\ Listed(manifest, j) = {} =>
                         /\ Owner(j) \in manifest.unfinished
                         /\ \A k \in JobIds : Owner(k) = Owner(j) /\ k > j => Listed(manifest, k) = {}
  BY DEF LosesOnlyUnfinished
<1>1. ASSUME NEW k \in JobIds, NEW c \in Listed(manifest, k)
      PROVE  /\ c \in MergedCommits /\ c.job = k
             /\ Owner(k) \in ReportsFound /\ c \in reports[Owner(k)].commits
             /\ c.split = JobManifest[k].split
  <2>1. c \in MergedCommits /\ c.job = k
    BY <1>1 DEF Listed
  <2>2. PICK q \in ReportsFound : c \in reports[q].commits
    BY <2>1 DEF MergedCommits
  <2>3. Owner(c.job) = q /\ c.split = JobManifest[c.job].split
    BY <2>2 DEF ReportsFound, ReportsInv, ReportIsSound, Lists
  <2> QED
    BY <2>1, <2>2, <2>3
<1>2. ASSUME Listed(manifest, j) = {}
      PROVE  /\ Owner(j) \in manifest.unfinished
             /\ \A k \in JobIds : Owner(k) = Owner(j) /\ k > j => Listed(manifest, k) = {}
  <2> DEFINE s == Owner(j)
  <2>1. s \in ReportsFound /\ reports[s].commits \subseteq MergedCommits
    BY JobBounds DEF Mergeable, ReportsFound, MergedCommits
  <2>2. PICK bound \in Nat : /\ Lists(reports[s].commits, s, bound)
                             /\ reports[s].ends = "whole" => bound > Len(JobManifest)
    BY <2>1 DEF ReportsFound, ReportsInv, ReportIsSound
  <2>3. bound <= j
    <3>1. ~(j < bound)
      BY <1>2, <2>1, <2>2 DEF Lists, Listed
    <3> QED
      BY <3>1, JobBounds
  <2>4. reports[s].ends # "whole"
    BY <2>2, <2>3, JobBounds
  <2>5. ASSUME NEW k \in JobIds, Owner(k) = s, k > j, NEW c \in Listed(manifest, k) PROVE FALSE
    <3>1. c \in reports[s].commits /\ c.job = k
      BY <1>1, <2>5
    <3>2. k < bound
      BY <2>2, <3>1 DEF Lists
    <3> QED
      BY <2>3, <2>5, <3>2, JobBounds
  <2> QED
    BY <2>1, <2>4, <2>5
<1>3. \A c, e \in Listed(manifest, j) : c = e /\ c.split = JobManifest[j].split
  BY <1>1
<1> QED
  BY <1>2, <1>3

LEMMA MergeKeepsReleaseInv ==
  ASSUME ReleaseInv, NEW r \in Ranks, MergeRankReports(r)
  PROVE  ReleaseInv'
<1>1. CASE Move(r, [generator[r] EXCEPT !.at = "closing"]) /\ UNCHANGED <<reports, dataset>>
  BY <1>1, PlaceKeepsReleaseInv DEF Generating, AtJob
<1>2. CASE /\ Mergeable
           /\ \A c, d \in MergedCommits : c.job = d.job => c = d
           /\ dataset' = Torn /\ UNCHANGED reports
           /\ Move(r, [generator[r] EXCEPT !.at = "dataset", !.manifest =
                [episodes |-> MergedCommits, created |-> releases,
                 unfinished |-> {q \in ReportsFound : reports[q].ends # "whole"}]])
  <2> DEFINE manifest == [episodes |-> MergedCommits, created |-> releases,
                          unfinished |-> {q \in ReportsFound : reports[q].ends # "whole"}]
             t == [generator[r] EXCEPT !.at = "dataset", !.manifest = manifest]
  <2>1. LosesOnlyUnfinished(manifest)
    BY <1>2, MergedLosesOnlyUnfinished DEF ReleaseInv
  <2> HIDE DEF manifest
  <2>2. DOMAIN t = RankFields /\ t.at = "dataset" /\ t.manifest = manifest
    BY DEF ReleaseInv, RankFields
  <2>3. Move(r, t)
    BY <1>2 DEF manifest
  <2> HIDE DEF t
  <2>4. RankIsSound(r, t)
    BY <2>1, <2>2 DEF RankIsSound, Generating, AtJob
  <2>5. OnlyUnfinishedReportsLoseJobs'
    BY <1>2 DEF OnlyUnfinishedReportsLoseJobs
  <2> QED
    BY <1>2, <2>2, <2>3, <2>4, <2>5, RankKeepsReleaseInv
<1> QED
  BY <1>1, <1>2 DEF MergeRankReports

LEMMA WriteDatasetKeepsReleaseInv ==
  ASSUME ReleaseInv, NEW r \in Ranks, WriteDataset(r)
  PROVE  ReleaseInv'
<1> DEFINE t == [generator[r] EXCEPT !.at = "upload"]
<1>1. generator[r].at = "dataset" /\ dataset' = generator[r].manifest /\ Move(r, t) /\ UNCHANGED reports
  BY DEF WriteDataset, At
<1>2. LosesOnlyUnfinished(generator[r].manifest)
  BY <1>1 DEF ReleaseInv, GeneratorInv, RankIsSound
<1>3. OnlyUnfinishedReportsLoseJobs'
  BY <1>1, <1>2 DEF OnlyUnfinishedReportsLoseJobs
<1>4. DOMAIN t = RankFields /\ t.at = "upload"
  BY DEF ReleaseInv, RankFields
<1> HIDE DEF t
<1>5. RankIsSound(r, t)
  BY <1>4 DEF RankIsSound, Generating, AtJob
<1> QED
  BY <1>1, <1>3, <1>4, <1>5, RankKeepsReleaseInv

\* All go on at once, none of them to another job.
LEMMA ManyMovesKeepReleaseInv ==
  ASSUME ReleaseInv, UNCHANGED <<reports, dataset>>, DOMAIN generator' = Ranks,
         \A r \in Ranks : DOMAIN generator'[r] = RankFields /\ RankIsSound(r, generator'[r])
  PROVE  ReleaseInv'
BY SameDatasetLosesTheSame DEF ReleaseInv, GeneratorInv, ReportsInv

\* The ranks begin at their own places.
LEMMA FreshIsSound ==
  ASSUME NEW r \in Ranks
  PROVE  DOMAIN FreshGenerators[r] = RankFields /\ RankIsSound(r, FreshGenerators[r])
<1> DEFINE t == FreshGenerators[r]
<1>1. t = [at |-> "write", job |-> r + 1, commits |-> {}, manifest |-> Missing]
  BY DEF FreshGenerators
<1>2. r \in Nat /\ r < Cardinality(Ranks) /\ Cardinality(Ranks) \in Nat \ {0}
  BY WorldSizePositive
<1>3. \A k \in 0 .. r : k % Cardinality(Ranks) = k
  BY <1>2
<1>4. Owner(r + 1) = r
  BY <1>2, <1>3 DEF Owner
<1>5. Lists({}, r, r + 1)
  <2> SUFFICES ASSUME NEW j \in JobIds, Owner(j) = r, j < r + 1 PROVE FALSE
    BY DEF Lists
  <2>1. j - 1 \in 0 .. r /\ j - 1 # r
    BY <1>2, JobBounds
  <2> QED
    BY <1>3, <2>1 DEF Owner
<1>6. DOMAIN t = RankFields /\ t.at = "write" /\ t.job = r + 1 /\ t.commits = {}
  BY <1>1 DEF RankFields
<1> HIDE DEF t
<1>7. RankIsSound(r, t)
  BY <1>2, <1>4, <1>5, <1>6 DEF RankIsSound, AtJob
<1> QED
  BY <1>6, <1>7 DEF t

LEMMA ReleaseStepKeepsReleaseInv ==
  ASSUME ReleaseInv, ReleaseNext
  PROVE  ReleaseInv'
<1>1. ASSUME NEW r \in Ranks, OpenArrays(r) \/ OpenDescription(r) \/ WriteDescription(r)
                                \/ \E content : WriteArrays(r, content)
      PROVE  ReleaseInv'
  <2>1. PICK at \in {"arrays", "describe", "metadata", "commit"} :
          Move(r, [generator[r] EXCEPT !.at = at]) /\ UNCHANGED <<reports, dataset>>
    BY <1>1 DEF OpenArrays, WriteArrays, OpenDescription, WriteDescription
  <2>2. Generating(generator[r]) /\ HasJob(r)
    BY <1>1 DEF OpenArrays, WriteArrays, OpenDescription, WriteDescription, At, ReleaseInv,
                GeneratorInv, RankIsSound, Generating, AtJob, HasJob, CurrentJob
  <2> QED
    BY <2>1, <2>2, PlaceKeepsReleaseInv
<1>2. ASSUME NEW r \in Ranks, \/ GeneratorRaises(r) \/ GeneratorIsLost(r) \/ BarrierTimeout(r)
                              \/ UploadDatasetCommit(r)
      PROVE  ReleaseInv'
  <2>1. PICK at \in {"closing", "exited", "merged"} :
          Move(r, [generator[r] EXCEPT !.at = at]) /\ UNCHANGED <<reports, dataset>>
    BY <1>2 DEF GeneratorRaises, GeneratorIsLost, BarrierTimeout, UploadDatasetCommit
  <2> QED
    BY <2>1, PlaceKeepsReleaseInv DEF Generating, AtJob
<1>3. ASSUME Barrier PROVE ReleaseInv'
  <2> DEFINE place(r) == CASE At(r, "reported") -> IF r = 0 THEN "merge" ELSE "merged"
                           [] At(r, "merged") -> "closing"
                           [] At(r, "closing") -> "exited"
  <2>1. ASSUME NEW r \in Ranks PROVE place(r) \in {"merge", "merged", "closing", "exited"}
    BY <1>3 DEF Barrier, WaitsAtBarrier, At
  <2>2. /\ generator' = [r \in Ranks |-> [generator[r] EXCEPT !.at = place(r)]]
        /\ UNCHANGED <<reports, dataset>>
    BY <1>3 DEF Barrier
  <2> HIDE DEF place
  <2>3. ASSUME NEW r \in Ranks
        PROVE  DOMAIN generator'[r] = RankFields /\ RankIsSound(r, generator'[r])
    <3>1. DOMAIN generator'[r] = RankFields /\ generator'[r].at = place(r)
      BY <2>2 DEF ReleaseInv, RankFields
    <3> QED
      BY <2>1, <3>1 DEF RankIsSound, Generating, AtJob
  <2> QED
    BY <2>2, <2>3, ManyMovesKeepReleaseInv
<1>4. ASSUME LaunchAgain PROVE ReleaseInv'
  <2>1. generator' = FreshGenerators /\ UNCHANGED <<reports, dataset>>
    BY <1>4 DEF LaunchAgain
  <2>2. DOMAIN generator' = Ranks
    BY <2>1 DEF FreshGenerators
  <2> QED
    BY <2>1, <2>2, FreshIsSound, ManyMovesKeepReleaseInv
<1> QED
  BY <1>1, <1>2, <1>3, <1>4, CommitEpisodeKeepsReleaseInv, ReportKeepsReleaseInv,
     MergeKeepsReleaseInv, WriteDatasetKeepsReleaseInv DEF ReleaseNext

\* Whichever ranks raise or are lost at any step, and whatever reports an earlier
\* launch left: a dataset commit that can be read lists each job once at most, under
\* the split it was compiled for, and has lost a job, with all that its rank owns
\* after it, only where the writing of that rank's report was cut off.
THEOREM DatasetCorrect == ReleaseSpec => []OnlyUnfinishedReportsLoseJobs
<1>1. ReleaseInit => ReleaseInv
  <2> SUFFICES ASSUME ReleaseInit PROVE ReleaseInv
    OBVIOUS
  <2>1. generator = FreshGenerators /\ DOMAIN generator = Ranks /\ DOMAIN reports = Ranks
    BY DEF ReleaseInit, FreshGenerators
  <2>2. GeneratorInv /\ \A r \in Ranks : DOMAIN generator[r] = RankFields
    BY <2>1, FreshIsSound DEF GeneratorInv
  <2>3. ReportsInv /\ OnlyUnfinishedReportsLoseJobs
    BY DEF ReleaseInit, ReportsInv, OnlyUnfinishedReportsLoseJobs
  <2> QED
    BY <2>1, <2>2, <2>3 DEF ReleaseInv
<1>2. ReleaseInv /\ [ReleaseNext]_releaseVars => ReleaseInv'
  <2>1. ASSUME ReleaseInv, UNCHANGED releaseVars PROVE ReleaseInv'
    BY <2>1, SameDatasetLosesTheSame DEF releaseVars, ReleaseInv, GeneratorInv, ReportsInv
  <2> QED
    BY <2>1, ReleaseStepKeepsReleaseInv
<1>3. ReleaseInv => OnlyUnfinishedReportsLoseJobs
  BY DEF ReleaseInv
<1> QED
  BY <1>1, <1>2, <1>3, PTL DEF ReleaseSpec

-----------------------------------------------------------------------------
(***************************************************************************)
(* The incremental run.                                                    *)
(***************************************************************************)

Earned(stages) == \A i \in 1 .. 6 : Complete(stages, Stages[i])

\* The orchestrator's copy is what the file says, and where it is goes with the
\* first stage that the file does not call complete.
OrchestratorInv ==
  /\ DOMAIN orchestrator = {"at", "inputs", "stages", "authorized"}
  /\ DOMAIN run_state.stages = StageNames
  /\ orchestrator.at # "idle" =>
       /\ run_state.inputs # Missing /\ run_state.inputs = orchestrator.inputs
       /\ run_state.stages = orchestrator.stages
  /\ orchestrator.at = "waiting" =>
       FirstUndone(orchestrator.stages) \in {"PREPARE_TRAINING_WINDOWS", "TRAIN_CANDIDATE"}
  /\ orchestrator.at = "released" => FirstUndone(orchestrator.stages) = "SHADOW_CANDIDATE_READY"

RunInv == OrchestratorInv /\ ShadowIsEarned /\ (shadow # Missing => run_state.inputs # Missing)

LEMMA StageFacts ==
  /\ Len(Stages) = 7
  /\ \A i, j \in 1 .. 7 : Stages[i] = Stages[j] => i = j
  /\ \A i \in 1 .. 7 : Stages[i] \in StageNames /\ Stages[i] # "UNKNOWN"
  /\ Stages[2] = "PREPARE_TRAINING_WINDOWS" /\ Stages[3] = "TRAIN_CANDIDATE"
  /\ Stages[7] = "SHADOW_CANDIDATE_READY"
BY DEF Stages, StageNames

\* FirstUndone is what its name says.
LEMMA FirstUndoneIsFirst ==
  ASSUME NEW stages
  PROVE  \/ FirstUndone(stages) = "UNKNOWN" /\ \A i \in 1 .. 7 : Complete(stages, Stages[i])
         \/ \E i \in 1 .. 7 : /\ FirstUndone(stages) = Stages[i] /\ ~Complete(stages, Stages[i])
                              /\ \A k \in 1 .. i - 1 : Complete(stages, Stages[k])
<1> DEFINE First(i) == /\ i <= Len(Stages) => ~Complete(stages, Stages[i])
                       /\ \A k \in 1 .. i - 1 : Complete(stages, Stages[k])
           first == CHOOSE i \in 1 .. Len(Stages) + 1 : First(i)
<1>1. \E i \in 1 .. Len(Stages) + 1 : First(i)
  <2> DEFINE done(k) == Complete(stages, Stages[k])
  <2>1. CASE \A k \in 1 .. 7 : done(k)
    BY <2>1, StageFacts
  <2>2. CASE ~done(1)
    BY <2>2, StageFacts
  <2>3. CASE done(1) /\ ~done(2)
    BY <2>3, StageFacts
  <2>4. CASE done(1) /\ done(2) /\ ~done(3)
    BY <2>4, StageFacts
  <2>5. CASE done(1) /\ done(2) /\ done(3) /\ ~done(4)
    BY <2>5, StageFacts
  <2>6. CASE done(1) /\ done(2) /\ done(3) /\ done(4) /\ ~done(5)
    BY <2>6, StageFacts
  <2>7. CASE done(1) /\ done(2) /\ done(3) /\ done(4) /\ done(5) /\ ~done(6)
    BY <2>7, StageFacts
  <2>8. CASE done(1) /\ done(2) /\ done(3) /\ done(4) /\ done(5) /\ done(6) /\ ~done(7)
    BY <2>8, StageFacts
  <2> HIDE DEF done
  <2> QED
    BY <2>1, <2>2, <2>3, <2>4, <2>5, <2>6, <2>7, <2>8
<1>2. first \in 1 .. Len(Stages) + 1 /\ First(first)
  BY <1>1
<1>3. FirstUndone(stages) = IF first > Len(Stages) THEN "UNKNOWN" ELSE Stages[first]
  BY DEF FirstUndone
<1> HIDE DEF first
<1> QED
  BY <1>2, <1>3, StageFacts

\* What the first undone stage says of the six that the release waits for.
LEMMA EarnedByFirstUndone ==
  ASSUME NEW stages
  PROVE  Earned(stages) <=> FirstUndone(stages) \in {"SHADOW_CANDIDATE_READY", "UNKNOWN"}
BY FirstUndoneIsFirst, StageFacts DEF Earned

\* A stage is completed, or the run ends with its failure.
LEMMA SaveKeepsRunInv ==
  ASSUME RunInv, NEW s, NEW stage, NEW at \in {"main", "idle"},
         orchestrator.at # "idle", s = FirstUndone(orchestrator.stages),
         Save([orchestrator.stages EXCEPT ![s] = stage], at), UNCHANGED shadow
  PROVE  RunInv'
<1> DEFINE stages == orchestrator.stages
           next == [stages EXCEPT ![s] = stage]
<1>1. /\ orchestrator' = [orchestrator EXCEPT !.stages = next, !.at = at]
      /\ run_state' = [inputs |-> orchestrator.inputs, stages |-> next]
  BY DEF Save
<1>2. /\ DOMAIN orchestrator = {"at", "inputs", "stages", "authorized"} /\ DOMAIN stages = StageNames
      /\ orchestrator.inputs # Missing /\ run_state.inputs = orchestrator.inputs
      /\ run_state.stages = stages
  BY DEF RunInv, OrchestratorInv
<1>3. DOMAIN next = StageNames /\ \A x \in StageNames : x # s => next[x] = stages[x]
  BY <1>2
<1> HIDE DEF next
<1>4. /\ DOMAIN orchestrator' = {"at", "inputs", "stages", "authorized"} /\ orchestrator'.at = at
      /\ orchestrator'.stages = next /\ orchestrator'.inputs = orchestrator.inputs
  BY <1>1, <1>2
<1>5. run_state'.inputs = orchestrator.inputs /\ run_state'.stages = next
  BY <1>1
<1>6. OrchestratorInv'
  BY <1>2, <1>3, <1>4, <1>5 DEF OrchestratorInv
<1>7. ShadowIsEarned'
  <2> SUFFICES ASSUME shadow # Missing PROVE ShadowIsEarned'
    BY DEF ShadowIsEarned
  <2>1. Earned(stages) /\ shadow.inputs = run_state.inputs
        /\ shadow.candidate = stages["TRAIN_CANDIDATE"].outputs
    BY <1>2 DEF RunInv, ShadowIsEarned, Earned, Complete
  <2>2. s \in {"SHADOW_CANDIDATE_READY", "UNKNOWN"}
    BY <2>1, EarnedByFirstUndone
  <2>3. \A i \in 1 .. 6 : next[Stages[i]] = stages[Stages[i]]
    BY <1>3, <2>2, StageFacts
  <2>4. next["TRAIN_CANDIDATE"] = stages["TRAIN_CANDIDATE"]
    BY <2>3, StageFacts
  <2> QED
    BY <1>2, <1>5, <2>1, <2>3, <2>4 DEF ShadowIsEarned, Earned, Complete
<1> QED
  BY <1>2, <1>5, <1>6, <1>7 DEF RunInv

\* main goes on, or ends, without a word to the file.
LEMMA MoveKeepsRunInv ==
  ASSUME RunInv, UNCHANGED <<run_state, shadow>>,
         \/ orchestrator' = Idle
         \/ \E at \in {"main", "waiting", "released"} :
              /\ orchestrator' = [orchestrator EXCEPT !.at = at] /\ orchestrator.at # "idle"
              /\ at = "waiting" => FirstUndone(orchestrator.stages)
                                     \in {"PREPARE_TRAINING_WINDOWS", "TRAIN_CANDIDATE"}
              /\ at = "released" => FirstUndone(orchestrator.stages) = "SHADOW_CANDIDATE_READY"
  PROVE  RunInv'
<1>1. ShadowIsEarned' /\ (shadow' # Missing => run_state'.inputs # Missing)
  BY DEF RunInv, ShadowIsEarned
<1>2. CASE orchestrator' = Idle
  BY <1>1, <1>2 DEF RunInv, OrchestratorInv, Idle
<1>3. CASE orchestrator' # Idle
  <2>1. PICK at \in {"main", "waiting", "released"} :
              /\ orchestrator' = [orchestrator EXCEPT !.at = at] /\ orchestrator.at # "idle"
              /\ at = "waiting" => FirstUndone(orchestrator.stages)
                                     \in {"PREPARE_TRAINING_WINDOWS", "TRAIN_CANDIDATE"}
              /\ at = "released" => FirstUndone(orchestrator.stages) = "SHADOW_CANDIDATE_READY"
    BY <1>3
  <2>2. /\ DOMAIN orchestrator' = {"at", "inputs", "stages", "authorized"} /\ orchestrator'.at = at
        /\ orchestrator'.stages = orchestrator.stages /\ orchestrator'.inputs = orchestrator.inputs
    BY <2>1 DEF RunInv, OrchestratorInv
  <2>3. FirstUndone(orchestrator.stages)' = FirstUndone(orchestrator.stages)
    BY <2>2
  <2> QED
    BY <1>1, <2>1, <2>2, <2>3 DEF RunInv, OrchestratorInv
<1> QED
  BY <1>2, <1>3

LEMMA RunStepKeepsRunInv ==
  ASSUME RunInv, RunStep
  PROVE  RunInv'
<1>1. ASSUME Start PROVE RunInv'
  <2>1. PICK authorized \in BOOLEAN :
          orchestrator' = [at |-> "main", inputs |-> dataset, stages |-> run_state'.stages,
                           authorized |-> authorized]
    BY <1>1 DEF Start
  <2>2. dataset # Missing /\ UNCHANGED shadow
    BY <1>1 DEF Start, Files
  <2>3. CASE run_state = NoRun /\ run_state' = [inputs |-> dataset, stages |-> NoStages]
    <3>1. shadow = Missing
      BY <2>3 DEF RunInv, NoRun
    <3> QED
      BY <2>1, <2>2, <2>3, <3>1 DEF RunInv, OrchestratorInv, ShadowIsEarned, NoStages
  <2>4. CASE SameInputs(run_state) /\ UNCHANGED run_state
    BY <2>1, <2>2, <2>4 DEF RunInv, OrchestratorInv, ShadowIsEarned, SameInputs
  <2> QED
    BY <1>1, <2>3, <2>4 DEF Start
<1>2. ASSUME NEW s, NEW outputs, CompleteStage(s, outputs), orchestrator.at # "idle",
             s = FirstUndone(orchestrator.stages), UNCHANGED shadow
      PROVE  RunInv'
  BY <1>2, SaveKeepsRunInv DEF CompleteStage
<1>3. ASSUME FailStage, orchestrator.at # "idle", UNCHANGED shadow PROVE RunInv'
  BY <1>3, SaveKeepsRunInv DEF FailStage
<1>4. ASSUME ValidateDatasetCommit PROVE RunInv'
  BY <1>2, <1>3, <1>4 DEF ValidateDatasetCommit, Doing, Files
<1>5. ASSUME WindowsPrepared \/ CandidateTrained PROVE RunInv'
  BY <1>2, <1>3, <1>5 DEF WindowsPrepared, CandidateTrained, Returned, Files
<1>6. ASSUME NEW s \in StageNames, CommandFailed(s) \/ Evaluate(s) PROVE RunInv'
  BY <1>2, <1>3, <1>6 DEF CommandFailed, Evaluate, Returned, Doing, Files
<1>7. ASSUME StartConverter \/ StartTrainer PROVE RunInv'
  BY <1>7, MoveKeepsRunInv DEF StartConverter, StartTrainer, Launch, Doing, Files
<1>8. ASSUME AwaitAuthorization \/ Finish \/ Kill PROVE RunInv'
  BY <1>8, MoveKeepsRunInv DEF AwaitAuthorization, Finish, Kill, Files
<1>9. ASSUME ShadowReady PROVE RunInv'
  <2>1. "SHADOW_CANDIDATE_READY" = FirstUndone(orchestrator.stages)
    BY <1>9 DEF ShadowReady, RunInv, OrchestratorInv
  <2> QED
    BY <1>2, <1>9, <2>1 DEF ShadowReady, Files
<1>10. ASSUME WriteShadowRelease PROVE RunInv'
  <2>1. /\ orchestrator.at = "main" /\ FirstUndone(orchestrator.stages) = "SHADOW_CANDIDATE_READY"
        /\ orchestrator' = [orchestrator EXCEPT !.at = "released"] /\ UNCHANGED run_state
        /\ shadow' = [candidate |-> orchestrator.stages["TRAIN_CANDIDATE"].outputs,
                      inputs |-> orchestrator.inputs]
    BY <1>10 DEF WriteShadowRelease, Doing
  <2>2. /\ DOMAIN orchestrator' = {"at", "inputs", "stages", "authorized"} /\ orchestrator'.at = "released"
        /\ orchestrator'.stages = orchestrator.stages /\ orchestrator'.inputs = orchestrator.inputs
    BY <2>1 DEF RunInv, OrchestratorInv
  <2>3. FirstUndone(orchestrator.stages)' = FirstUndone(orchestrator.stages)
    BY <2>2
  <2>4. OrchestratorInv'
    BY <2>1, <2>2, <2>3 DEF RunInv, OrchestratorInv
  <2>5. Earned(run_state.stages) /\ run_state.inputs = orchestrator.inputs /\ run_state.inputs # Missing
        /\ run_state.stages = orchestrator.stages
    BY <2>1, EarnedByFirstUndone DEF RunInv, OrchestratorInv
  <2> QED
    BY <2>1, <2>4, <2>5 DEF RunInv, ShadowIsEarned, Earned, Complete
<1>11. ASSUME NEW p, ConvertEpisode(p) \/ WriteWindows(p) \/ TrainerEnds(p) PROVE RunInv'
  <2>1. UNCHANGED <<run_state, orchestrator, shadow>>
    BY <1>11 DEF ConvertEpisode, WriteWindows, TrainerEnds, Files
  <2> QED
    BY <2>1 DEF RunInv, OrchestratorInv, ShadowIsEarned
<1> QED
  BY <1>1, <1>4, <1>5, <1>6, <1>7, <1>8, <1>9, <1>10, <1>11 DEF RunStep

\* However often the orchestrator is killed and started again, and whatever the
\* generator and left-over processes do: a shadow release is of the candidate and
\* of the dataset commit of a run whose six stages before it are complete.
THEOREM ShadowCorrect == IncrementalSpec => []ShadowIsEarned
<1>1. IncrementalInit => RunInv
  BY DEF IncrementalInit, RunInit, RunInv, OrchestratorInv, ShadowIsEarned, Idle, NoRun, NoStages
<1>2. RunInv /\ [IncrementalNext]_incrementalVars => RunInv'
  <2>1. ASSUME RunInv, UNCHANGED runVars PROVE RunInv'
    BY <2>1 DEF runVars, RunInv, OrchestratorInv, ShadowIsEarned
  <2> QED
    BY <2>1, RunStepKeepsRunInv DEF IncrementalNext, incrementalVars
<1>3. RunInv => ShadowIsEarned
  BY DEF RunInv
<1> QED
  BY <1>1, <1>2, <1>3, PTL DEF IncrementalSpec
=============================================================================
