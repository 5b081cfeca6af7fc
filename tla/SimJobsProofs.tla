--------------------------- MODULE SimJobsProofs ----------------------------
(***************************************************************************)
(* Proofs about SimJobs, for any jobs, workers, episodes and bounds.       *)
(***************************************************************************)
EXTENDS SimJobs, TLAPS

LeaseRow == [status : Statuses, attempt : Nat, worker_id : Workers \cup {None},
             expired : BOOLEAN, hashes : Files]

Position == [at : Working \cup {"acquire", "ended"}, job : Jobs \cup {None}, attempt : Nat,
             raw : Contents \cup {None}, tries : Nat]

WorksOn(w, j) == worker[w].at \in Working /\ worker[w].job = j

LeaseTypes ==
  /\ row \in [Jobs -> LeaseRow]
  /\ worker \in [Workers -> Position]
  /\ \A w \in Workers : worker[w].at \in Working => worker[w].job \in Jobs
  /\ local \in [Jobs -> Files] /\ staging \in [Jobs -> Files]
  /\ final \in [Jobs -> Files] /\ commit \in [Jobs -> Files]

\* Unless a lease ran out under a live worker, whoever works on a job holds its
\* lease, and an expired lease is nobody's.
LeasesAreKept ==
  \A w \in Workers, j \in Jobs \ overrun :
    WorksOn(w, j) => HoldsLease(w) /\ ~row[j].expired

\* What the worker's earlier steps left on the disk and in the store.
FilesAreReady(w) ==
  LET at == worker[w].at
      job == worker[w].job
      raw == worker[w].raw
  IN /\ at = "describe" => local[job].npz = raw
     /\ at \in {"gate", "complete"} \cup Uploading => local[job] = [npz |-> raw, metadata |-> raw]
     /\ at \in {"complete"} \cup Uploading => raw \in Accepted
     /\ at \in {"remove", "replace"} => staging[job] = local[job]
     /\ at \in {"commit", "complete"} => final[job] = local[job]
     /\ at = "complete" => commit[job] = local[job]

SimInv ==
  /\ LeaseTypes
  /\ LeasesAreKept
  /\ \A w \in Workers, j \in Jobs \ overrun : WorksOn(w, j) => FilesAreReady(w)
  /\ CompletedIsConsistent

-----------------------------------------------------------------------------
LEMMA InitSimInv == SimInit => SimInv
<1> SUFFICES ASSUME SimInit PROVE SimInv
  OBVIOUS
<1>1. NoFiles \in Files
  BY DEF NoFiles, Files
<1>2. \A w \in Workers : worker[w].at \notin Working /\ worker[w] \in Position
  BY DEF SimInit, Idle, Working, Uploading, Position
<1>3. LeaseTypes
  BY <1>1, <1>2 DEF LeaseTypes, SimInit, LeaseRow, Statuses
<1>4. CompletedIsConsistent
  BY DEF SimInit, CompletedIsConsistent
<1> QED
  BY <1>2, <1>3, <1>4 DEF SimInv, LeasesAreKept, WorksOn

\* One worker holds the lease of a job.
LEMMA OneHolder ==
  ASSUME SimInv, NEW j \in Jobs \ overrun, NEW w \in Workers, NEW v \in Workers,
         WorksOn(w, j), WorksOn(v, j)
  PROVE  w = v
BY DEF SimInv, LeasesAreKept, WorksOn, HoldsLease

\* At most renewed.
SameLease(j) ==
  /\ row'[j].status = row[j].status /\ row'[j].attempt = row[j].attempt
  /\ row'[j].worker_id = row[j].worker_id /\ row'[j].hashes = row[j].hashes
  /\ row'[j].expired => row[j].expired

LEMMA Renewal ==
  ASSUME SimInv, NEW w \in Workers, worker[w].at \in Working, Heartbeat(w)
  PROVE  row' \in [Jobs -> LeaseRow] /\ \A j \in Jobs : SameLease(j)
<1> DEFINE job == worker[w].job
<1> DEFINE renewed == [row[job] EXCEPT !.expired = FALSE]
<1>1. row' = [row EXCEPT ![job] = renewed] /\ job \in Jobs /\ row \in [Jobs -> LeaseRow]
  BY DEF Heartbeat, SimInv, LeaseTypes
<1>2. row[job] \in LeaseRow
  BY <1>1
<1>3. /\ renewed \in LeaseRow /\ renewed.status = row[job].status
      /\ renewed.attempt = row[job].attempt /\ renewed.worker_id = row[job].worker_id
      /\ renewed.hashes = row[job].hashes /\ ~renewed.expired
  BY <1>2 DEF LeaseRow
<1> HIDE DEF renewed
<1>4. \A j \in Jobs : row'[j] = IF j = job THEN renewed ELSE row[j]
  BY <1>1
<1> QED
  BY <1>1, <1>3, <1>4 DEF SameLease

\* A worker goes on, or leaves its work: it may renew its lease, and changes
\* the files of its own job only.
LEMMA WorkSimInv ==
  ASSUME SimInv, NEW w \in Workers, NEW new \in Position, worker[w].at \in Working,
         worker' = [worker EXCEPT ![w] = new],
         new.at \in Working => new.job = worker[w].job /\ new.attempt = worker[w].attempt,
         row' \in [Jobs -> LeaseRow], \A j \in Jobs : SameLease(j),
         UNCHANGED overrun,
         local' \in [Jobs -> Files], staging' \in [Jobs -> Files],
         final' \in [Jobs -> Files], commit' \in [Jobs -> Files],
         \A j \in Jobs : j # worker[w].job =>
           /\ local'[j] = local[j] /\ staging'[j] = staging[j]
           /\ final'[j] = final[j] /\ commit'[j] = commit[j],
         worker[w].job \notin overrun /\ new.at \in Working => FilesAreReady(w)'
  PROVE  SimInv'
<1> DEFINE job == worker[w].job
<1>1. /\ job \in Jobs /\ row \in [Jobs -> LeaseRow] /\ worker \in [Workers -> Position]
      /\ \A v \in Workers : worker'[v] = IF v = w THEN new ELSE worker[v]
  BY DEF SimInv, LeaseTypes
<1>2. LeaseTypes'
  <2>1. worker' \in [Workers -> Position]
    BY <1>1
  <2>2. \A v \in Workers : worker'[v].at \in Working => worker'[v].job \in Jobs
    BY <1>1 DEF SimInv, LeaseTypes
  <2> QED
    BY <2>1, <2>2 DEF LeaseTypes
<1>3. \A v \in Workers, j \in Jobs : WorksOn(v, j)' => WorksOn(v, j)
  BY <1>1 DEF WorksOn
<1>4. ASSUME NEW v \in Workers, NEW j \in Jobs \ overrun, WorksOn(v, j)'
      PROVE  HoldsLease(v)' /\ ~row'[j].expired
  <2>1. HoldsLease(v) /\ ~row[j].expired /\ worker[v].job = j
    BY <1>3, <1>4 DEF SimInv, LeasesAreKept, WorksOn
  <2>2. worker'[v].job = worker[v].job /\ worker'[v].attempt = worker[v].attempt
    BY <1>1, <1>4 DEF WorksOn
  <2> QED
    BY <2>1, <2>2 DEF SameLease, HoldsLease
<1>5. ASSUME NEW v \in Workers, NEW j \in Jobs \ overrun, WorksOn(v, j)'
      PROVE  FilesAreReady(v)'
  <2>1. CASE v = w
    BY <1>1, <1>5, <2>1 DEF WorksOn
  <2>2. CASE v # w
    <3>1. worker'[v] = worker[v] /\ FilesAreReady(v)
      BY <1>1, <1>3, <1>5, <2>2 DEF SimInv
    <3>2. worker[v].job \in Jobs /\ worker[v].job # job
      BY <1>3, <1>5, <2>2, OneHolder DEF WorksOn
    <3> QED
      BY <3>1, <3>2 DEF FilesAreReady
  <2> QED
    BY <2>1, <2>2
<1>6. ASSUME NEW j \in Jobs \ overrun, row'[j].status = "COMPLETE"
      PROVE  /\ commit'[j] = row'[j].hashes /\ final'[j] = row'[j].hashes
             /\ \E c \in Accepted : row'[j].hashes = [npz |-> c, metadata |-> c]
  <2>1. row[j].status = "COMPLETE" /\ row'[j].hashes = row[j].hashes
    BY <1>6 DEF SameLease
  <2>2. j # job
    BY <2>1 DEF SimInv, LeasesAreKept, WorksOn, HoldsLease
  <2> QED
    BY <2>1, <2>2 DEF SimInv, CompletedIsConsistent
<1> QED
  BY <1>2, <1>4, <1>5, <1>6 DEF SimInv, LeasesAreKept, CompletedIsConsistent

\* A worker that is at no job comes to no job.
LEMMA IdleSimInv ==
  ASSUME SimInv, NEW w \in Workers, NEW new \in Position, worker' = [worker EXCEPT ![w] = new],
         new.at \notin Working, UNCHANGED <<row, store, overrun>>
  PROVE  SimInv'
<1>1. /\ worker \in [Workers -> Position]
      /\ \A v \in Workers : worker'[v] = IF v = w THEN new ELSE worker[v]
  BY DEF SimInv, LeaseTypes
<1>2. LeaseTypes'
  <2>1. worker' \in [Workers -> Position]
    BY <1>1
  <2> QED
    BY <1>1, <2>1 DEF SimInv, LeaseTypes, store
<1>3. ASSUME NEW v \in Workers, NEW j \in Jobs \ overrun, WorksOn(v, j)'
      PROVE  HoldsLease(v)' /\ ~row'[j].expired /\ FilesAreReady(v)'
  <2>1. WorksOn(v, j) /\ worker'[v] = worker[v]
    BY <1>1, <1>3 DEF WorksOn
  <2> QED
    BY <2>1 DEF SimInv, LeasesAreKept, HoldsLease, FilesAreReady, store
<1>4. CompletedIsConsistent'
  BY DEF SimInv, CompletedIsConsistent, store
<1> QED
  BY <1>2, <1>3, <1>4 DEF SimInv, LeasesAreKept

\* The holder settles its lease.
LEMMA SettleSimInv ==
  ASSUME SimInv, NEW w \in Workers, worker[w].at \in Working, HoldsLease(w),
         worker' = [worker EXCEPT ![w] = Idle], NEW settled \in LeaseRow,
         row' = [row EXCEPT ![worker[w].job] = settled], UNCHANGED <<store, overrun>>,
         settled.status = "COMPLETE" /\ worker[w].job \notin overrun =>
           /\ commit[worker[w].job] = settled.hashes /\ final[worker[w].job] = settled.hashes
           /\ \E c \in Accepted : settled.hashes = [npz |-> c, metadata |-> c]
  PROVE  SimInv'
<1> DEFINE job == worker[w].job
<1>1. /\ job \in Jobs /\ row \in [Jobs -> LeaseRow] /\ worker \in [Workers -> Position]
      /\ \A v \in Workers : worker'[v] = IF v = w THEN Idle ELSE worker[v]
      /\ \A j \in Jobs : row'[j] = IF j = job THEN settled ELSE row[j]
  BY DEF SimInv, LeaseTypes
<1>2. Idle \in Position /\ Idle.at \notin Working
  BY DEF Idle, Position, Working, Uploading
<1>3. LeaseTypes'
  <2>1. worker' \in [Workers -> Position] /\ row' \in [Jobs -> LeaseRow]
    BY <1>1, <1>2
  <2> QED
    BY <1>1, <1>2, <2>1 DEF SimInv, LeaseTypes, store
<1>4. ASSUME NEW v \in Workers, NEW j \in Jobs \ overrun, WorksOn(v, j)'
      PROVE  HoldsLease(v)' /\ ~row'[j].expired /\ FilesAreReady(v)'
  <2>1. v # w /\ worker'[v] = worker[v] /\ WorksOn(v, j)
    BY <1>1, <1>2, <1>4 DEF WorksOn
  <2>2. j # job
    BY <2>1, OneHolder DEF WorksOn
  <2>3. row'[j] = row[j] /\ worker[v].job = j
    BY <1>1, <2>1, <2>2 DEF WorksOn
  <2> QED
    BY <2>1, <2>3 DEF SimInv, LeasesAreKept, HoldsLease, FilesAreReady, store
<1>5. CompletedIsConsistent'
  BY <1>1 DEF SimInv, CompletedIsConsistent, store
<1> QED
  BY <1>3, <1>4, <1>5 DEF SimInv, LeasesAreKept

LEMMA AcquireSimInv ==
  ASSUME SimInv, NEW w \in Workers, Acquire(w)
  PROVE  SimInv'
<1>1. PICK job \in Jobs :
        /\ FirstClaimable(job)
        /\ row' = [row EXCEPT ![job] = LeasedTo(w, job)]
        /\ worker' = [worker EXCEPT ![w] = StartOn(job)]
  BY DEF Acquire
<1>2. /\ row \in [Jobs -> LeaseRow] /\ worker \in [Workers -> Position] /\ row[job] \in LeaseRow
      /\ UNCHANGED <<store, overrun>> /\ Claimable(row[job])
  BY <1>1 DEF SimInv, LeaseTypes, Acquire, FirstClaimable
<1>3. /\ \A v \in Workers : worker'[v] = IF v = w THEN StartOn(job) ELSE worker[v]
      /\ \A j \in Jobs : row'[j] = IF j = job THEN LeasedTo(w, job) ELSE row[j]
  BY <1>1, <1>2
<1>4. /\ StartOn(job) \in Position /\ StartOn(job).at = "start" /\ StartOn(job).job = job
      /\ StartOn(job).attempt = LeasedTo(w, job).attempt
      /\ LeasedTo(w, job) \in LeaseRow /\ LeasedTo(w, job).status = "LEASED"
      /\ LeasedTo(w, job).worker_id = w /\ ~LeasedTo(w, job).expired
  <2>1. "start" \in Working /\ row[job].attempt + 1 \in Nat
    BY <1>2 DEF Working, LeaseRow
  <2>2. /\ StartOn(job) \in Position /\ StartOn(job).at = "start" /\ StartOn(job).job = job
        /\ StartOn(job).attempt = row[job].attempt + 1
    BY <2>1 DEF StartOn, Position
  <2>3. row[job].hashes \in Files
    BY <1>2 DEF LeaseRow
  <2>4. LeasedTo(w, job) \in LeaseRow
    BY <2>1, <2>3 DEF LeasedTo, LeaseRow, Statuses
  <2> QED
    BY <2>2, <2>4 DEF LeasedTo
<1>5. LeaseTypes'
  <2>1. worker' \in [Workers -> Position] /\ row' \in [Jobs -> LeaseRow]
    BY <1>1, <1>2, <1>3, <1>4
  <2>2. \A v \in Workers : worker'[v].at \in Working => worker'[v].job \in Jobs
    BY <1>3, <1>4 DEF SimInv, LeaseTypes
  <2> QED
    BY <1>2, <2>1, <2>2 DEF SimInv, LeaseTypes, store
<1>6. ASSUME NEW v \in Workers, NEW j \in Jobs \ overrun, WorksOn(v, j)'
      PROVE  HoldsLease(v)' /\ ~row'[j].expired /\ FilesAreReady(v)'
  <2>1. CASE v = w
    BY <1>3, <1>4, <1>6, <2>1 DEF WorksOn, HoldsLease, FilesAreReady, Uploading
  <2>2. CASE v # w
    <3>1. worker'[v] = worker[v] /\ WorksOn(v, j)
      BY <1>3, <1>6, <2>2 DEF WorksOn
    <3>2. HoldsLease(v) /\ ~row[j].expired /\ worker[v].job = j /\ FilesAreReady(v)
      BY <1>2, <1>6, <3>1 DEF SimInv, LeasesAreKept, WorksOn
    <3>3. j # job
      BY <1>2, <3>2 DEF Claimable, HoldsLease
    <3> QED
      BY <1>2, <1>3, <3>1, <3>2, <3>3 DEF HoldsLease, FilesAreReady, store
  <2> QED
    BY <2>1, <2>2
<1>7. CompletedIsConsistent'
  BY <1>2, <1>3, <1>4 DEF SimInv, CompletedIsConsistent, store
<1> QED
  BY <1>2, <1>5, <1>6, <1>7 DEF SimInv, LeasesAreKept

\* Steps of run_worker that touch one file of the job, or none.
LEMMA StepSimInv ==
  ASSUME SimInv, NEW w \in Workers,
         \/ BeforeRollout(w) \/ (\E c \in Contents : AfterRollout(w, c))
         \/ WriteEpisode(w) \/ WriteMetadata(w) \/ QualityGate(w) \/ RolloutRaises(w)
         \/ ReadMetadata(w) \/ CopyToStaging(w) \/ RemoveFinal(w) \/ ReplaceFinal(w)
         \/ WriteCommit(w) \/ UploadRaises(w) \/ LeaseLost(w) \/ LoseWorker(w)
  PROVE  SimInv'
<1> DEFINE job == worker[w].job
<1> DEFINE Step(new) ==
      /\ worker[w].at \in Working /\ new \in Position /\ worker' = [worker EXCEPT ![w] = new]
      /\ new.at \in Working => new.job = job /\ new.attempt = worker[w].attempt
      /\ UNCHANGED overrun
<1> DEFINE Writes ==
      /\ local' \in [Jobs -> Files] /\ staging' \in [Jobs -> Files]
      /\ final' \in [Jobs -> Files] /\ commit' \in [Jobs -> Files]
      /\ \A j \in Jobs : j # job =>
           /\ local'[j] = local[j] /\ staging'[j] = staging[j]
           /\ final'[j] = final[j] /\ commit'[j] = commit[j]
<1>1. /\ worker \in [Workers -> Position] /\ worker[w] \in Position
      /\ row \in [Jobs -> LeaseRow] /\ \A f \in {local, staging, final, commit} : f \in [Jobs -> Files]
      /\ NoFiles \in Files
      /\ worker[w].at \in Working => job \in Jobs
      /\ worker[w].at \in Working /\ job \notin overrun => FilesAreReady(w)
  BY DEF SimInv, LeaseTypes, WorksOn, NoFiles, Files
<1>2. row' = row => row' \in [Jobs -> LeaseRow] /\ \A j \in Jobs : SameLease(j)
  BY <1>1 DEF SameLease
<1>3. UNCHANGED store => Writes
  BY <1>1 DEF store
<1>4. ASSUME NEW next \in Working \cup {"ended"}, worker[w].at \in Working, Goto(w, next),
             row' \in [Jobs -> LeaseRow], \A j \in Jobs : SameLease(j), UNCHANGED overrun, Writes,
             job \notin overrun /\ next \in Working => FilesAreReady(w)'
      PROVE  SimInv'
  <2> DEFINE new == [worker[w] EXCEPT !.at = next]
  <2>1. worker' = [worker EXCEPT ![w] = new]
    BY <1>4 DEF Goto
  <2>2. /\ new \in Position /\ new.at = next /\ new.job = job
        /\ new.attempt = worker[w].attempt
    BY <1>1 DEF Position
  <2> HIDE DEF new
  <2> QED
    BY <1>4, <2>1, <2>2, WorkSimInv
<1>5. ASSUME NEW next, Goto(w, next)
      PROVE  /\ worker'[w].at = next /\ worker'[w].job = job
             /\ worker'[w].raw = worker[w].raw
  BY <1>1, <1>5 DEF Goto, Position
<1> HIDE DEF Writes
<1>6. CASE BeforeRollout(w)
  <2>1. worker[w].at \in Working /\ "rollout" \in Working /\ Goto(w, "rollout") /\ Heartbeat(w)
    BY <1>6 DEF BeforeRollout, Working
  <2>2. FilesAreReady(w)'
    BY <1>5, <2>1 DEF FilesAreReady, Uploading
  <2> QED
    BY <1>3, <1>4, <1>6, <2>1, <2>2, Renewal DEF BeforeRollout
<1>7. CASE \E c \in Contents : AfterRollout(w, c)
  <2>1. PICK c \in Contents : AfterRollout(w, c)
    BY <1>7
  <2> DEFINE new == [worker[w] EXCEPT !.at = "write", !.raw = c]
  <2>2. /\ worker[w].at = "rollout" /\ Heartbeat(w) /\ UNCHANGED <<store, overrun>>
        /\ worker' = [worker EXCEPT ![w] = new]
    BY <2>1, Zenon DEF AfterRollout
  <2>3. /\ new \in Position /\ new.at = "write" /\ new.job = job
        /\ new.attempt = worker[w].attempt
    BY <1>1 DEF Position, Working
  <2>4. FilesAreReady(w)'
    BY <1>1, <2>2, <2>3 DEF FilesAreReady, Uploading
  <2> HIDE DEF new
  <2>5. Writes /\ worker[w].at \in Working
    BY <1>3, <2>2 DEF Working
  <2> QED
    BY <2>2, <2>3, <2>4, <2>5, Renewal, WorkSimInv DEF Writes
<1>8. CASE WriteEpisode(w)
  <2>1. /\ worker[w].at = "write" /\ Goto(w, "describe")
        /\ local' = [local EXCEPT ![job].npz = worker[w].raw]
        /\ UNCHANGED <<row, staging, final, commit, overrun>>
    BY <1>8 DEF WriteEpisode
  <2>2. worker[w].at \in Working /\ "describe" \in Working /\ job \in Jobs
    BY <1>1, <2>1 DEF Working
  <2>3. local'[job].npz = worker[w].raw /\ local'[job] \in Files
    BY <1>1, <2>1, <2>2 DEF Files, Position
  <2>4. Writes
    BY <1>1, <2>1, <2>2, <2>3 DEF Writes
  <2>5. FilesAreReady(w)'
    BY <1>5, <2>1, <2>3 DEF FilesAreReady, Uploading
  <2> QED
    BY <1>2, <1>4, <2>1, <2>2, <2>4, <2>5
<1>9. CASE WriteMetadata(w)
  <2>1. /\ worker[w].at = "describe" /\ Goto(w, "gate")
        /\ local' = [local EXCEPT ![job].metadata = worker[w].raw]
        /\ UNCHANGED <<row, staging, final, commit, overrun>>
    BY <1>9 DEF WriteMetadata
  <2>2. worker[w].at \in Working /\ "gate" \in Working /\ job \in Jobs
    BY <1>1, <2>1 DEF Working
  <2>3. /\ local'[job].metadata = worker[w].raw /\ local'[job] \in Files
        /\ local'[job].npz = local[job].npz
    BY <1>1, <2>1, <2>2 DEF Files, Position
  <2>4. Writes
    BY <1>1, <2>1, <2>2, <2>3 DEF Writes
  <2>5. ASSUME job \notin overrun
        PROVE  FilesAreReady(w)'
    <3>1. local[job].npz = worker[w].raw
      BY <1>1, <2>1, <2>2, <2>5 DEF FilesAreReady
    <3>2. local'[job] = [npz |-> worker[w].raw, metadata |-> worker[w].raw]
      BY <2>3, <3>1 DEF Files
    <3> QED
      BY <1>5, <2>1, <3>2 DEF FilesAreReady, Uploading
  <2> QED
    BY <1>2, <1>4, <2>1, <2>2, <2>4, <2>5
<1>10. CASE QualityGate(w) \/ RolloutRaises(w) \/ LeaseLost(w) \/ LoseWorker(w) \/ ReadMetadata(w)
  <2>1. PICK next \in {"upload", "except", "ended", "stage"} :
          /\ Goto(w, next) /\ worker[w].at \in Working
          /\ next = "upload" => worker[w].at = "gate" /\ worker[w].raw \in Accepted
          /\ next = "stage" => worker[w].at = "upload"
    BY <1>10 DEF QualityGate, RolloutRaises, LeaseLost, LoseWorker, ReadMetadata, Working, Uploading
  <2>2. UNCHANGED <<row, store, overrun>>
    BY <1>10 DEF QualityGate, RolloutRaises, LeaseLost, LoseWorker, ReadMetadata
  <2>3. next \in Working \cup {"ended"}
    BY DEF Working, Uploading
  <2>4. ASSUME job \notin overrun
        PROVE  FilesAreReady(w)'
    <3>1. FilesAreReady(w)
      BY <1>1, <2>1, <2>4
    <3> QED
      BY <1>5, <2>1, <2>2, <3>1 DEF FilesAreReady, Uploading, store
  <2> QED
    BY <1>2, <1>3, <1>4, <2>1, <2>2, <2>3, <2>4
<1>11. CASE CopyToStaging(w)
  <2>1. /\ worker[w].at = "stage" /\ Goto(w, "remove")
        /\ staging' = [staging EXCEPT ![job] = local[job]]
        /\ UNCHANGED <<row, local, final, commit, overrun>>
    BY <1>11 DEF CopyToStaging
  <2>2. worker[w].at \in Working /\ "remove" \in Working /\ job \in Jobs
    BY <1>1, <2>1 DEF Working, Uploading
  <2>3. Writes
    BY <1>1, <2>1, <2>2 DEF Writes
  <2>4. ASSUME job \notin overrun
        PROVE  FilesAreReady(w)'
    <3>1. FilesAreReady(w)
      BY <1>1, <2>2, <2>4
    <3>2. staging'[job] = local'[job]
      BY <1>1, <2>1, <2>2
    <3> QED
      BY <1>5, <2>1, <3>1, <3>2 DEF FilesAreReady, Uploading
  <2> QED
    BY <1>2, <1>4, <2>1, <2>2, <2>3, <2>4
<1>12. CASE RemoveFinal(w)
  <2>1. /\ worker[w].at = "remove" /\ Goto(w, "replace")
        /\ final' = [final EXCEPT ![job] = NoFiles]
        /\ UNCHANGED <<row, local, staging, commit, overrun>>
    BY <1>12 DEF RemoveFinal
  <2>2. worker[w].at \in Working /\ "replace" \in Working /\ job \in Jobs
    BY <1>1, <2>1 DEF Working, Uploading
  <2>3. Writes
    BY <1>1, <2>1, <2>2 DEF Writes
  <2>4. ASSUME job \notin overrun
        PROVE  FilesAreReady(w)'
    <3>1. FilesAreReady(w)
      BY <1>1, <2>2, <2>4
    <3> QED
      BY <1>5, <2>1, <3>1 DEF FilesAreReady, Uploading
  <2> QED
    BY <1>2, <1>4, <2>1, <2>2, <2>3, <2>4
<1>13. CASE ReplaceFinal(w)
  <2>1. /\ worker[w].at = "replace" /\ Goto(w, "commit")
        /\ final' = [final EXCEPT ![job] = staging[job]]
        /\ staging' = [staging EXCEPT ![job] = NoFiles]
        /\ UNCHANGED <<row, local, commit, overrun>>
    BY <1>13 DEF ReplaceFinal
  <2>2. worker[w].at \in Working /\ "commit" \in Working /\ job \in Jobs
    BY <1>1, <2>1 DEF Working, Uploading
  <2>3. Writes
    BY <1>1, <2>1, <2>2 DEF Writes
  <2>4. ASSUME job \notin overrun
        PROVE  FilesAreReady(w)'
    <3>1. FilesAreReady(w)
      BY <1>1, <2>2, <2>4
    <3>2. final'[job] = staging[job]
      BY <1>1, <2>1, <2>2
    <3> QED
      BY <1>5, <2>1, <3>1, <3>2 DEF FilesAreReady, Uploading
  <2> QED
    BY <1>2, <1>4, <2>1, <2>2, <2>3, <2>4
<1>14. CASE WriteCommit(w)
  <2>1. /\ worker[w].at = "commit" /\ Goto(w, "complete")
        /\ commit' = [commit EXCEPT ![job] = local[job]]
        /\ UNCHANGED <<row, local, staging, final, overrun>>
    BY <1>14 DEF WriteCommit
  <2>2. worker[w].at \in Working /\ "complete" \in Working /\ job \in Jobs
    BY <1>1, <2>1 DEF Working, Uploading
  <2>3. Writes
    BY <1>1, <2>1, <2>2 DEF Writes
  <2>4. ASSUME job \notin overrun
        PROVE  FilesAreReady(w)'
    <3>1. FilesAreReady(w)
      BY <1>1, <2>2, <2>4
    <3>2. commit'[job] = local'[job]
      BY <1>1, <2>1, <2>2
    <3> QED
      BY <1>5, <2>1, <3>1, <3>2 DEF FilesAreReady, Uploading
  <2> QED
    BY <1>2, <1>4, <2>1, <2>2, <2>3, <2>4
<1>15. CASE UploadRaises(w)
  <2> DEFINE again == [worker[w] EXCEPT !.at = "upload", !.tries = worker[w].tries + 1]
  <2> DEFINE raised == [worker[w] EXCEPT !.at = "except"]
  <2>1. /\ worker[w].at \in Uploading /\ UNCHANGED <<row, store, overrun>>
        /\ worker' = [worker EXCEPT ![w] = again] \/ worker' = [worker EXCEPT ![w] = raised]
    BY <1>15 DEF UploadRaises
  <2>2. /\ worker[w].at \in Working /\ "upload" \in Working /\ "except" \in Working
        /\ worker[w].tries + 1 \in Nat
    BY <1>1, <2>1 DEF Position, Working, Uploading
  <2>3. /\ again \in Position /\ again.at = "upload" /\ again.job = job
        /\ again.attempt = worker[w].attempt /\ again.raw = worker[w].raw
    BY <1>1, <2>2 DEF Position
  <2>4. /\ raised \in Position /\ raised.at = "except" /\ raised.job = job
        /\ raised.attempt = worker[w].attempt
    BY <1>1, <2>2 DEF Position
  <2> HIDE DEF again, raised
  <2>5. ASSUME job \notin overrun
        PROVE  FilesAreReady(w)'
    <3>1. FilesAreReady(w)
      BY <1>1, <2>2, <2>5
    <3>2. worker'[w] \in {again, raised}
      BY <1>1, <2>1
    <3> QED
      BY <2>1, <2>3, <2>4, <3>1, <3>2 DEF FilesAreReady, Uploading, store
  <2> QED
    BY <1>2, <1>3, <2>1, <2>2, <2>3, <2>4, <2>5, WorkSimInv DEF Writes
<1> QED
  BY <1>6, <1>7, <1>8, <1>9, <1>10, <1>11, <1>12, <1>13, <1>14, <1>15

LEMMA CompleteSimInv ==
  ASSUME SimInv, NEW w \in Workers, Complete(w)
  PROVE  SimInv'
<1> DEFINE job == worker[w].job
<1> DEFINE settled == [row[job] EXCEPT !.status = "COMPLETE", !.expired = FALSE,
                                       !.hashes = local[job]]
<1>1. /\ worker[w].at = "complete" /\ HoldsLease(w) /\ row' = [row EXCEPT ![job] = settled]
      /\ worker' = [worker EXCEPT ![w] = Idle] /\ UNCHANGED <<store, overrun>>
  BY DEF Complete
<1>2. worker[w].at \in Working /\ job \in Jobs /\ row[job] \in LeaseRow /\ local[job] \in Files
  BY <1>1 DEF SimInv, LeaseTypes, Working
<1>3. settled \in LeaseRow /\ settled.hashes = local[job]
  BY <1>2 DEF LeaseRow, Statuses
<1>4. ASSUME job \notin overrun
      PROVE  /\ commit[job] = local[job] /\ final[job] = local[job]
             /\ \E c \in Accepted : local[job] = [npz |-> c, metadata |-> c]
  BY <1>1, <1>2, <1>4 DEF SimInv, WorksOn, FilesAreReady
<1> HIDE DEF settled
<1> QED
  BY <1>1, <1>2, <1>3, <1>4, SettleSimInv

LEMMA RetrySimInv ==
  ASSUME SimInv, NEW w \in Workers, Retry(w)
  PROVE  SimInv'
<1> DEFINE job == worker[w].job
<1> DEFINE settled == [row[job] EXCEPT !.status = RetryStatus(worker[w].attempt), !.expired = FALSE]
<1>1. /\ worker[w].at = "except" /\ HoldsLease(w) /\ row' = [row EXCEPT ![job] = settled]
      /\ worker' = [worker EXCEPT ![w] = Idle] /\ UNCHANGED <<store, overrun>>
  BY DEF Retry
<1>2. worker[w].at \in Working /\ job \in Jobs /\ row[job] \in LeaseRow
  BY <1>1 DEF SimInv, LeaseTypes, Working
<1>3. settled \in LeaseRow /\ settled.status # "COMPLETE"
  BY <1>2 DEF LeaseRow, Statuses, RetryStatus
<1> HIDE DEF settled
<1> QED
  BY <1>1, <1>2, <1>3, SettleSimInv

LEMMA RegisterSimInv ==
  ASSUME SimInv, NEW job \in Jobs, Register(job)
  PROVE  SimInv'
<1> DEFINE new == [row[job] EXCEPT !.status = "PENDING"]
<1>1. /\ row[job].status = "ABSENT" /\ row' = [row EXCEPT ![job] = new]
      /\ UNCHANGED <<worker, store, overrun>>
  BY DEF Register
<1>2. row \in [Jobs -> LeaseRow] /\ row[job] \in LeaseRow
  BY DEF SimInv, LeaseTypes
<1>3. new \in LeaseRow /\ new.status = "PENDING"
  BY <1>2 DEF LeaseRow, Statuses
<1> HIDE DEF new
<1>4. \A j \in Jobs : row'[j] = IF j = job THEN new ELSE row[j]
  BY <1>1, <1>2
<1>5. LeaseTypes'
  <2>1. row' \in [Jobs -> LeaseRow]
    BY <1>1, <1>2, <1>3
  <2> QED
    BY <1>1, <2>1 DEF SimInv, LeaseTypes, store
<1>6. ASSUME NEW v \in Workers, NEW j \in Jobs \ overrun, WorksOn(v, j)'
      PROVE  HoldsLease(v)' /\ ~row'[j].expired /\ FilesAreReady(v)'
  <2>1. WorksOn(v, j) /\ HoldsLease(v) /\ ~row[j].expired /\ FilesAreReady(v)
    BY <1>1, <1>6 DEF SimInv, LeasesAreKept, WorksOn
  <2>2. row'[j] = row[j] /\ worker[v].job = j
    BY <1>1, <1>4, <2>1 DEF HoldsLease, WorksOn
  <2> QED
    BY <1>1, <2>1, <2>2 DEF HoldsLease, FilesAreReady, store
<1>7. CompletedIsConsistent'
  BY <1>1, <1>3, <1>4 DEF SimInv, CompletedIsConsistent, store
<1> QED
  BY <1>1, <1>5, <1>6, <1>7 DEF SimInv, LeasesAreKept

\* A lease expires under its live holder, whose job is then of the overrun, or
\* after everybody left the job.
LEMMA ExpirySimInv ==
  ASSUME SimInv, NEW job \in Jobs, LeaseExpires(job)
  PROVE  SimInv'
<1> DEFINE new == [row[job] EXCEPT !.expired = TRUE]
<1>1. /\ row[job].status = "LEASED" /\ row' = [row EXCEPT ![job] = new]
      /\ UNCHANGED <<worker, store>> /\ overrun \subseteq overrun'
      /\ AtWork(job) => job \in overrun'
  BY DEF LeaseExpires
<1>2. row \in [Jobs -> LeaseRow] /\ row[job] \in LeaseRow
  BY DEF SimInv, LeaseTypes
<1>3. /\ new \in LeaseRow /\ new.status = "LEASED"
  BY <1>1, <1>2 DEF LeaseRow
<1> HIDE DEF new
<1>4. \A j \in Jobs : row'[j] = IF j = job THEN new ELSE row[j]
  BY <1>1, <1>2
<1>5. LeaseTypes'
  <2>1. row' \in [Jobs -> LeaseRow]
    BY <1>1, <1>2, <1>3
  <2> QED
    BY <1>1, <2>1 DEF SimInv, LeaseTypes, store
<1>6. ASSUME NEW v \in Workers, NEW j \in Jobs \ overrun', WorksOn(v, j)'
      PROVE  HoldsLease(v)' /\ ~row'[j].expired /\ FilesAreReady(v)'
  <2>1. j \notin overrun /\ WorksOn(v, j)
    BY <1>1, <1>6 DEF WorksOn
  <2>2. HoldsLease(v) /\ ~row[j].expired /\ FilesAreReady(v)
    BY <2>1 DEF SimInv, LeasesAreKept
  <2>3. j # job
    BY <1>1, <1>6, <2>1, <2>2 DEF AtWork, WorksOn
  <2>4. row'[j] = row[j] /\ worker[v].job = j
    BY <1>4, <2>1, <2>3 DEF WorksOn
  <2> QED
    BY <1>1, <2>2, <2>4 DEF HoldsLease, FilesAreReady, store
<1>7. CompletedIsConsistent'
  BY <1>1, <1>3, <1>4 DEF SimInv, CompletedIsConsistent, store
<1> QED
  BY <1>5, <1>6, <1>7 DEF SimInv, LeasesAreKept

LEMMA NextSimInv == SimInv /\ [SimNext]_vars => SimInv'
<1> SUFFICES ASSUME SimInv, [SimNext]_vars PROVE SimInv'
  OBVIOUS
<1>1. ASSUME NEW w \in Workers, NothingToAcquire(w) \/ Restart(w)
      PROVE  SimInv'
  <2> DEFINE ended == [worker[w] EXCEPT !.at = "ended"]
  <2>1. worker[w] \in Position
    BY DEF SimInv, LeaseTypes
  <2>2. /\ ended \in Position /\ ended.at \notin Working
        /\ Idle \in Position /\ Idle.at \notin Working
    BY <2>1 DEF Position, Idle, Working, Uploading
  <2>3. /\ worker' = [worker EXCEPT ![w] = ended] \/ worker' = [worker EXCEPT ![w] = Idle]
        /\ UNCHANGED <<row, store, overrun>>
    BY <1>1 DEF NothingToAcquire, Restart
  <2> HIDE DEF ended
  <2> QED
    BY <2>2, <2>3, IdleSimInv
<1>2. CASE UNCHANGED vars
  <2>1. UNCHANGED <<row, worker, local, staging, final, commit, overrun>>
    BY <1>2 DEF vars, store
  <2> QED
    BY <2>1 DEF SimInv, LeaseTypes, LeasesAreKept, WorksOn, HoldsLease, FilesAreReady,
       CompletedIsConsistent
<1> QED
  BY <1>1, <1>2, AcquireSimInv, StepSimInv, CompleteSimInv, RetrySimInv, RegisterSimInv,
     ExpirySimInv DEF SimNext, WorkerStep

\* The inductive invariant: leases are exclusive, and each step of a worker
\* finds the files as its earlier steps left them.
THEOREM SimInvCorrect == SimSpec => []SimInv
BY InitSimInv, NextSimInv, PTL DEF SimSpec

\* A COMPLETE row, the commit manifest and the visible episode agree, whatever
\* was lost during earlier attempts.
THEOREM CompletedCorrect == SimSpec => []CompletedIsConsistent
<1>1. SimInv => CompletedIsConsistent
  BY DEF SimInv
<1> QED
  BY <1>1, SimInvCorrect, PTL

-----------------------------------------------------------------------------
LEMMA NextSettled ==
  ASSUME SimInv, [SimNext]_vars, NEW j \in Jobs
  PROVE  /\ row[j].status \in {"COMPLETE", "QUARANTINED"} => row'[j] = row[j]
         /\ row'[j].attempt # row[j].attempt => row'[j].attempt = row[j].attempt + 1
         /\ row[j].status = "LEASED" /\ row'[j].status # "LEASED" =>
              \E w \in Workers : /\ worker[w].job = j /\ worker[w].attempt = row[j].attempt
                                 /\ worker[w].at \in {"complete", "except"}
                                 /\ worker'[w].at = "acquire"
<1>1. row \in [Jobs -> LeaseRow] /\ row[j] \in LeaseRow /\ worker \in [Workers -> Position]
  BY DEF SimInv, LeaseTypes
<1>2. CASE row' = row
  BY <1>2
<1>3. ASSUME NEW w \in Workers, Acquire(w)
      PROVE  row'[j] = row[j]
             \/ (Claimable(row[j]) /\ row'[j] = LeasedTo(w, j))
  <2>1. PICK i \in Jobs : Claimable(row[i]) /\ row' = [row EXCEPT ![i] = LeasedTo(w, i)]
    BY <1>3 DEF Acquire, FirstClaimable
  <2>2. row'[j] = IF j = i THEN LeasedTo(w, i) ELSE row[j]
    BY <1>1, <2>1
  <2> QED
    BY <2>1, <2>2 DEF Claimable, LeasedTo
<1>4. ASSUME NEW w \in Workers, Acquire(w)
      PROVE  row'[j] = row[j]
             \/ /\ row[j].status \notin {"COMPLETE", "QUARANTINED"}
                /\ row'[j].attempt = row[j].attempt + 1 /\ row'[j].status = "LEASED"
  <2>1. row'[j] = row[j] \/ (Claimable(row[j]) /\ row'[j] = LeasedTo(w, j))
    BY <1>3, <1>4
  <2> QED
    BY <2>1 DEF Claimable, LeasedTo
<1>5. ASSUME NEW w \in Workers, worker[w].at \in Working, Heartbeat(w)
      PROVE  /\ row'[j].attempt = row[j].attempt /\ row'[j].status = row[j].status
             /\ row[j].status \in {"COMPLETE", "QUARANTINED"} => row'[j] = row[j]
  <2>1. row[worker[w].job].status = "LEASED" /\ row' = [row EXCEPT ![worker[w].job].expired = FALSE]
    BY <1>5 DEF Heartbeat, HoldsLease
  <2>2. j # worker[w].job => row'[j] = row[j]
    BY <1>1, <2>1
  <2> QED
    BY <1>5, <2>1, <2>2, Renewal DEF SameLease
<1>6. ASSUME NEW w \in Workers, BeforeRollout(w) \/ \E c \in Contents : AfterRollout(w, c)
      PROVE  worker[w].at \in Working /\ Heartbeat(w)
  <2>1. worker[w].at \in {"start", "rollout"} /\ Heartbeat(w)
    BY <1>6, Zenon DEF BeforeRollout, AfterRollout
  <2> QED
    BY <2>1 DEF Working
<1>7. ASSUME NEW w \in Workers, Complete(w) \/ Retry(w)
      PROVE  row'[j] = row[j]
             \/ /\ row[j].status = "LEASED" /\ row'[j].attempt = row[j].attempt
                /\ worker[w].job = j /\ worker[w].attempt = row[j].attempt
                /\ worker[w].at \in {"complete", "except"} /\ worker'[w].at = "acquire"
  <2>1. /\ HoldsLease(w) /\ worker[w].at \in {"complete", "except"}
        /\ worker' = [worker EXCEPT ![w] = Idle]
    BY <1>7 DEF Complete, Retry
  <2>2. worker'[w].at = "acquire"
    BY <1>1, <2>1 DEF Idle
  <2>3. CASE worker[w].job # j
    BY <1>1, <1>7, <2>3 DEF Complete, Retry
  <2>4. CASE worker[w].job = j
    <3> DEFINE completed == [row[j] EXCEPT !.status = "COMPLETE", !.expired = FALSE,
                                           !.hashes = local[j]]
    <3> DEFINE retried == [row[j] EXCEPT !.status = RetryStatus(worker[w].attempt),
                                         !.expired = FALSE]
    <3>1. completed.attempt = row[j].attempt /\ retried.attempt = row[j].attempt
      BY <1>1 DEF LeaseRow
    <3>2. row' = [row EXCEPT ![j] = completed] \/ row' = [row EXCEPT ![j] = retried]
      BY <1>7, <2>4 DEF Complete, Retry
    <3> HIDE DEF completed, retried
    <3>3. row'[j].attempt = row[j].attempt
      BY <1>1, <3>1, <3>2
    <3> QED
      BY <2>1, <2>2, <2>4, <3>3 DEF HoldsLease
  <2> QED
    BY <2>3, <2>4
<1>8. ASSUME NEW i \in Jobs, Register(i) \/ LeaseExpires(i)
      PROVE  row'[j] = row[j]
             \/ /\ row[j].status \in {"ABSENT", "LEASED"} /\ row'[j].attempt = row[j].attempt
                /\ row[j].status = "LEASED" => row'[j].status = "LEASED"
  <2>1. CASE i # j
    BY <1>1, <1>8, <2>1 DEF Register, LeaseExpires
  <2>2. CASE i = j
    BY <1>1, <1>8, <2>2 DEF Register, LeaseExpires, LeaseRow
  <2> QED
    BY <2>1, <2>2
<1>9. row' = row
      \/ (\E w \in Workers : \/ Acquire(w) \/ BeforeRollout(w) \/ Complete(w) \/ Retry(w)
                             \/ \E c \in Contents : AfterRollout(w, c))
      \/ (\E i \in Jobs : Register(i) \/ LeaseExpires(i))
  <2>1. ASSUME NEW w \in Workers,
               \/ NothingToAcquire(w) \/ LeaseLost(w) \/ WriteEpisode(w) \/ WriteMetadata(w)
               \/ QualityGate(w) \/ RolloutRaises(w) \/ ReadMetadata(w) \/ CopyToStaging(w)
               \/ RemoveFinal(w) \/ ReplaceFinal(w) \/ WriteCommit(w) \/ UploadRaises(w)
               \/ Restart(w) \/ LoseWorker(w)
        PROVE  row' = row
    BY <2>1, Zenon DEF NothingToAcquire, LeaseLost, WriteEpisode, WriteMetadata, QualityGate,
       RolloutRaises, ReadMetadata, CopyToStaging, RemoveFinal, ReplaceFinal, WriteCommit,
       UploadRaises, Restart, LoseWorker
  <2> QED
    BY <2>1, Zenon DEF SimNext, WorkerStep, vars
<1> QED
  <2>1. CASE \E w \in Workers : Acquire(w)
    BY <1>1, <1>2, <1>4, <2>1
  <2>2. CASE \E w \in Workers : BeforeRollout(w) \/ \E c \in Contents : AfterRollout(w, c)
    BY <1>5, <1>6, <2>2
  <2>3. CASE \E w \in Workers : Complete(w) \/ Retry(w)
    BY <1>7, <2>3
  <2>4. CASE \E i \in Jobs : Register(i) \/ LeaseExpires(i)
    BY <1>8, <2>4
  <2> QED
    BY <1>2, <1>9, <2>1, <2>2, <2>3, <2>4

\* Attempts are given out once and in order, a lease is settled only by the
\* worker of the latest, and settled rows never change.
THEOREM SettledCorrect == SimSpec => SettledByLatestLease
<1>1. SimInv /\ [SimNext]_vars =>
        [\A j \in Jobs :
           /\ row[j].status \in {"COMPLETE", "QUARANTINED"} => row'[j] = row[j]
           /\ row'[j].attempt # row[j].attempt => row'[j].attempt = row[j].attempt + 1
           /\ row[j].status = "LEASED" /\ row'[j].status # "LEASED" =>
                \E w \in Workers : /\ worker[w].job = j /\ worker[w].attempt = row[j].attempt
                                   /\ worker[w].at \in {"complete", "except"}
                                   /\ worker'[w].at = "acquire"]_vars
  BY NextSettled
<1> QED
  BY <1>1, SimInvCorrect, PTL DEF SimSpec, SettledByLatestLease
=============================================================================
