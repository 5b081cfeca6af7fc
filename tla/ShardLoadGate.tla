--------------------------- MODULE ShardLoadGate ---------------------------
(***************************************************************************)
(* ThreadSafeVerifiedShardGate and ThreadSafeAdmission of                  *)
(* threadsafe_checkpoint_load_gate.py: threads that load checkpoint shards *)
(* through a verified cache, with one flight per key and a bounded number  *)
(* of concurrent durable reads.                                            *)
(*                                                                         *)
(* A step is what one thread does while it holds one of the two Condition  *)
(* locks, or its private work between two such sections.  A thread that    *)
(* waits on a Condition is notified by every change that could let it go   *)
(* on, so waiting is a guard here.  Payload bytes and their SHA-256 are    *)
(* one value (hashes do not collide), and monotonic time is a counter of   *)
(* ticks.  GateStats and max_inflight are counters that no branch reads.   *)
(***************************************************************************)
EXTENDS Integers, FiniteSets

CONSTANTS
  Threads,         \* threads that call load
  Keys,            \* shard keys
  Payloads,        \* shard contents, each its own SHA-256
  Requests,        \* pairs <<key, expected_sha256>> that callers use
  Timeouts,        \* values of timeout_seconds
  Limits,          \* values given to set_limit, and the initial limit
  NoBytes,         \* no payload: an exception, an empty cache slot
  MaxTime,         \* bound on the clock
  MaxGenerations   \* bound on the number of flights

ASSUME GateAssumption ==
  /\ IsFiniteSet(Threads)
  /\ Requests \subseteq Keys \X Payloads
  /\ Timeouts \subseteq Nat \ {0}
  /\ Limits \subseteq Nat \ {0}
  /\ NoBytes \notin Payloads
  /\ MaxTime \in Nat /\ MaxGenerations \in Nat

VARIABLES
  cache,                \* key -> bytes of the cache map, NoBytes when absent
  cache_reads_enabled,
  flights,              \* key -> generation of the mapped flight, 0 for none
  flight,               \* generation -> the _Flight object
  limit, inflight,      \* ThreadSafeAdmission
  now,                  \* time.monotonic()
  call                  \* thread -> its position in load and its locals

vars == <<cache, cache_reads_enabled, flights, flight, limit, inflight, now, call>>

Bytes == Payloads \cup {NoBytes}

\* payload = NoBytes in a done flight means that error is set.
Flight == [deadline : Nat, done : BOOLEAN, payload : Bytes]

\* at "admit": leader before admission.acquire; "loader": inside the token's
\* try block; "release": in its finally; "publish" / "except": before the
\* final section of load; "wait": follower; "out": the call returned bytes,
\* or raised if bytes = NoBytes, or has not been made.
Call == [at : {"admit", "loader", "release", "publish", "except", "wait", "out"},
         request : Requests, deadline : Nat, generation : Nat, bytes : Bytes]

KeyOf(t) == call[t].request[1]
Expected(t) == call[t].request[2]
Ended(req, b) == [at |-> "out", request |-> req, deadline |-> 0, generation |-> 0, bytes |-> b]

GateInit ==
  /\ cache = [k \in Keys |-> NoBytes]
  /\ cache_reads_enabled = TRUE
  /\ flights = [k \in Keys |-> 0]
  /\ flight = [g \in {} |-> NoBytes]
  /\ limit \in Limits
  /\ inflight = 0
  /\ now = 0
  /\ call \in [Threads -> {Ended(req, NoBytes) : req \in Requests}]

-----------------------------------------------------------------------------
(* load, first section: cache, flight map, election. *)

CacheHitUnverified(req) == cache_reads_enabled /\ cache[req[1]] # NoBytes
CacheHit(req) == cache_reads_enabled /\ cache[req[1]] = req[2]

\* The cache after the lookup: an entry that fails verification is dropped.
CacheAfterLookup(req) ==
  IF cache_reads_enabled /\ cache[req[1]] # req[2]
    THEN [cache EXCEPT ![req[1]] = NoBytes]
    ELSE cache

HasFlight(k) == flights[k] # 0
LeaseExpired(k) == ~flight[flights[k]].done /\ now >= flight[flights[k]].deadline
next_generation == Cardinality(DOMAIN flight)

LoadFromCache(t, req) ==
  /\ call[t].at = "out"
  /\ CacheHit(req)
  /\ call' = [call EXCEPT ![t] = Ended(req, cache[req[1]])]
  /\ UNCHANGED <<cache, cache_reads_enabled, flights, flight, limit, inflight, now>>

JoinFlight(t, req, timeout) ==
  /\ call[t].at = "out"
  /\ now + timeout <= MaxTime
  /\ ~CacheHit(req)
  /\ HasFlight(req[1])
  /\ ~LeaseExpired(req[1])
  /\ cache' = CacheAfterLookup(req)
  /\ call' = [call EXCEPT ![t] = [at |-> "wait", request |-> req, deadline |-> now + timeout,
                                  generation |-> flights[req[1]], bytes |-> NoBytes]]
  /\ UNCHANGED <<cache_reads_enabled, flights, flight, limit, inflight, now>>

\* The election of a leader, which fences an expired flight first.
LeadFlight(t, req, timeout) ==
  /\ call[t].at = "out"
  /\ now + timeout <= MaxTime
  /\ next_generation < MaxGenerations
  /\ ~CacheHit(req)
  /\ HasFlight(req[1]) => LeaseExpired(req[1])
  /\ LET k == req[1]
         g == next_generation + 1
         new == [deadline |-> now + timeout, done |-> FALSE, payload |-> NoBytes]
     IN /\ flight' = [h \in DOMAIN flight \cup {g} |->
                        IF h = g THEN new
                        ELSE IF h = flights[k] THEN [flight[h] EXCEPT !.done = TRUE]
                        ELSE flight[h]]
        /\ flights' = [flights EXCEPT ![k] = g]
        /\ call' = [call EXCEPT ![t] = [at |-> "admit", request |-> req, deadline |-> now + timeout,
                                        generation |-> g, bytes |-> NoBytes]]
  /\ cache' = CacheAfterLookup(req)
  /\ UNCHANGED <<cache_reads_enabled, limit, inflight, now>>

-----------------------------------------------------------------------------
(* load, the follower's wait. *)

FollowerReturn(t) ==
  /\ call[t].at = "wait"
  /\ flight[call[t].generation].done
  /\ call' = [call EXCEPT ![t] = Ended(call[t].request, flight[call[t].generation].payload)]
  /\ UNCHANGED <<cache, cache_reads_enabled, flights, flight, limit, inflight, now>>

WaitExpiredNever(t) == FALSE
WaitExpired(t) == now >= call[t].deadline

FollowerTimeout(t) ==
  /\ call[t].at = "wait"
  /\ ~flight[call[t].generation].done
  /\ WaitExpired(t)
  /\ call' = [call EXCEPT ![t] = Ended(call[t].request, NoBytes)]
  /\ UNCHANGED <<cache, cache_reads_enabled, flights, flight, limit, inflight, now>>

-----------------------------------------------------------------------------
(* load, the leader's durable read under an admission token. *)

FreeToken == inflight < limit

\* The wait of acquire is max(0.001, deadline - before), so a token that is
\* free is taken even when the deadline has passed.
Acquire(t) ==
  /\ call[t].at = "admit"
  /\ FreeToken
  /\ inflight' = inflight + 1
  /\ call' = [call EXCEPT ![t].at = "loader"]
  /\ UNCHANGED <<cache, cache_reads_enabled, flights, flight, limit, now>>

AcquireTimeout(t) ==
  /\ call[t].at = "admit"
  /\ ~FreeToken
  /\ WaitExpired(t)
  /\ call' = [call EXCEPT ![t].at = "except"]
  /\ UNCHANGED <<cache, cache_reads_enabled, flights, flight, limit, inflight, now>>

\* The token is released in a finally clause.  (Only if the loader succeeded.)
AfterLoaderUnlessFailed(accepted) == IF accepted THEN "release" ELSE "except"
AfterLoader(accepted) == "release"

\* The loader answers b or raises (NoBytes); bytes that fail verification or
\* come after the deadline are an exception too.
LoaderAnswers(t, b) ==
  /\ call[t].at = "loader"
  /\ LET accepted == b = Expected(t) /\ now <= call[t].deadline
     IN call' = [call EXCEPT ![t] = [@ EXCEPT !.at = AfterLoader(accepted),
                                              !.bytes = IF accepted THEN b ELSE NoBytes]]
  /\ UNCHANGED <<cache, cache_reads_enabled, flights, flight, limit, inflight, now>>

Release(t) ==
  /\ call[t].at = "release"
  /\ inflight > 0
  /\ inflight' = inflight - 1
  /\ call' = [call EXCEPT ![t].at = IF call[t].bytes = NoBytes THEN "except" ELSE "publish"]
  /\ UNCHANGED <<cache, cache_reads_enabled, flights, flight, limit, now>>

-----------------------------------------------------------------------------
(* load, the leader's last section. *)

\* self._flights.pop(key, None), whichever flight is mapped.
Popped(k) == [flights EXCEPT ![k] = 0]

LeaderFails(t) ==
  /\ call[t].at = "except"
  /\ flight' = [flight EXCEPT ![call[t].generation].done = TRUE]
  /\ flights' = Popped(KeyOf(t))
  /\ call' = [call EXCEPT ![t] = Ended(call[t].request, NoBytes)]
  /\ UNCHANGED <<cache, cache_reads_enabled, limit, inflight, now>>

StillMappedUnchecked(t) == TRUE
StillMapped(t) == flights[KeyOf(t)] = call[t].generation

Publish(t) ==
  /\ call[t].at = "publish"
  /\ StillMapped(t)
  /\ cache' = [cache EXCEPT ![KeyOf(t)] = call[t].bytes]
  /\ flight' = [flight EXCEPT ![call[t].generation] =
                  [@ EXCEPT !.payload = call[t].bytes, !.done = TRUE]]
  /\ flights' = Popped(KeyOf(t))
  /\ call' = [call EXCEPT ![t] = Ended(call[t].request, call[t].bytes)]
  /\ UNCHANGED <<cache_reads_enabled, limit, inflight, now>>

\* The fenced leader raises outside the try block: its flight stays as it is.
PublishFenced(t) ==
  /\ call[t].at = "publish"
  /\ ~StillMapped(t)
  /\ call' = [call EXCEPT ![t] = Ended(call[t].request, NoBytes)]
  /\ UNCHANGED <<cache, cache_reads_enabled, flights, flight, limit, inflight, now>>

-----------------------------------------------------------------------------
(* The other methods, and the environment. *)

WarmVerified(req) ==
  /\ cache' = [cache EXCEPT ![req[1]] = req[2]]
  /\ UNCHANGED <<cache_reads_enabled, flights, flight, limit, inflight, now, call>>

QuarantineCacheReads ==
  /\ cache_reads_enabled' = FALSE
  /\ UNCHANGED <<cache, flights, flight, limit, inflight, now, call>>

ReopenCacheReads ==
  /\ cache_reads_enabled' = TRUE
  /\ UNCHANGED <<cache, flights, flight, limit, inflight, now, call>>

SetLimit(n) ==
  /\ limit' = n
  /\ UNCHANGED <<cache, cache_reads_enabled, flights, flight, inflight, now, call>>

\* External: the untrusted cache tier changes the bytes of an entry.
Corrupt(k, b) ==
  /\ cache[k] # NoBytes
  /\ cache' = [cache EXCEPT ![k] = b]
  /\ UNCHANGED <<cache_reads_enabled, flights, flight, limit, inflight, now, call>>

Tick ==
  /\ now < MaxTime
  /\ now' = now + 1
  /\ UNCHANGED <<cache, cache_reads_enabled, flights, flight, limit, inflight, call>>

Answered(t) == \E b \in Bytes : LoaderAnswers(t, b)

\* What thread t does in a call without waiting for its loader.
Proceed(t) ==
  \/ FollowerReturn(t) \/ FollowerTimeout(t)
  \/ Acquire(t) \/ AcquireTimeout(t) \/ Release(t)
  \/ LeaderFails(t) \/ Publish(t) \/ PublishFenced(t)

GateNext ==
  \/ \E t \in Threads, req \in Requests :
        \/ LoadFromCache(t, req)
        \/ \E timeout \in Timeouts : JoinFlight(t, req, timeout) \/ LeadFlight(t, req, timeout)
  \/ \E t \in Threads : Proceed(t) \/ Answered(t)
  \/ \E req \in Requests : WarmVerified(req)
  \/ QuarantineCacheReads
  \/ ReopenCacheReads
  \/ \E n \in Limits : SetLimit(n)
  \/ \E k \in Keys, b \in Payloads : Corrupt(k, b)
  \/ Tick

\* Threads run and the clock advances; a loader need not ever answer.
GateFairness ==
  /\ WF_vars(Tick)
  /\ \A t \in Threads : WF_vars(Proceed(t))

GateSpec == GateInit /\ [][GateNext]_vars /\ GateFairness

-----------------------------------------------------------------------------
(***************************************************************************)
(* Properties.                                                             *)
(***************************************************************************)

\* Type invariant; a flight that is mapped under a key is unfinished.
TypeOK ==
  /\ cache \in [Keys -> Bytes]
  /\ cache_reads_enabled \in BOOLEAN
  /\ DOMAIN flight = 1 .. next_generation
  /\ \A g \in DOMAIN flight : flight[g] \in Flight
  /\ \A k \in Keys : HasFlight(k) => flights[k] \in DOMAIN flight /\ ~flight[flights[k]].done
  /\ flights \in [Keys -> Nat]
  /\ limit \in Limits
  /\ inflight \in Nat
  /\ now \in Nat
  /\ call \in [Threads -> Call]

\* Tokens are neither lost nor invented: inflight is the number of leaders
\* between acquire and release whatever timed out, failed or was fenced, and
\* it never exceeds the largest limit ever set (the finally of load).
AdmissionBudget ==
  /\ inflight = Cardinality({t \in Threads : call[t].at \in {"loader", "release"}})
  /\ \E n \in Limits : inflight <= n

\* Whatever a call returns has the SHA-256 its caller asked for, though cache
\* bytes change behind the gate, followers verify nothing and leaders are
\* fenced (requires that a key is used with one SHA-256 only).
ReturnedVerified ==
  \A t \in Threads : call[t].at = "out" => call[t].bytes \in {NoBytes, Expected(t)}

\* A flight that was answered, by its leader or by the thread that fenced it,
\* keeps that verdict: no late leader turns the error its followers were told
\* into a payload, nor the reverse.
VerdictIsFinal ==
  [][\A g \in DOMAIN flight : flight[g].done => flight'[g] = flight[g]]_vars

\* Every call ends unless its own loader never answers: followers of a stuck
\* leader, leaders behind an exhausted budget and leaders that were fenced
\* all get away at their deadline.
CallsEnd ==
  \A t \in Threads : call[t].at # "out" ~> call[t].at \in {"out", "loader"}

\* What the module and its manual promise the followers: the leader's result
\* or its terminal error.  So nobody waits on a flight whose leader has left.
FollowersHearFromLeader ==
  \A t \in Threads :
    call[t].at = "wait" /\ ~flight[call[t].generation].done =>
      \E leader \in Threads : /\ call[leader].at \notin {"out", "wait"}
                              /\ call[leader].generation = call[t].generation
=============================================================================
