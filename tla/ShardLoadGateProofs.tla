------------------------ MODULE ShardLoadGateProofs -------------------------
(***************************************************************************)
(* Proofs about ShardLoadGate, for any threads, keys, payloads, time-outs, *)
(* limits, clock bound and number of flights.                              *)
(***************************************************************************)
EXTENDS ShardLoadGate, FiniteSetTheorems, TLAPS

InCall(t) == call[t].at # "out"

\* There is one map entry per flight, and an unanswered flight has no payload.
FlightsAreApart ==
  /\ IsFiniteSet(DOMAIN flight)
  /\ \A k, j \in Keys : HasFlight(k) /\ flights[k] = flights[j] => k = j
  /\ \A g \in DOMAIN flight : ~flight[g].done => flight[g].payload = NoBytes

\* Whoever is about a flight, as its leader or follower, is about one key, and
\* it is mapped under no other.
CallsAreOfOneKey ==
  \A t \in Threads : InCall(t) =>
    /\ call[t].generation \in DOMAIN flight
    /\ \A k \in Keys : flights[k] = call[t].generation => k = KeyOf(t)
    /\ \A s \in Threads :
         InCall(s) /\ call[s].generation = call[t].generation => KeyOf(s) = KeyOf(t)

\* What threads hold on their way out of a call, and what they will be told.
BytesAreVerified ==
  \A t \in Threads :
    /\ InCall(t) => flight[call[t].generation].payload \in {NoBytes, Expected(t)}
    /\ call[t].at \in {"out", "release"} => call[t].bytes \in {NoBytes, Expected(t)}
    /\ call[t].at = "publish" => call[t].bytes = Expected(t)

FlightInv == TypeOK /\ FlightsAreApart /\ CallsAreOfOneKey

\* The callers' discipline on which followers rely.
OneHashPerKey == \A q, s \in Requests : q[1] = s[1] => q = s

-----------------------------------------------------------------------------
(***************************************************************************)
(* Flights: the first layer.                                               *)
(***************************************************************************)

LEMMA RequestType ==
  /\ \A req \in Requests : req[1] \in Keys /\ req[2] \in Payloads
  /\ Payloads \subseteq Bytes /\ NoBytes \in Bytes /\ NoBytes \notin Payloads
BY GateAssumption DEF GateAssumption, Bytes

LEMMA CallFields ==
  ASSUME call \in [Threads -> Call], NEW t \in Threads
  PROVE  /\ call[t].request \in Requests /\ call[t].generation \in Nat
         /\ call[t].deadline \in Nat /\ call[t].bytes \in Bytes
         /\ KeyOf(t) \in Keys /\ Expected(t) \in Payloads
BY RequestType DEF Call, KeyOf, Expected

LEMMA InitFlightInv == GateInit => FlightInv
<1> SUFFICES ASSUME GateInit PROVE FlightInv
  OBVIOUS
<1>1. DOMAIN flight = {} /\ IsFiniteSet({}) /\ next_generation = 0
  BY FS_EmptySet DEF GateInit, next_generation
<1>2. call \in [Threads -> Call] /\ \A t \in Threads : call[t].at = "out"
  BY DEF GateInit, Call, Ended, Bytes
<1>3. TypeOK
  BY <1>1, <1>2 DEF TypeOK, GateInit, HasFlight, Bytes
<1> QED
  BY <1>1, <1>2, <1>3 DEF FlightInv, FlightsAreApart, CallsAreOfOneKey, InCall, GateInit, HasFlight

\* A thread that ends its call, or goes on in it, disturbs nobody.
LEMMA CallChangeFlightInv ==
  ASSUME FlightInv, UNCHANGED <<flights, flight>>, NEW t \in Threads, NEW new \in Call,
         call' = [call EXCEPT ![t] = new],
         new.at # "out" => /\ InCall(t) /\ new.request = call[t].request
                           /\ new.generation = call[t].generation,
         cache' \in [Keys -> Bytes], cache_reads_enabled' \in BOOLEAN,
         limit' \in Limits, inflight' \in Nat, now' \in Nat
  PROVE  FlightInv'
<1>1. TypeOK'
  BY DEF FlightInv, TypeOK, next_generation, HasFlight
<1>2. FlightsAreApart'
  BY DEF FlightInv, FlightsAreApart, HasFlight
<1>3. call \in [Threads -> Call]
  BY DEF FlightInv, TypeOK
<1>4. ASSUME NEW s \in Threads, InCall(s)'
      PROVE  InCall(s) /\ call'[s].generation = call[s].generation /\ KeyOf(s)' = KeyOf(s)
  BY <1>3, <1>4 DEF InCall, KeyOf
<1>5. CallsAreOfOneKey'
  BY <1>4 DEF FlightInv, CallsAreOfOneKey
<1> QED
  BY <1>1, <1>2, <1>5 DEF FlightInv

\* The cache that a lookup leaves is a cache.
LEMMA LookupType ==
  ASSUME TypeOK, NEW req \in Requests
  PROVE  CacheAfterLookup(req) \in [Keys -> Bytes]
BY RequestType DEF TypeOK, CacheAfterLookup

LEMMA JoinFlightInv ==
  ASSUME FlightInv, NEW t \in Threads, NEW req \in Requests, NEW timeout \in Timeouts,
         JoinFlight(t, req, timeout)
  PROVE  FlightInv'
<1> DEFINE new == [at |-> "wait", request |-> req, deadline |-> now + timeout,
                   generation |-> flights[req[1]], bytes |-> NoBytes]
<1>1. /\ call' = [call EXCEPT ![t] = new] /\ cache' = CacheAfterLookup(req)
      /\ UNCHANGED <<cache_reads_enabled, flights, flight, limit, inflight, now>>
      /\ HasFlight(req[1])
  BY DEF JoinFlight
<1>2. /\ call \in [Threads -> Call] /\ req[1] \in Keys
      /\ flights[req[1]] \in DOMAIN flight /\ flights[req[1]] \in Nat
  BY <1>1, RequestType DEF FlightInv, TypeOK
<1>3. new \in Call
  <2>1. timeout \in Nat /\ now \in Nat
    BY GateAssumption DEF GateAssumption, FlightInv, TypeOK
  <2> QED
    BY <1>2, <2>1, RequestType DEF Call
<1>4. TypeOK'
  BY <1>1, <1>2, <1>3, LookupType DEF FlightInv, TypeOK, next_generation, HasFlight
<1>5. FlightsAreApart'
  BY <1>1 DEF FlightInv, FlightsAreApart, HasFlight
<1>6. ASSUME NEW s \in Threads, InCall(s)'
      PROVE  /\ call'[s].generation \in DOMAIN flight
             /\ \A k \in Keys : flights[k] = call'[s].generation => k = KeyOf(s)'
             /\ s # t => /\ InCall(s) /\ call'[s].generation = call[s].generation
                         /\ KeyOf(s)' = KeyOf(s)
             /\ s = t => call'[s].generation = flights[req[1]] /\ KeyOf(s)' = req[1]
  <2>1. CASE s = t
    BY <1>1, <1>2, <2>1 DEF FlightInv, FlightsAreApart, KeyOf
  <2>2. CASE s # t
    BY <1>1, <1>2, <1>6, <2>2 DEF FlightInv, CallsAreOfOneKey, KeyOf, InCall
  <2> QED
    BY <2>1, <2>2
<1>7. CallsAreOfOneKey'
  BY <1>1, <1>2, <1>6 DEF FlightInv, CallsAreOfOneKey
<1> QED
  BY <1>4, <1>5, <1>7 DEF FlightInv

\* The new flight's number is that of no earlier one.
LEMMA LeadFlightEffect ==
  ASSUME FlightInv, NEW t \in Threads, NEW req \in Requests, NEW timeout \in Timeouts,
         LeadFlight(t, req, timeout)
  PROVE  LET g == next_generation + 1
             k == req[1]
         IN  /\ g \in Nat \ {0} /\ g \notin DOMAIN flight /\ DOMAIN flight = 1 .. g - 1
             /\ DOMAIN flight' = 1 .. g
             /\ flight'[g] = [deadline |-> now + timeout, done |-> FALSE, payload |-> NoBytes]
             /\ flight'[g] \in Flight
             /\ \A h \in DOMAIN flight : /\ flight'[h] \in Flight
                                         /\ flight'[h].payload = flight[h].payload
                                         /\ h = flights[k] => flight'[h].done
                                         /\ h # flights[k] => flight'[h] = flight[h]
             /\ flights' = [flights EXCEPT ![k] = g] /\ k \in Keys /\ flights \in [Keys -> Nat]
             /\ \A j \in Keys : flights[j] # g
             /\ call' = [call EXCEPT ![t] = [at |-> "admit", request |-> req,
                                             deadline |-> now + timeout, generation |-> g,
                                             bytes |-> NoBytes]]
             /\ call'[t] \in Call /\ call' \in [Threads -> Call] /\ call \in [Threads -> Call]
<1> DEFINE g == next_generation + 1
<1> DEFINE k == req[1]
<1>1. next_generation \in Nat
  BY FS_CardinalityType DEF FlightInv, FlightsAreApart, next_generation
<1>2. DOMAIN flight = 1 .. g - 1 /\ g \in Nat \ {0} /\ g \notin DOMAIN flight
  BY <1>1 DEF FlightInv, TypeOK
<1>3. now + timeout \in Nat
  BY GateAssumption DEF GateAssumption, FlightInv, TypeOK
<1> DEFINE new == [deadline |-> now + timeout, done |-> FALSE, payload |-> NoBytes]
<1>4. flight' = [h \in DOMAIN flight \cup {g} |->
                   IF h = g THEN new
                   ELSE IF h = flights[k] THEN [flight[h] EXCEPT !.done = TRUE]
                   ELSE flight[h]]
  BY DEF LeadFlight
<1>5. new \in Flight
  BY <1>3, RequestType DEF Flight
<1>6. \A h \in DOMAIN flight : flight[h] \in Flight
  BY DEF FlightInv, TypeOK
<1>7. DOMAIN flight' = 1 .. g
  BY <1>2, <1>4
<1>8. flights' = [flights EXCEPT ![k] = g] /\ k \in Keys
  BY RequestType DEF LeadFlight
<1>9. flights \in [Keys -> Nat] /\ \A j \in Keys : flights[j] # g
  BY <1>2 DEF FlightInv, TypeOK, HasFlight
<1>10. ASSUME NEW h \in DOMAIN flight
       PROVE  /\ flight'[h] \in Flight /\ flight'[h].payload = flight[h].payload
              /\ h = flights[k] => flight'[h].done
              /\ h # flights[k] => flight'[h] = flight[h]
  BY <1>2, <1>4, <1>6 DEF Flight
<1>11. call \in [Threads -> Call]
  BY DEF FlightInv, TypeOK
<1>12. call' = [call EXCEPT ![t] = [at |-> "admit", request |-> req, deadline |-> now + timeout,
                                    generation |-> g, bytes |-> NoBytes]]
  BY DEF LeadFlight
<1>13. call'[t] \in Call
  BY <1>2, <1>3, <1>11, <1>12, RequestType DEF Call
<1>14. call' \in [Threads -> Call]
  BY <1>11, <1>12, <1>13
<1> QED
  BY <1>2, <1>4, <1>5, <1>7, <1>8, <1>9, <1>10, <1>11, <1>12, <1>13, <1>14

LEMMA LeadFlightInv ==
  ASSUME FlightInv, NEW t \in Threads, NEW req \in Requests, NEW timeout \in Timeouts,
         LeadFlight(t, req, timeout)
  PROVE  FlightInv'
<1> DEFINE g == next_generation + 1
<1> DEFINE k == req[1]
<1>1. /\ g \in Nat \ {0} /\ g \notin DOMAIN flight /\ DOMAIN flight = 1 .. g - 1
      /\ DOMAIN flight' = 1 .. g
      /\ flight'[g] = [deadline |-> now + timeout, done |-> FALSE, payload |-> NoBytes]
      /\ flight'[g] \in Flight
      /\ \A h \in DOMAIN flight : /\ flight'[h] \in Flight
                                  /\ flight'[h].payload = flight[h].payload
                                  /\ h = flights[k] => flight'[h].done
                                  /\ h # flights[k] => flight'[h] = flight[h]
      /\ flights' = [flights EXCEPT ![k] = g] /\ k \in Keys /\ flights \in [Keys -> Nat]
      /\ \A j \in Keys : flights[j] # g
      /\ call' = [call EXCEPT ![t] = [at |-> "admit", request |-> req, deadline |-> now + timeout,
                                      generation |-> g, bytes |-> NoBytes]]
      /\ call'[t] \in Call /\ call' \in [Threads -> Call] /\ call \in [Threads -> Call]
  BY LeadFlightEffect
<1>2. next_generation' = g /\ IsFiniteSet(DOMAIN flight')
  BY <1>1, FS_Interval DEF next_generation
<1>3. \A h \in 1 .. g : h = g \/ h \in DOMAIN flight
  BY <1>1
<1>4. \A j \in Keys : flights'[j] = IF j = k THEN g ELSE flights[j]
  BY <1>1
<1>5. \A j \in Keys : HasFlight(j)' => flights'[j] \in DOMAIN flight' /\ ~flight'[flights'[j]].done
  <2> SUFFICES ASSUME NEW j \in Keys, HasFlight(j)'
               PROVE  flights'[j] \in DOMAIN flight' /\ ~flight'[flights'[j]].done
    OBVIOUS
  <2>1. CASE j = k
    BY <1>1, <1>4, <2>1
  <2>2. CASE j # k
    <3>1. flights'[j] = flights[j] /\ HasFlight(j)
      BY <1>4, <2>2 DEF HasFlight
    <3>2. flights[j] \in DOMAIN flight /\ ~flight[flights[j]].done /\ flights[j] # flights[k]
      BY <1>1, <2>2, <3>1 DEF FlightInv, TypeOK, FlightsAreApart
    <3> QED
      BY <1>1, <3>1, <3>2
  <2> QED
    BY <2>1, <2>2
<1>6. TypeOK'
  <2>1. cache' \in [Keys -> Bytes] /\ UNCHANGED <<cache_reads_enabled, limit, inflight, now>>
    BY LookupType DEF LeadFlight, FlightInv
  <2>2. \A h \in DOMAIN flight' : flight'[h] \in Flight
    BY <1>1, <1>3
  <2>3. flights' \in [Keys -> Nat]
    BY <1>1
  <2> QED
    BY <1>1, <1>2, <1>5, <2>1, <2>2, <2>3 DEF FlightInv, TypeOK
<1>7. FlightsAreApart'
  <2>1. \A j, i \in Keys : HasFlight(j)' /\ flights'[j] = flights'[i] => j = i
    BY <1>1, <1>4 DEF FlightInv, FlightsAreApart, HasFlight
  <2>2. \A h \in DOMAIN flight' : ~flight'[h].done => flight'[h].payload = NoBytes
    BY <1>1, <1>3 DEF FlightInv, FlightsAreApart
  <2> QED
    BY <1>2, <2>1, <2>2 DEF FlightsAreApart
<1>8. ASSUME NEW s \in Threads, InCall(s)'
      PROVE  /\ call'[s].generation \in DOMAIN flight'
             /\ \A j \in Keys : flights'[j] = call'[s].generation => j = KeyOf(s)'
             /\ s # t => /\ InCall(s) /\ call'[s].generation = call[s].generation
                         /\ KeyOf(s)' = KeyOf(s) /\ call[s].generation # g
             /\ s = t => call'[s].generation = g
  <2>1. CASE s = t
    BY <1>1, <1>4, <2>1 DEF KeyOf
  <2>2. CASE s # t
    <3>1. call'[s] = call[s]
      BY <1>1, <2>2
    <3>2. InCall(s) /\ KeyOf(s)' = KeyOf(s)
      BY <1>8, <3>1 DEF InCall, KeyOf
    <3>3. call[s].generation \in DOMAIN flight
      BY <3>2 DEF FlightInv, CallsAreOfOneKey
    <3>4. call[s].generation # g /\ call[s].generation \in DOMAIN flight'
      BY <1>1, <3>3
    <3>5. \A j \in Keys : flights'[j] = call[s].generation => j = KeyOf(s)
      BY <1>4, <3>2, <3>4 DEF FlightInv, CallsAreOfOneKey
    <3> QED
      BY <2>2, <3>1, <3>2, <3>4, <3>5
  <2> QED
    BY <2>1, <2>2
<1>9. CallsAreOfOneKey'
  BY <1>8 DEF FlightInv, CallsAreOfOneKey
<1> QED
  BY <1>6, <1>7, <1>9 DEF FlightInv

\* The end of a leader's call: its flight is done, and its key has none any more.
LEMMA LandingInv ==
  ASSUME FlightInv, NEW t \in Threads, InCall(t), NEW b \in Bytes, NEW final \in Flight,
         final.done,
         flight' = [flight EXCEPT ![call[t].generation] = final], flights' = Popped(KeyOf(t)),
         call' = [call EXCEPT ![t] = Ended(call[t].request, b)],
         cache' \in [Keys -> Bytes], UNCHANGED <<cache_reads_enabled, limit, inflight, now>>
  PROVE  FlightInv'
<1> DEFINE g == call[t].generation
<1>1. /\ g \in DOMAIN flight /\ \A k \in Keys : flights[k] = g => k = KeyOf(t)
      /\ call \in [Threads -> Call]
  BY DEF FlightInv, CallsAreOfOneKey, TypeOK
<1>2. KeyOf(t) \in Keys /\ call[t].request \in Requests
  BY <1>1, CallFields
<1>3. DOMAIN flight' = DOMAIN flight /\ flight'[g] = final
      /\ \A h \in DOMAIN flight : h # g => flight'[h] = flight[h]
  BY <1>1
<1>4. \A k \in Keys : flights'[k] # 0 => k # KeyOf(t) /\ flights'[k] = flights[k] /\ flights[k] # g
  BY <1>1, <1>2 DEF Popped, FlightInv, TypeOK
<1>5. \A k \in Keys : flights'[k] = 0 \/ flights'[k] = flights[k]
  BY DEF Popped, FlightInv, TypeOK
<1>6. call' \in [Threads -> Call]
  BY <1>1, <1>2 DEF Ended, Call
<1>7. \A s \in Threads : InCall(s)' => s # t /\ call'[s] = call[s]
  BY <1>1 DEF InCall, Ended
<1>8. TypeOK'
  <2>1. DOMAIN flight' = 1 .. next_generation'
    BY <1>3 DEF FlightInv, TypeOK, next_generation
  <2>2. \A h \in DOMAIN flight' : flight'[h] \in Flight
    BY <1>3 DEF FlightInv, TypeOK
  <2>3. \A k \in Keys : HasFlight(k)' => flights'[k] \in DOMAIN flight' /\ ~flight'[flights'[k]].done
    BY <1>3, <1>4 DEF FlightInv, TypeOK, HasFlight
  <2>4. flights' \in [Keys -> Nat]
    BY DEF FlightInv, TypeOK, Popped
  <2> QED
    BY <1>6, <2>1, <2>2, <2>3, <2>4 DEF FlightInv, TypeOK
<1>9. FlightsAreApart'
  BY <1>3, <1>4 DEF FlightInv, FlightsAreApart, HasFlight
<1>10. CallsAreOfOneKey'
  <2> SUFFICES ASSUME NEW s \in Threads, InCall(s)'
               PROVE  /\ call'[s].generation \in DOMAIN flight'
                      /\ \A k \in Keys : flights'[k] = call'[s].generation => k = KeyOf(s)'
                      /\ \A r \in Threads :
                           InCall(r)' /\ call'[r].generation = call'[s].generation
                             => KeyOf(r)' = KeyOf(s)'
    BY DEF CallsAreOfOneKey
  <2>1. \A r \in Threads : InCall(r)' => InCall(r) /\ call'[r] = call[r] /\ KeyOf(r)' = KeyOf(r)
    BY <1>7 DEF InCall, KeyOf
  <2>2. InCall(s) /\ call'[s] = call[s] /\ KeyOf(s)' = KeyOf(s)
    BY <2>1
  <2>3. call[s].generation \in DOMAIN flight /\ call[s].generation # 0
    BY <2>2 DEF FlightInv, TypeOK, CallsAreOfOneKey
  <2>4. \A k \in Keys : flights'[k] = call[s].generation => k = KeyOf(s)
    BY <1>5, <2>2, <2>3 DEF FlightInv, CallsAreOfOneKey
  <2> QED
    BY <1>3, <2>1, <2>2, <2>3, <2>4 DEF FlightInv, CallsAreOfOneKey
<1> QED
  BY <1>8, <1>9, <1>10 DEF FlightInv

\* What is not a call's business.
LEMMA SurroundingsFlightInv ==
  ASSUME FlightInv, UNCHANGED <<flights, flight, call>>,
         cache' \in [Keys -> Bytes], cache_reads_enabled' \in BOOLEAN,
         limit' \in Limits, inflight' \in Nat, now' \in Nat
  PROVE  FlightInv'
<1>1. TypeOK'
  BY DEF FlightInv, TypeOK, next_generation, HasFlight
<1>2. FlightsAreApart' /\ CallsAreOfOneKey'
  BY DEF FlightInv, FlightsAreApart, CallsAreOfOneKey, HasFlight, InCall, KeyOf
<1> QED
  BY <1>1, <1>2 DEF FlightInv

LEMMA ProceedFlightInv ==
  ASSUME FlightInv, NEW t \in Threads, Proceed(t)
  PROVE  FlightInv'
<1>1. /\ call \in [Threads -> Call] /\ call[t] \in Call /\ call[t].request \in Requests
      /\ call[t].bytes \in Bytes /\ KeyOf(t) \in Keys /\ NoBytes \in Bytes
      /\ cache \in [Keys -> Bytes] /\ cache_reads_enabled \in BOOLEAN
      /\ limit \in Limits /\ inflight \in Nat /\ now \in Nat
  BY CallFields, RequestType DEF FlightInv, TypeOK
<1>2. \A b \in Bytes : Ended(call[t].request, b) \in Call /\ Ended(call[t].request, b).at = "out"
  BY <1>1 DEF Ended, Call
<1>3. InCall(t) => call[t].generation \in DOMAIN flight /\ flight[call[t].generation] \in Flight
  BY DEF FlightInv, TypeOK, CallsAreOfOneKey
<1>4. CASE FollowerReturn(t)
  <2>1. flight[call[t].generation].payload \in Bytes
    BY <1>3, <1>4 DEF FollowerReturn, InCall, Flight
  <2> QED
    BY <1>1, <1>2, <1>4, <2>1, CallChangeFlightInv DEF FollowerReturn
<1>5. CASE FollowerTimeout(t)
  BY <1>1, <1>2, <1>5, CallChangeFlightInv DEF FollowerTimeout
<1>6. CASE Acquire(t)
  <2> DEFINE new == [call[t] EXCEPT !.at = "loader"]
  <2>1. new \in Call /\ new.request = call[t].request /\ new.generation = call[t].generation
    BY <1>1 DEF Call
  <2>2. call' = [call EXCEPT ![t] = new] /\ InCall(t) /\ inflight' \in Nat
        /\ UNCHANGED <<cache, cache_reads_enabled, flights, flight, limit, now>>
    BY <1>1, <1>6 DEF Acquire, InCall
  <2> QED
    BY <1>1, <2>1, <2>2, CallChangeFlightInv
<1>7. CASE AcquireTimeout(t)
  <2> DEFINE new == [call[t] EXCEPT !.at = "except"]
  <2>1. new \in Call /\ new.request = call[t].request /\ new.generation = call[t].generation
    BY <1>1 DEF Call
  <2>2. call' = [call EXCEPT ![t] = new] /\ InCall(t)
        /\ UNCHANGED <<cache, cache_reads_enabled, flights, flight, limit, inflight, now>>
    BY <1>1, <1>7 DEF AcquireTimeout, InCall
  <2> QED
    BY <1>1, <2>1, <2>2, CallChangeFlightInv
<1>8. CASE Release(t)
  <2> DEFINE new == [call[t] EXCEPT !.at = IF call[t].bytes = NoBytes THEN "except" ELSE "publish"]
  <2>1. new \in Call /\ new.request = call[t].request /\ new.generation = call[t].generation
    BY <1>1 DEF Call
  <2>2. call' = [call EXCEPT ![t] = new] /\ InCall(t) /\ inflight' \in Nat
        /\ UNCHANGED <<cache, cache_reads_enabled, flights, flight, limit, now>>
    BY <1>1, <1>8 DEF Release, InCall
  <2> QED
    BY <1>1, <2>1, <2>2, CallChangeFlightInv
<1>9. CASE LeaderFails(t)
  <2> DEFINE final == [flight[call[t].generation] EXCEPT !.done = TRUE]
  <2>1. InCall(t) /\ final \in Flight /\ final.done
    BY <1>3, <1>9 DEF LeaderFails, InCall, Flight
  <2>2. flight' = [flight EXCEPT ![call[t].generation] = final]
    BY <1>9 DEF LeaderFails
  <2> QED
    BY <1>1, <1>9, <2>1, <2>2, LandingInv DEF LeaderFails
<1>10. CASE Publish(t)
  <2> DEFINE final == [flight[call[t].generation] EXCEPT !.payload = call[t].bytes, !.done = TRUE]
  <2>1. InCall(t) /\ final \in Flight /\ final.done
    BY <1>1, <1>3, <1>10 DEF Publish, InCall, Flight
  <2>2. flight' = [flight EXCEPT ![call[t].generation] = final] /\ cache' \in [Keys -> Bytes]
    BY <1>1, <1>10 DEF Publish
  <2> QED
    BY <1>1, <1>10, <2>1, <2>2, LandingInv DEF Publish
<1>11. CASE PublishFenced(t)
  BY <1>1, <1>2, <1>11, CallChangeFlightInv DEF PublishFenced
<1> QED
  BY <1>4, <1>5, <1>6, <1>7, <1>8, <1>9, <1>10, <1>11 DEF Proceed

LEMMA NextFlightInv == FlightInv /\ [GateNext]_vars => FlightInv'
<1> SUFFICES ASSUME FlightInv, [GateNext]_vars PROVE FlightInv'
  OBVIOUS
<1>1. /\ call \in [Threads -> Call] /\ cache \in [Keys -> Bytes]
      /\ cache_reads_enabled \in BOOLEAN /\ limit \in Limits /\ inflight \in Nat /\ now \in Nat
  BY DEF FlightInv, TypeOK
<1>2. CASE UNCHANGED vars
  BY <1>1, <1>2, SurroundingsFlightInv DEF vars
<1>3. ASSUME NEW t \in Threads, NEW req \in Requests, LoadFromCache(t, req)
      PROVE  FlightInv'
  <2>1. cache[req[1]] \in Bytes
    BY <1>1, RequestType
  <2>2. Ended(req, cache[req[1]]) \in Call /\ Ended(req, cache[req[1]]).at = "out"
    BY <2>1 DEF Ended, Call
  <2> QED
    BY <1>1, <1>3, <2>2, CallChangeFlightInv DEF LoadFromCache
<1>4. ASSUME NEW t \in Threads, Answered(t)
      PROVE  FlightInv'
  <2>1. PICK b \in Bytes : LoaderAnswers(t, b)
    BY <1>4 DEF Answered
  <2> DEFINE accepted == b = Expected(t) /\ now <= call[t].deadline
  <2> DEFINE new == [call[t] EXCEPT !.at = AfterLoader(accepted),
                                    !.bytes = IF accepted THEN b ELSE NoBytes]
  <2>2. call[t] \in Call /\ NoBytes \in Bytes
    BY <1>1, RequestType
  <2>3. new \in Call /\ new.request = call[t].request /\ new.generation = call[t].generation
    BY <2>2 DEF Call, AfterLoader
  <2>4. call' = [call EXCEPT ![t] = new] /\ InCall(t)
        /\ UNCHANGED <<cache, cache_reads_enabled, flights, flight, limit, inflight, now>>
    BY <2>1 DEF LoaderAnswers, InCall
  <2> QED
    BY <1>1, <2>3, <2>4, CallChangeFlightInv
<1>5. ASSUME NEW req \in Requests, WarmVerified(req)
      PROVE  FlightInv'
  <2>1. cache' \in [Keys -> Bytes]
    BY <1>1, <1>5, RequestType DEF WarmVerified
  <2> QED
    BY <1>1, <1>5, <2>1, SurroundingsFlightInv DEF WarmVerified
<1>6. CASE QuarantineCacheReads
  BY <1>1, <1>6, SurroundingsFlightInv DEF QuarantineCacheReads
<1>7. CASE ReopenCacheReads
  BY <1>1, <1>7, SurroundingsFlightInv DEF ReopenCacheReads
<1>8. ASSUME NEW n \in Limits, SetLimit(n)
      PROVE  FlightInv'
  BY <1>1, <1>8, SurroundingsFlightInv DEF SetLimit
<1>9. ASSUME NEW k \in Keys, NEW b \in Payloads, Corrupt(k, b)
      PROVE  FlightInv'
  <2>1. cache' \in [Keys -> Bytes]
    BY <1>1, <1>9, RequestType DEF Corrupt
  <2> QED
    BY <1>1, <1>9, <2>1, SurroundingsFlightInv DEF Corrupt
<1>10. CASE Tick
  BY <1>1, <1>10, SurroundingsFlightInv DEF Tick
<1> QED
  BY <1>2, <1>3, <1>4, <1>5, <1>6, <1>7, <1>8, <1>9, <1>10,
     JoinFlightInv, LeadFlightInv, ProceedFlightInv DEF GateNext

\* The inductive invariant of the map: one unanswered flight per key, and calls
\* that are about one.
THEOREM FlightInvCorrect == GateSpec => []FlightInv
BY InitFlightInv, NextFlightInv, PTL DEF GateSpec

\* The types, and that a mapped flight is an unfinished one.
THEOREM TypeCorrect == GateSpec => []TypeOK
<1>1. FlightInv => TypeOK
  BY DEF FlightInv
<1> QED
  BY <1>1, FlightInvCorrect, PTL

-----------------------------------------------------------------------------
(***************************************************************************)
(* The admission budget.                                                   *)
(***************************************************************************)

Holders == {t \in Threads : call[t].at \in {"loader", "release"}}

\* A step that moves at most thread t, and gives or takes its token with it.
LEMMA OneMovesBudget ==
  ASSUME FlightInv, AdmissionBudget, NEW t \in Threads, NEW new \in Call,
         call' = [call EXCEPT ![t] = new],
         \/ /\ inflight' = inflight
            /\ t \in Holders <=> new.at \in {"loader", "release"}
         \/ /\ inflight' = inflight + 1 /\ inflight < limit
            /\ t \notin Holders /\ new.at \in {"loader", "release"}
         \/ /\ inflight' = inflight - 1
            /\ t \in Holders /\ new.at \notin {"loader", "release"}
  PROVE  AdmissionBudget'
<1>1. call \in [Threads -> Call] /\ limit \in Limits /\ inflight \in Nat /\ Limits \subseteq Nat
  BY GateAssumption DEF GateAssumption, FlightInv, TypeOK
<1>2. IsFiniteSet(Holders) /\ inflight = Cardinality(Holders)
  BY GateAssumption, FS_Subset DEF GateAssumption, Holders, AdmissionBudget
<1>3. PICK n \in Limits : inflight <= n
  BY DEF AdmissionBudget
<1>4. \A s \in Threads \ {t} : call'[s] = call[s]
  BY <1>1
<1>5. call'[t] = new
  BY <1>1
<1>6. CASE inflight' = inflight /\ (t \in Holders <=> new.at \in {"loader", "release"})
  <2>1. Holders' = Holders
    BY <1>4, <1>5, <1>6 DEF Holders
  <2> QED
    BY <1>2, <1>3, <1>6, <2>1 DEF AdmissionBudget, Holders
<1>7. CASE inflight' = inflight + 1 /\ inflight < limit /\ t \notin Holders
           /\ new.at \in {"loader", "release"}
  <2>1. Holders' = Holders \cup {t}
    BY <1>4, <1>5, <1>7 DEF Holders
  <2>2. inflight' = Cardinality(Holders')
    BY <1>2, <1>7, <2>1, FS_AddElement
  <2>3. inflight' <= limit
    BY <1>1, <1>7
  <2> QED
    BY <1>1, <2>2, <2>3 DEF AdmissionBudget, Holders
<1>8. CASE inflight' = inflight - 1 /\ t \in Holders /\ new.at \notin {"loader", "release"}
  <2>1. Holders' = Holders \ {t}
    BY <1>4, <1>5, <1>8 DEF Holders
  <2>2. inflight' = Cardinality(Holders')
    BY <1>2, <1>8, <2>1, FS_RemoveElement
  <2>3. inflight' <= n
    BY <1>1, <1>3, <1>8
  <2> QED
    BY <2>2, <2>3 DEF AdmissionBudget, Holders
<1> QED
  BY <1>6, <1>7, <1>8

LEMMA NextBudget == FlightInv /\ AdmissionBudget /\ [GateNext]_vars => AdmissionBudget'
<1> SUFFICES ASSUME FlightInv, AdmissionBudget, [GateNext]_vars PROVE AdmissionBudget'
  OBVIOUS
<1>1. FlightInv' /\ call \in [Threads -> Call] /\ call' \in [Threads -> Call]
  BY NextFlightInv DEF FlightInv, TypeOK
<1>2. ASSUME UNCHANGED <<call, inflight>>
      PROVE  AdmissionBudget'
  BY <1>2 DEF AdmissionBudget
<1>3. ASSUME NEW t \in Threads, call' = [call EXCEPT ![t] = call'[t]], inflight' = inflight,
             call[t].at \notin {"loader", "release"}, call'[t].at \notin {"loader", "release"}
      PROVE  AdmissionBudget'
  BY <1>1, <1>3, OneMovesBudget DEF Holders
<1>4. ASSUME NEW t \in Threads, NEW req \in Requests, LoadFromCache(t, req)
      PROVE  AdmissionBudget'
  BY <1>1, <1>3, <1>4 DEF LoadFromCache, Ended
<1>5. ASSUME NEW t \in Threads, NEW req \in Requests, NEW timeout \in Timeouts,
             JoinFlight(t, req, timeout) \/ LeadFlight(t, req, timeout)
      PROVE  AdmissionBudget'
  <2>1. CASE JoinFlight(t, req, timeout)
    BY <1>1, <1>3, <2>1 DEF JoinFlight
  <2>2. CASE LeadFlight(t, req, timeout)
    BY <1>1, <1>3, <2>2 DEF LeadFlight
  <2> QED
    BY <1>5, <2>1, <2>2
<1>6. ASSUME NEW t \in Threads, Proceed(t)
      PROVE  AdmissionBudget'
  <2>1. CASE FollowerReturn(t)
    BY <1>1, <1>3, <2>1 DEF FollowerReturn, Ended
  <2>2. CASE FollowerTimeout(t)
    BY <1>1, <1>3, <2>2 DEF FollowerTimeout, Ended
  <2>3. CASE AcquireTimeout(t)
    BY <1>1, <1>3, <2>3, ZenonT(40) DEF AcquireTimeout, Call
  <2>4. CASE LeaderFails(t)
    BY <1>1, <1>3, <2>4 DEF LeaderFails, Ended
  <2>5. CASE Publish(t)
    BY <1>1, <1>3, <2>5 DEF Publish, Ended
  <2>6. CASE PublishFenced(t)
    BY <1>1, <1>3, <2>6 DEF PublishFenced, Ended
  <2>7. CASE Acquire(t)
    <3>1. call' = [call EXCEPT ![t] = call'[t]] /\ call'[t] \in Call /\ call'[t].at = "loader"
      BY <1>1, <2>7 DEF Acquire, Call
    <3>2. t \notin Holders /\ inflight < limit /\ inflight' = inflight + 1
      BY <2>7 DEF Acquire, FreeToken, Holders
    <3> QED
      BY <3>1, <3>2, OneMovesBudget
  <2>8. CASE Release(t)
    <3>1. /\ call' = [call EXCEPT ![t] = call'[t]] /\ call'[t] \in Call
          /\ call'[t].at \in {"except", "publish"}
      BY <1>1, <2>8 DEF Release, Call
    <3>2. t \in Holders /\ inflight' = inflight - 1
      BY <2>8 DEF Release, Holders
    <3> QED
      BY <3>1, <3>2, OneMovesBudget
  <2> QED
    BY <1>6, <2>1, <2>2, <2>3, <2>4, <2>5, <2>6, <2>7, <2>8 DEF Proceed
<1>7. ASSUME NEW t \in Threads, Answered(t)
      PROVE  AdmissionBudget'
  <2>1. PICK b \in Bytes : LoaderAnswers(t, b)
    BY <1>7 DEF Answered
  <2>2. /\ call' = [call EXCEPT ![t] = call'[t]] /\ call'[t] \in Call
        /\ call[t].at = "loader" /\ call'[t].at = "release" /\ inflight' = inflight
    BY <1>1, <2>1 DEF LoaderAnswers, AfterLoader, Call
  <2> QED
    BY <2>2, OneMovesBudget DEF Holders
<1>8. CASE UNCHANGED vars \/ (\E req \in Requests : WarmVerified(req))
           \/ QuarantineCacheReads \/ ReopenCacheReads \/ (\E n \in Limits : SetLimit(n))
           \/ (\E k \in Keys, b \in Payloads : Corrupt(k, b)) \/ Tick
  BY <1>2, <1>8 DEF vars, WarmVerified, QuarantineCacheReads, ReopenCacheReads, SetLimit, Corrupt,
     Tick
<1> QED
  BY <1>4, <1>5, <1>6, <1>7, <1>8 DEF GateNext

\* The admission never loses or invents a token, however many leaders time
\* out, fail or are fenced, and keeps within a limit that was once set.
THEOREM BudgetCorrect == GateSpec => []AdmissionBudget
<1>1. GateInit => AdmissionBudget
  <2> SUFFICES ASSUME GateInit PROVE AdmissionBudget
    OBVIOUS
  <2>1. {t \in Threads : call[t].at \in {"loader", "release"}} = {}
    BY DEF GateInit, Ended
  <2>2. limit \in Nat /\ inflight = 0
    BY GateAssumption DEF GateAssumption, GateInit
  <2>3. \E n \in Limits : inflight <= n
    BY <2>2, GateAssumption DEF GateAssumption, GateInit
  <2>4. inflight = Cardinality({t \in Threads : call[t].at \in {"loader", "release"}})
    BY <2>1, <2>2, FS_EmptySet, Zenon
  <2> QED
    BY <2>3, <2>4 DEF AdmissionBudget
<1> QED
  BY <1>1, NextBudget, FlightInvCorrect, PTL DEF GateSpec

-----------------------------------------------------------------------------
(***************************************************************************)
(* What calls return.                                                      *)
(***************************************************************************)

LEMMA CallChangeBytes ==
  ASSUME FlightInv, BytesAreVerified, UNCHANGED flight, NEW t \in Threads, NEW new,
         call' = [call EXCEPT ![t] = new],
         new.at # "out" => /\ InCall(t) /\ new.request = call[t].request
                           /\ new.generation = call[t].generation,
         new.at \in {"out", "release"} => new.bytes \in {NoBytes, new.request[2]},
         new.at = "publish" => new.bytes = new.request[2]
  PROVE  BytesAreVerified'
<1>1. call \in [Threads -> Call] /\ call'[t] = new /\ \A s \in Threads \ {t} : call'[s] = call[s]
  BY DEF FlightInv, TypeOK
<1> SUFFICES ASSUME NEW s \in Threads
             PROVE  /\ call'[s].at # "out" =>
                         flight[call'[s].generation].payload \in {NoBytes, call'[s].request[2]}
                    /\ call'[s].at \in {"out", "release"} =>
                         call'[s].bytes \in {NoBytes, call'[s].request[2]}
                    /\ call'[s].at = "publish" => call'[s].bytes = call'[s].request[2]
  BY DEF BytesAreVerified, InCall, Expected
<1>2. CASE s = t
  BY <1>1, <1>2 DEF BytesAreVerified, InCall, Expected
<1>3. CASE s # t
  BY <1>1, <1>3 DEF BytesAreVerified, InCall, Expected
<1> QED
  BY <1>2, <1>3

\* Of a flight that its leader ends, the others hear its error or its bytes.
LEMMA LandingBytes ==
  ASSUME OneHashPerKey, FlightInv, BytesAreVerified, NEW t \in Threads, InCall(t),
         \A h \in DOMAIN flight : h # call[t].generation => flight'[h] = flight[h],
         flight'[call[t].generation].payload \in {NoBytes, Expected(t)},
         \A s \in Threads : s # t => call'[s] = call[s],
         call'[t].at = "out", call'[t].bytes \in {NoBytes, call'[t].request[2]}
  PROVE  BytesAreVerified'
<1>1. call \in [Threads -> Call]
  BY DEF FlightInv, TypeOK
<1> SUFFICES ASSUME NEW s \in Threads
             PROVE  /\ call'[s].at # "out" =>
                         flight'[call'[s].generation].payload \in {NoBytes, call'[s].request[2]}
                    /\ call'[s].at \in {"out", "release"} =>
                         call'[s].bytes \in {NoBytes, call'[s].request[2]}
                    /\ call'[s].at = "publish" => call'[s].bytes = call'[s].request[2]
  BY DEF BytesAreVerified, InCall, Expected
<1>2. CASE s = t
  BY <1>2
<1>3. CASE s # t
  <2>1. call'[s] = call[s]
    BY <1>3
  <2>2. ASSUME InCall(s)
        PROVE  flight'[call[s].generation].payload \in {NoBytes, Expected(s)}
    <3>1. call[s].generation \in DOMAIN flight
      BY <2>2 DEF FlightInv, CallsAreOfOneKey
    <3>2. CASE call[s].generation = call[t].generation
      <4>1. KeyOf(s) = KeyOf(t)
        BY <2>2, <3>2 DEF FlightInv, CallsAreOfOneKey
      <4>2. call[s].request \in Requests /\ call[t].request \in Requests
        BY <1>1, CallFields
      <4>3. Expected(s) = Expected(t)
        BY <4>1, <4>2 DEF OneHashPerKey, KeyOf, Expected
      <4> QED
        BY <3>2, <4>3
    <3>3. CASE call[s].generation # call[t].generation
      <4>1. flight'[call[s].generation] = flight[call[s].generation]
        BY <3>1, <3>3
      <4> QED
        BY <2>2, <4>1 DEF BytesAreVerified
    <3> QED
      BY <3>2, <3>3
  <2> QED
    BY <2>1, <2>2 DEF BytesAreVerified, InCall, Expected
<1> QED
  BY <1>2, <1>3

LEMMA ElectionBytes ==
  ASSUME FlightInv, BytesAreVerified, NEW t \in Threads, NEW req \in Requests,
         NEW timeout \in Timeouts, JoinFlight(t, req, timeout) \/ LeadFlight(t, req, timeout)
  PROVE  BytesAreVerified'
<1> DEFINE g == IF JoinFlight(t, req, timeout) THEN flights[req[1]] ELSE next_generation + 1
<1>1. /\ call \in [Threads -> Call] /\ \A s \in Threads \ {t} : call'[s] = call[s]
      /\ call'[t].at \in {"wait", "admit"} /\ call'[t].request = req
      /\ call'[t].generation = g
  <2>1. call \in [Threads -> Call]
    BY DEF FlightInv, TypeOK
  <2>2. CASE JoinFlight(t, req, timeout)
    <3>1. call' = [call EXCEPT ![t] = [at |-> "wait", request |-> req, deadline |-> now + timeout,
                                       generation |-> flights[req[1]], bytes |-> NoBytes]]
      BY <2>2 DEF JoinFlight
    <3>2. g = flights[req[1]]
      BY <2>2
    <3> QED
      BY <2>1, <3>1, <3>2
  <2>3. CASE LeadFlight(t, req, timeout) /\ ~JoinFlight(t, req, timeout)
    <3>1. call' = [call EXCEPT ![t] = [at |-> "admit", request |-> req, deadline |-> now + timeout,
                                       generation |-> g, bytes |-> NoBytes]]
      BY <2>3, LeadFlightEffect, ZenonT(40)
    <3> QED
      BY <2>1, <3>1
  <2> QED
    BY <2>2, <2>3
<1>2. flight'[g].payload = NoBytes /\ \A h \in DOMAIN flight : flight'[h].payload = flight[h].payload
  <2>1. CASE JoinFlight(t, req, timeout)
    <3>1. flights[req[1]] \in DOMAIN flight /\ ~flight[flights[req[1]]].done
      BY <2>1, RequestType DEF JoinFlight, FlightInv, TypeOK
    <3> QED
      BY <2>1, <3>1 DEF JoinFlight, FlightInv, FlightsAreApart
  <2>2. CASE LeadFlight(t, req, timeout) /\ ~JoinFlight(t, req, timeout)
    <3>1. /\ flight'[next_generation + 1] = [deadline |-> now + timeout, done |-> FALSE,
                                             payload |-> NoBytes]
          /\ \A h \in DOMAIN flight : flight'[h].payload = flight[h].payload
      BY <2>2, LeadFlightEffect
    <3>2. g = next_generation + 1
      BY <2>2
    <3> QED
      BY <3>1, <3>2
  <2> QED
    BY <2>1, <2>2
<1> SUFFICES ASSUME NEW s \in Threads
             PROVE  /\ call'[s].at # "out" =>
                         flight'[call'[s].generation].payload \in {NoBytes, call'[s].request[2]}
                    /\ call'[s].at \in {"out", "release"} =>
                         call'[s].bytes \in {NoBytes, call'[s].request[2]}
                    /\ call'[s].at = "publish" => call'[s].bytes = call'[s].request[2]
  BY DEF BytesAreVerified, InCall, Expected
<1>3. CASE s = t
  BY <1>1, <1>2, <1>3
<1>4. CASE s # t
  <2>1. call'[s] = call[s] /\ (InCall(s) => call[s].generation \in DOMAIN flight)
    BY <1>1, <1>4 DEF FlightInv, CallsAreOfOneKey
  <2> QED
    BY <1>2, <2>1 DEF BytesAreVerified, InCall, Expected
<1> QED
  BY <1>3, <1>4

LEMMA ProceedBytes ==
  ASSUME OneHashPerKey, FlightInv, BytesAreVerified, NEW t \in Threads, Proceed(t)
  PROVE  BytesAreVerified'
<1>1. call \in [Threads -> Call] /\ call[t] \in Call
  BY DEF FlightInv, TypeOK
<1>2. CASE FollowerReturn(t)
  <2>1. flight[call[t].generation].payload \in {NoBytes, Expected(t)}
    BY <1>2 DEF FollowerReturn, InCall, BytesAreVerified
  <2> QED
    BY <1>2, <2>1, CallChangeBytes DEF FollowerReturn, Ended, Expected
<1>3. CASE FollowerTimeout(t)
  BY <1>3, CallChangeBytes DEF FollowerTimeout, Ended
<1>4. CASE Acquire(t)
  <2> DEFINE new == [call[t] EXCEPT !.at = "loader"]
  <2>1. /\ new.request = call[t].request /\ new.generation = call[t].generation
        /\ new.at = "loader"
    BY <1>1 DEF Call
  <2>2. call' = [call EXCEPT ![t] = new] /\ InCall(t) /\ UNCHANGED flight
    BY <1>1, <1>4 DEF Acquire, InCall
  <2> QED
    BY <2>1, <2>2, CallChangeBytes
<1>5. CASE AcquireTimeout(t)
  <2> DEFINE new == [call[t] EXCEPT !.at = "except"]
  <2>1. /\ new.request = call[t].request /\ new.generation = call[t].generation
        /\ new.at = "except"
    BY <1>1 DEF Call
  <2>2. call' = [call EXCEPT ![t] = new] /\ InCall(t) /\ UNCHANGED flight
    BY <1>1, <1>5 DEF AcquireTimeout, InCall
  <2> QED
    BY <2>1, <2>2, CallChangeBytes
<1>6. CASE Release(t)
  <2> DEFINE new == [call[t] EXCEPT !.at = IF call[t].bytes = NoBytes THEN "except" ELSE "publish"]
  <2>1. /\ new.request = call[t].request /\ new.generation = call[t].generation
        /\ new.bytes = call[t].bytes
        /\ new.at = IF call[t].bytes = NoBytes THEN "except" ELSE "publish"
    BY <1>1 DEF Call
  <2>2. call' = [call EXCEPT ![t] = new] /\ InCall(t) /\ UNCHANGED flight
    BY <1>1, <1>6 DEF Release, InCall
  <2>3. call[t].bytes \in {NoBytes, Expected(t)}
    BY <1>6 DEF Release, BytesAreVerified
  <2>4. /\ new.at \in {"out", "release"} => new.bytes \in {NoBytes, new.request[2]}
        /\ new.at = "publish" => new.bytes = new.request[2]
    BY <2>1, <2>3 DEF Expected
  <2> HIDE DEF new
  <2> QED
    BY <2>1, <2>2, <2>4, CallChangeBytes
<1>7. CASE LeaderFails(t)
  <2>1. /\ InCall(t) /\ flight' = [flight EXCEPT ![call[t].generation].done = TRUE]
        /\ call' = [call EXCEPT ![t] = Ended(call[t].request, NoBytes)]
    BY <1>7 DEF LeaderFails, InCall
  <2>2. call[t].generation \in DOMAIN flight /\ flight[call[t].generation] \in Flight
    BY <2>1 DEF FlightInv, TypeOK, CallsAreOfOneKey
  <2>3. /\ flight'[call[t].generation].payload = flight[call[t].generation].payload
        /\ \A h \in DOMAIN flight : h # call[t].generation => flight'[h] = flight[h]
    BY <2>1, <2>2 DEF Flight
  <2>4. flight'[call[t].generation].payload \in {NoBytes, Expected(t)}
    BY <2>1, <2>3 DEF BytesAreVerified
  <2>5. /\ \A s \in Threads : s # t => call'[s] = call[s]
        /\ call'[t].at = "out" /\ call'[t].bytes \in {NoBytes, call'[t].request[2]}
    BY <1>1, <2>1 DEF Ended
  <2> QED
    BY <2>1, <2>3, <2>4, <2>5, LandingBytes
<1>8. CASE Publish(t)
  <2>1. /\ InCall(t) /\ call[t].bytes = Expected(t)
        /\ flight' = [flight EXCEPT ![call[t].generation] =
                        [@ EXCEPT !.payload = call[t].bytes, !.done = TRUE]]
        /\ call' = [call EXCEPT ![t] = Ended(call[t].request, call[t].bytes)]
    BY <1>8 DEF Publish, InCall, BytesAreVerified
  <2>2. call[t].generation \in DOMAIN flight /\ flight[call[t].generation] \in Flight
    BY <2>1 DEF FlightInv, TypeOK, CallsAreOfOneKey
  <2>3. /\ flight'[call[t].generation].payload \in {NoBytes, Expected(t)}
        /\ \A h \in DOMAIN flight : h # call[t].generation => flight'[h] = flight[h]
    BY <2>1, <2>2 DEF Flight
  <2>4. /\ \A s \in Threads : s # t => call'[s] = call[s]
        /\ call'[t].at = "out" /\ call'[t].bytes \in {NoBytes, call'[t].request[2]}
    BY <1>1, <2>1 DEF Ended, Expected
  <2> QED
    BY <2>1, <2>3, <2>4, LandingBytes
<1>9. CASE PublishFenced(t)
  BY <1>9, CallChangeBytes DEF PublishFenced, Ended
<1> QED
  BY <1>2, <1>3, <1>4, <1>5, <1>6, <1>7, <1>8, <1>9 DEF Proceed

LEMMA NextBytes ==
  ASSUME OneHashPerKey, FlightInv, BytesAreVerified, [GateNext]_vars
  PROVE  BytesAreVerified'
<1>1. call \in [Threads -> Call]
  BY DEF FlightInv, TypeOK
<1>2. ASSUME NEW t \in Threads, NEW req \in Requests, LoadFromCache(t, req)
      PROVE  BytesAreVerified'
  BY <1>2, CallChangeBytes DEF LoadFromCache, CacheHit, Ended
<1>3. ASSUME NEW t \in Threads, Answered(t)
      PROVE  BytesAreVerified'
  <2>1. PICK b \in Bytes : LoaderAnswers(t, b)
    BY <1>3 DEF Answered
  <2> DEFINE accepted == b = Expected(t) /\ now <= call[t].deadline
  <2> DEFINE new == [call[t] EXCEPT !.at = AfterLoader(accepted),
                                    !.bytes = IF accepted THEN b ELSE NoBytes]
  <2>2. /\ new.request = call[t].request /\ new.generation = call[t].generation
        /\ new.at = "release" /\ new.bytes \in {NoBytes, call[t].request[2]}
    BY <1>1 DEF Call, AfterLoader, Expected
  <2>3. call' = [call EXCEPT ![t] = new] /\ InCall(t) /\ UNCHANGED flight
    BY <2>1 DEF LoaderAnswers, InCall
  <2> QED
    BY <2>2, <2>3, CallChangeBytes
<1>4. CASE UNCHANGED vars \/ (\E req \in Requests : WarmVerified(req))
           \/ QuarantineCacheReads \/ ReopenCacheReads \/ (\E n \in Limits : SetLimit(n))
           \/ (\E k \in Keys, b \in Payloads : Corrupt(k, b)) \/ Tick
  <2>1. UNCHANGED <<call, flight>>
    BY <1>4 DEF vars, WarmVerified, QuarantineCacheReads, ReopenCacheReads, SetLimit, Corrupt, Tick
  <2> QED
    BY <2>1 DEF BytesAreVerified, InCall, Expected
<1> QED
  BY <1>2, <1>3, <1>4, ElectionBytes, ProceedBytes DEF GateNext

\* If every caller of a key asks for the same SHA-256, then no call returns
\* anything else, though the cache lies, followers check nothing and leaders
\* are fenced.  MCShardLoadGate's Requests keep the discipline; without it a
\* follower is handed what its leader asked for.
THEOREM ReturnsVerified == OneHashPerKey => (GateSpec => []ReturnedVerified)
<1> SUFFICES ASSUME OneHashPerKey PROVE GateSpec => []ReturnedVerified
  OBVIOUS
<1>1. GateInit => BytesAreVerified
  BY DEF GateInit, Ended, BytesAreVerified, InCall
<1>2. FlightInv /\ BytesAreVerified /\ [GateNext]_vars => BytesAreVerified'
  BY NextBytes
<1>3. BytesAreVerified => ReturnedVerified
  BY DEF BytesAreVerified, ReturnedVerified
<1> QED
  BY <1>1, <1>2, <1>3, FlightInvCorrect, PTL DEF GateSpec

-----------------------------------------------------------------------------
(***************************************************************************)
(* Verdicts.                                                               *)
(***************************************************************************)

LEMMA NextVerdict ==
  ASSUME FlightInv, [GateNext]_vars, NEW g \in DOMAIN flight, flight[g].done
  PROVE  flight'[g] = flight[g]
<1>1. \A h \in DOMAIN flight : flight[h] \in Flight
  BY DEF FlightInv, TypeOK
<1>2. ASSUME NEW t \in Threads, NEW req \in Requests, NEW timeout \in Timeouts,
             LeadFlight(t, req, timeout)
      PROVE  flight'[g] = flight[g]
  <2>1. g # flights[req[1]]
    BY RequestType, <1>1 DEF FlightInv, TypeOK, HasFlight
  <2> QED
    BY <1>2, <2>1, LeadFlightEffect, ZenonT(40)
<1>3. ASSUME NEW t \in Threads, LeaderFails(t)
      PROVE  flight'[g] = flight[g]
  <2>1. flight' = [flight EXCEPT ![call[t].generation].done = TRUE]
    BY <1>3 DEF LeaderFails
  <2> QED
    BY <1>1, <2>1 DEF Flight
<1>4. ASSUME NEW t \in Threads, Publish(t)
      PROVE  flight'[g] = flight[g]
  <2>1. KeyOf(t) \in Keys /\ flights[KeyOf(t)] = call[t].generation /\ InCall(t)
    BY <1>4, CallFields DEF Publish, StillMapped, FlightInv, TypeOK, InCall
  <2>2. call[t].generation \in DOMAIN flight /\ ~flight[call[t].generation].done
    BY <2>1 DEF FlightInv, CallsAreOfOneKey, TypeOK, HasFlight
  <2>3. g # call[t].generation
    BY <2>2
  <2> QED
    BY <1>4, <2>3 DEF Publish
<1>5. CASE UNCHANGED flight
  BY <1>5
<1>6. ASSUME NEW t \in Threads, Proceed(t)
      PROVE  flight'[g] = flight[g]
  BY <1>3, <1>4, <1>5, <1>6 DEF Proceed, FollowerReturn, FollowerTimeout, Acquire, AcquireTimeout,
     Release, PublishFenced
<1>7. ASSUME NEW t \in Threads, Answered(t)
      PROVE  flight'[g] = flight[g]
  BY <1>5, <1>7 DEF Answered, LoaderAnswers
<1>8. ASSUME NEW t \in Threads, NEW req \in Requests,
             \/ LoadFromCache(t, req)
             \/ \E timeout \in Timeouts : JoinFlight(t, req, timeout) \/ LeadFlight(t, req, timeout)
      PROVE  flight'[g] = flight[g]
  BY <1>2, <1>5, <1>8 DEF LoadFromCache, JoinFlight
<1> QED
  BY <1>5, <1>6, <1>7, <1>8 DEF GateNext, vars, WarmVerified, QuarantineCacheReads,
     ReopenCacheReads, SetLimit, Corrupt, Tick

\* The verdict on a flight is given once: the fence of an expired leader and
\* its late answer are told apart, by the map, in every interleaving.
THEOREM VerdictsAreFinal == GateSpec => VerdictIsFinal
<1>1. FlightInv /\ [GateNext]_vars
        => [\A g \in DOMAIN flight : flight[g].done => flight'[g] = flight[g]]_vars
  BY NextVerdict
<1> QED
  BY <1>1, FlightInvCorrect, PTL DEF GateSpec, VerdictIsFinal
=============================================================================
