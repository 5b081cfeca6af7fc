--------------------------- MODULE ReviewsProofs ----------------------------
(***************************************************************************)
(* Proofs about the two ledgers by which hard examples become data, for    *)
(* any cases, reviewers and signers, and however many calls overlap.       *)
(***************************************************************************)
EXTENDS ReviewLedger, AuditLedger, FiniteSetTheorems, WellFoundedInduction, TLAPS

-----------------------------------------------------------------------------
(***************************************************************************)
(* The review ledger.                                                      *)
(***************************************************************************)

Decided == {"APPROVED_FOR_DATA", "REJECTED", "ESCALATED"}

Submitting(v) == review[v] # None

\* What a call has read still holds of its row when it writes, in so far as a
\* person does not have two calls in progress: nobody but the reviewer writes
\* the reviewer's name.
CallInv(v) ==
  Submitting(v) =>
    LET c == review[v].case_id
    IN  /\ c \in DOMAIN cases
        /\ \/ review[v].stage = "first" /\ review[v].status = FirstOutcome(c)
           \/ /\ review[v].stage = "second"
              /\ review[v].status \in {"APPROVED_FOR_DATA", "REJECTED"}
              /\ c \notin SafetyCases
              /\ cases[c].first_reviewer \notin {None, v}

RowInv(c) ==
  /\ cases[c].status = "NEEDS_SECOND_REVIEW" =>
       c \notin SafetyCases /\ cases[c].first_reviewer # None
  /\ cases[c].status = "APPROVED_FOR_DATA" =>
       /\ c \notin SafetyCases
       /\ cases[c].first_reviewer # None /\ cases[c].second_reviewer # None
       /\ cases[c].first_reviewer # cases[c].second_reviewer

\* On a case where no two calls overlapped, at most one is in progress, and the
\* row is still as this one read it.
OverlapInv ==
  /\ raced \subseteq DOMAIN cases
  /\ \A v \in Reviewers : Submitting(v) /\ review[v].case_id \notin raced =>
       /\ cases[review[v].case_id].status \notin Decided
       /\ \A w \in Reviewers : Submitting(w) /\ review[w].case_id = review[v].case_id => w = v

ReviewInv ==
  /\ DOMAIN review = Reviewers
  /\ \A c \in DOMAIN cases : DOMAIN cases[c] = {"status", "first_reviewer", "second_reviewer"}
  /\ \A v \in Reviewers : CallInv(v)
  /\ \A c \in DOMAIN cases : RowInv(c)
  /\ OverlapInv

\* A call that begins.
LEMMA StartKeepsReviewInv ==
  ASSUME ReviewInv, NEW v \in Reviewers, NEW c \in DOMAIN cases, NEW submission,
         Start(v, c, submission), submission.case_id = c,
         cases[c].status \notin Decided,
         \/ submission.stage = "first" /\ submission.status = FirstOutcome(c)
         \/ /\ submission.stage = "second"
            /\ submission.status \in {"APPROVED_FOR_DATA", "REJECTED"}
            /\ c \notin SafetyCases
            /\ cases[c].first_reviewer \notin {None, v}
  PROVE  ReviewInv'
<1>1. /\ UNCHANGED cases /\ DOMAIN review' = Reviewers /\ review'[v] = submission
      /\ ~Submitting(v)
      /\ \A w \in Reviewers : w # v => review'[w] = review[w]
      /\ raced' = IF Concurrent(c) THEN raced \cup {c} ELSE raced
  BY DEF Start, ReviewInv, Submitting
<1>2. \A w \in Reviewers : CallInv(w)'
  BY <1>1 DEF ReviewInv, CallInv, Submitting, FirstOutcome
<1>3. \A d \in DOMAIN cases : RowInv(d)'
  BY <1>1 DEF ReviewInv, RowInv
<1>4. raced' \subseteq DOMAIN cases
  BY <1>1 DEF ReviewInv, OverlapInv
<1>5. ASSUME NEW w \in Reviewers, Submitting(w)', review'[w].case_id \notin raced'
      PROVE  /\ cases[review'[w].case_id].status \notin Decided
             /\ \A u \in Reviewers :
                  Submitting(u)' /\ review'[u].case_id = review'[w].case_id => u = w
  <2>1. review'[w].case_id \notin raced
    BY <1>1, <1>5
  <2>2. CASE w = v
    <3>1. \A u \in Reviewers : Submitting(u) => review[u].case_id # c
      BY <1>1, <1>5, <2>2 DEF Concurrent, Submitting
    <3> QED
      BY <1>1, <2>2, <3>1 DEF Submitting
  <2>3. CASE w # v
    <3>1. Submitting(w) /\ review'[w] = review[w]
      BY <1>1, <1>5, <2>3 DEF Submitting
    <3>2. review[w].case_id # c
      BY <1>1, <1>5, <3>1 DEF Concurrent, Submitting
    <3> QED
      BY <1>1, <2>1, <3>1, <3>2 DEF ReviewInv, OverlapInv, Submitting
  <2> QED
    BY <2>2, <2>3
<1> QED
  BY <1>1, <1>2, <1>3, <1>4, <1>5 DEF ReviewInv, OverlapInv

\* A call that writes what it has read.
LEMMA WriteKeepsReviewInv ==
  ASSUME ReviewInv, NEW v \in Reviewers, WriteReview(v)
  PROVE  ReviewInv'
<1> DEFINE s == review[v]
           c == s.case_id
           new == IF s.stage = "first"
                    THEN [cases[c] EXCEPT !.status = s.status, !.first_reviewer = v]
                    ELSE [cases[c] EXCEPT !.status = s.status, !.second_reviewer = v]
<1>1. /\ Submitting(v) /\ CallInv(v) /\ c \in DOMAIN cases /\ RowInv(c)
      /\ DOMAIN cases[c] = {"status", "first_reviewer", "second_reviewer"}
  BY DEF WriteReview, ReviewInv, CallInv, Submitting
<1>2. cases' = [cases EXCEPT ![c] = new] /\ review' = [review EXCEPT ![v] = None] /\ raced' = raced
  BY DEF WriteReview
<1>3. /\ DOMAIN new = {"status", "first_reviewer", "second_reviewer"}
      /\ new.status = s.status
      /\ s.stage = "first" => new.first_reviewer = v /\ new.second_reviewer = cases[c].second_reviewer
      /\ s.stage # "first" => new.second_reviewer = v /\ new.first_reviewer = cases[c].first_reviewer
  BY <1>1
<1> HIDE DEF new
<1>4. /\ DOMAIN cases' = DOMAIN cases /\ cases'[c] = new
      /\ \A d \in DOMAIN cases : d # c => cases'[d] = cases[d]
      /\ DOMAIN review' = Reviewers /\ review'[v] = None
      /\ \A w \in Reviewers : w # v => review'[w] = review[w]
  BY <1>1, <1>2 DEF ReviewInv
<1>5. \A d \in DOMAIN cases : DOMAIN cases'[d] = {"status", "first_reviewer", "second_reviewer"}
  BY <1>3, <1>4 DEF ReviewInv
<1>6. ASSUME NEW w \in Reviewers PROVE CallInv(w)'
  <2>1. CASE w = v
    BY <1>4, <2>1 DEF CallInv, Submitting
  <2>2. CASE w # v
    <3>1. v # None
      BY ReviewAssumption DEF ReviewAssumption
    <3>2. CallInv(w) /\ review'[w] = review[w]
      BY <1>4, <2>2 DEF ReviewInv
    <3>3. review[w].case_id = c /\ cases[c].first_reviewer \notin {None, w}
            => cases'[c].first_reviewer \notin {None, w}
      BY <1>3, <1>4, <2>2, <3>1
    <3> HIDE DEF c, s
    <3> QED
      BY <1>4, <3>2, <3>3 DEF CallInv, Submitting, FirstOutcome
  <2> QED
    BY <2>1, <2>2
<1>7. ASSUME NEW d \in DOMAIN cases, d = c PROVE RowInv(d)'
  <2>1. v # None
    BY ReviewAssumption DEF ReviewAssumption
  <2>2. /\ FirstOutcome(d) # "APPROVED_FOR_DATA"
        /\ FirstOutcome(d) = "NEEDS_SECOND_REVIEW" => d \notin SafetyCases
    BY DEF FirstOutcome
  <2>3. /\ cases'[d].status = s.status
        /\ \/ s.status = FirstOutcome(d) /\ cases'[d].first_reviewer = v
           \/ /\ s.status \in {"APPROVED_FOR_DATA", "REJECTED"} /\ d \notin SafetyCases
              /\ cases'[d].first_reviewer \notin {None, v} /\ cases'[d].second_reviewer = v
    BY <1>1, <1>3, <1>4, <1>7 DEF CallInv
  <2> HIDE DEF s
  <2> QED
    BY <2>1, <2>2, <2>3 DEF RowInv
<1>8. \A d \in DOMAIN cases : RowInv(d)'
  BY <1>4, <1>7 DEF ReviewInv, RowInv
<1>9. OverlapInv'
  <2>1. ASSUME NEW w \in Reviewers, Submitting(w)', review'[w].case_id \notin raced'
        PROVE  /\ cases'[review'[w].case_id].status \notin Decided
               /\ \A u \in Reviewers :
                    Submitting(u)' /\ review'[u].case_id = review'[w].case_id => u = w
    <3>1. w # v /\ Submitting(w) /\ review'[w] = review[w] /\ review[w].case_id \notin raced
      BY <1>2, <1>4, <2>1 DEF Submitting
    <3>2. review[w].case_id # c /\ review[w].case_id \in DOMAIN cases
      BY <1>1, <3>1 DEF ReviewInv, OverlapInv, CallInv
    <3> QED
      BY <1>4, <3>1, <3>2 DEF ReviewInv, OverlapInv, Submitting
  <2> QED
    BY <1>2, <1>4, <2>1 DEF ReviewInv, OverlapInv
<1> QED
  BY <1>4, <1>5, <1>6, <1>8, <1>9 DEF ReviewInv

LEMMA StepKeepsReviewInv ==
  ASSUME ReviewInv, [ReviewNext]_vars
  PROVE  ReviewInv'
<1>1. ASSUME NEW c \in Cases, Register(c)
      PROVE  ReviewInv'
  <2> DEFINE new == [status |-> "PENDING", first_reviewer |-> None, second_reviewer |-> None]
  <2>1. new.status = "PENDING" /\ DOMAIN new = {"status", "first_reviewer", "second_reviewer"}
    OBVIOUS
  <2>2. /\ cases' = [d \in DOMAIN cases \cup {c} |-> IF d = c THEN new ELSE cases[d]]
        /\ c \notin DOMAIN cases /\ UNCHANGED <<review, raced>>
    BY <1>1 DEF Register
  <2> HIDE DEF new
  <2>3. /\ DOMAIN cases' = DOMAIN cases \cup {c} /\ cases'[c] = new
        /\ \A d \in DOMAIN cases : cases'[d] = cases[d]
    BY <2>2
  <2>4. \A v \in Reviewers : CallInv(v)'
    BY <2>2, <2>3 DEF ReviewInv, CallInv, Submitting, FirstOutcome
  <2>5. \A d \in DOMAIN cases' : RowInv(d)'
    BY <2>1, <2>3 DEF ReviewInv, RowInv
  <2>6. OverlapInv'
    BY <2>2, <2>3 DEF ReviewInv, OverlapInv, CallInv, Submitting
  <2> QED
    BY <2>1, <2>2, <2>3, <2>4, <2>5, <2>6 DEF ReviewInv
<1>2. ASSUME NEW v \in Reviewers, NEW c \in Cases, ReadForFirstReview(v, c)
      PROVE  ReviewInv'
  <2> DEFINE submission == [case_id |-> c, stage |-> "first", status |-> FirstOutcome(c),
                            seen_first |-> cases[c].first_reviewer]
  <2>1. /\ submission.case_id = c /\ submission.stage = "first"
        /\ submission.status = FirstOutcome(c)
    OBVIOUS
  <2>2. c \in DOMAIN cases /\ cases[c].status \notin Decided /\ Start(v, c, submission)
    BY <1>2 DEF ReadForFirstReview, Decided
  <2> HIDE DEF submission
  <2> QED
    BY <2>1, <2>2, StartKeepsReviewInv
<1>3. ASSUME NEW v \in Reviewers, NEW c \in Cases, NEW approve \in BOOLEAN,
             ReadForSecondReview(v, c, approve)
      PROVE  ReviewInv'
  <2> DEFINE submission == [case_id |-> c, stage |-> "second",
                            status |-> IF approve THEN "APPROVED_FOR_DATA" ELSE "REJECTED",
                            seen_first |-> cases[c].first_reviewer]
  <2>1. /\ submission.case_id = c /\ submission.stage = "second"
        /\ submission.status \in {"APPROVED_FOR_DATA", "REJECTED"}
    OBVIOUS
  <2>2. /\ c \in DOMAIN cases /\ cases[c].status = "NEEDS_SECOND_REVIEW"
        /\ Start(v, c, submission) /\ v # cases[c].first_reviewer
    BY <1>3 DEF ReadForSecondReview, AwaitsSecond, Independent
  <2>3. c \notin SafetyCases /\ cases[c].first_reviewer # None /\ cases[c].status \notin Decided
    BY <2>2 DEF ReviewInv, RowInv, Decided
  <2> HIDE DEF submission
  <2> QED
    BY <2>1, <2>2, <2>3, StartKeepsReviewInv
<1>4. ASSUME NEW v \in Reviewers, LoseReviewer(v)
      PROVE  ReviewInv'
  <2>1. /\ UNCHANGED <<cases, raced>> /\ DOMAIN review' = Reviewers /\ review'[v] = None
        /\ \A w \in Reviewers : w # v => review'[w] = review[w]
    BY <1>4 DEF LoseReviewer, ReviewInv
  <2>2. \A w \in Reviewers : CallInv(w)'
    BY <2>1 DEF ReviewInv, CallInv, Submitting, FirstOutcome
  <2>3. \A d \in DOMAIN cases' : RowInv(d)'
    BY <2>1 DEF ReviewInv, RowInv
  <2>4. OverlapInv'
    BY <2>1 DEF ReviewInv, OverlapInv, Submitting
  <2> QED
    BY <2>1, <2>2, <2>3, <2>4 DEF ReviewInv
<1>5. CASE UNCHANGED vars
  <2>1. \A w \in Reviewers : CallInv(w)'
    BY <1>5 DEF vars, ReviewInv, CallInv, Submitting, FirstOutcome
  <2>2. \A d \in DOMAIN cases' : RowInv(d)'
    BY <1>5 DEF vars, ReviewInv, RowInv
  <2>3. OverlapInv'
    BY <1>5 DEF vars, ReviewInv, OverlapInv, Submitting
  <2> QED
    BY <1>5, <2>1, <2>2, <2>3 DEF vars, ReviewInv
<1> QED
  BY <1>1, <1>2, <1>3, <1>4, <1>5, WriteKeepsReviewInv DEF ReviewNext

LEMMA InitReviewInv == ReviewInit => ReviewInv
BY DEF ReviewInit, ReviewInv, CallInv, RowInv, OverlapInv, Submitting

\* The inductive invariant of the review ledger: what a call in progress has read
\* and what a row can hold.
THEOREM ReviewInvCorrect == ReviewSpec => []ReviewInv
BY InitReviewInv, StepKeepsReviewInv, PTL DEF ReviewSpec

\* Approved data carries two reviews by two people, and a safety case is never
\* approved, although a review is written without looking at the row again and
\* any number of others may have written since.
THEOREM ApprovalCorrect == ReviewSpec => []ApprovalIsIndependent
<1>1. ReviewInv => ApprovalIsIndependent
  BY DEF ReviewInv, RowInv, CallInv, Submitting, ApprovalIsIndependent
<1> QED
  BY <1>1, ReviewInvCorrect, PTL

\* On a case where no two calls overlapped, a decision is final.
LEMMA DecisionStandsStep ==
  ASSUME ReviewInv, [ReviewNext]_vars, NEW c \in DOMAIN cases \ raced, cases[c].status \in Decided
  PROVE  cases'[c] = cases[c]
<1>1. ASSUME NEW v \in Reviewers, WriteReview(v)
      PROVE  cases'[c] = cases[c]
  <2>1. review[v].case_id # c
    BY <1>1 DEF WriteReview, ReviewInv, OverlapInv, Submitting
  <2> DEFINE d == review[v].case_id
             new == IF review[v].stage = "first"
                      THEN [cases[d] EXCEPT !.status = review[v].status, !.first_reviewer = v]
                      ELSE [cases[d] EXCEPT !.status = review[v].status, !.second_reviewer = v]
  <2>2. cases' = [cases EXCEPT ![d] = new]
    BY <1>1 DEF WriteReview
  <2> HIDE DEF new
  <2> QED
    BY <2>1, <2>2
<1>2. ASSUME NEW d \in Cases, Register(d)
      PROVE  cases'[c] = cases[c]
  <2> DEFINE new == [status |-> "PENDING", first_reviewer |-> None, second_reviewer |-> None]
  <2>1. cases' = [e \in DOMAIN cases \cup {d} |-> IF e = d THEN new ELSE cases[e]]
        /\ d \notin DOMAIN cases
    BY <1>2 DEF Register
  <2> HIDE DEF new
  <2> QED
    BY <2>1
<1> QED
  BY <1>1, <1>2 DEF ReviewNext, ReadForFirstReview, ReadForSecondReview, Start, LoseReviewer, vars

\* Neither a rejection nor an approval is taken back, on a case on which no two
\* calls overlapped.
THEOREM DecisionCorrect == ReviewSpec => DecisionStands
<1>1. ReviewInv /\ [ReviewNext]_vars =>
        [\A c \in DOMAIN cases \ raced :
           cases[c].status \in {"APPROVED_FOR_DATA", "REJECTED", "ESCALATED"} =>
             cases'[c] = cases[c]]_vars
  BY DecisionStandsStep DEF Decided
<1> QED
  BY <1>1, ReviewInvCorrect, PTL DEF ReviewSpec, DecisionStands

-----------------------------------------------------------------------------
(***************************************************************************)
(* The audit ledger.                                                       *)
(***************************************************************************)

Count == Cardinality(appended)

Payloads == {[manifest_sha256 |-> m] : m \in Manifests} \cup {[checks |-> TRUE]}
              \cup {Payload(call) : call \in Reviews}

Entry == [case_id : AuditCases, event_type : EventTypes, payload : Payloads,
          evidence_root : Manifests, signer_id : Signers, created_ns : Nat]

\* A hash of events that were signed before now.
Dated(hash) ==
  hash \in Seq(Entry) /\ hash # <<>> /\ hash[Len(hash)].created_ns < Count

RowTypes(row) ==
  /\ DOMAIN row = {"unsigned", "previous", "event_hash", "signature"}
  /\ row.unsigned \in Entry /\ row.unsigned.created_ns < Count
  /\ row.previous \in Seq(Entry)
  /\ Dated(row.event_hash)
  /\ row.signature.of \in appended
  /\ row.unsigned.event_type \in {"REVIEW_SUBMITTED", "REVIEW_CONFIRMED"} =>
       \E call \in Reviews : row.unsigned.payload = Payload(call)

Fields == {"phase", "identities", "evidence", "chain", "disturbed", "owed"}

AuditTypes ==
  /\ IsFiniteSet(appended) /\ \A hash \in appended : Dated(hash)
  /\ DOMAIN evidence \subseteq AuditCases
  /\ \A c \in DOMAIN evidence : evidence[c] \in [manifest : Manifests, root : Manifests]
  /\ DOMAIN events \subseteq 1 .. Count /\ \A n \in DOMAIN events : RowTypes(events[n])
  /\ \A a \in anchors : Dated(a.event_hash)
  /\ DOMAIN verification = Fields
  /\ verification.disturbed \in BOOLEAN
  /\ alterations \in Nat

\* The row is one that the ledger appended, for the evidence that is registered.
Genuine(row) ==
  LET e == row.unsigned
  IN  /\ row.event_hash \in appended /\ row.event_hash[Len(row.event_hash)] = e
      /\ e.event_type \in RoleAllowedEvents(RoleOf[e.signer_id])
      /\ e.case_id \in DOMAIN evidence /\ evidence[e.case_id].root = e.evidence_root

\* Since its reads of the evidence and of the events, everything that a
\* verification has found still holds, whatever was written in the meantime: new
\* rows come after the chain it read, and are newer than all that was anchored.
VerificationInv ==
  /\ Running => \A hash \in verification.owed : \E a \in anchors : a.event_hash = hash
  /\ verification.phase = "evidence" => \A c \in DOMAIN verification.evidence :
       c \in DOMAIN evidence /\ verification.evidence[c] = evidence[c].root
  /\ Running \/ Passed => \A c \in DOMAIN evidence : evidence[c].manifest = evidence[c].root
  /\ verification.phase \in {"events", "passed"} => \A n \in DOMAIN events : Genuine(events[n])
  /\ verification.phase = "events" =>
       /\ verification.chain \in Seq(Entry)
       /\ \/ verification.chain = <<>>
          \/ verification.chain \in appended /\ Len(verification.chain) \in DOMAIN events
       /\ \A n \in DOMAIN events :
            IF n <= Len(verification.chain)
              THEN IsPrefix(events[n].event_hash, verification.chain)
              ELSE events[n].event_hash \notin verification.owed
  /\ VerifiedIsHistory

AuditInv == AuditTypes /\ VerificationInv

\* What the ledger alone has written verifies.
Untouched ==
  /\ \A c \in DOMAIN evidence :
       /\ CaseOf[evidence[c].manifest] = c /\ ContractHolds(evidence[c].manifest)
       /\ evidence[c].manifest = evidence[c].root
  /\ DOMAIN events = 1 .. Latest(events)
  /\ \A n \in DOMAIN events :
       LET row == events[n]
           e == row.unsigned
       IN  /\ row.previous = IF n = 1 THEN <<>> ELSE events[n - 1].event_hash
           /\ e.signer_id \in identities
           /\ e.event_type \in RoleAllowedEvents(RoleOf[e.signer_id])
           /\ e.case_id \in DOMAIN evidence /\ evidence[e.case_id].root = e.evidence_root
           /\ row.event_hash = Append(row.previous, e)
           /\ Signed(row)
  /\ \A a \in anchors :
       /\ a.signer_id \in identities /\ RoleOf[a.signer_id] = "anchor"
       /\ a.sequence \in DOMAIN events /\ events[a.sequence].event_hash = a.event_hash

\* What verify_integrity has read is still so, and it raised only if it was not.
Informed ==
  /\ Running /\ ~verification.disturbed =>
       /\ verification.identities = identities
       /\ verification.phase = "evidence" =>
            verification.evidence = [c \in DOMAIN evidence |-> evidence[c].root]
  /\ verification.phase = "raised" => verification.disturbed

CauseInv == alterations = 0 => Untouched /\ Informed

\* A set of naturals that is not empty has a least element.
LEMMA LeastNatural ==
  ASSUME NEW T \in SUBSET Nat, T # {}
  PROVE  \E m \in T : \A n \in T : m <= n
<1> DEFINE Less == OpToRel(<, Nat)
<1>1. IsWellFoundedOn(Less, Nat)
  BY NatLessThanWellFounded, Zenon
<1>2. \A m, n \in Nat : n < m => <<n, m>> \in Less
  BY DEF OpToRel
<1> HIDE DEF Less
<1>3. PICK m \in T : \A n \in T : ~(<<n, m>> \in Less)
  BY <1>1, WFMin
<1>4. ASSUME NEW n \in T PROVE m <= n
  <2>1. m \in Nat /\ n \in Nat /\ ~(n < m)
    BY <1>2, <1>3
  <2> QED
    BY <2>1
<1> QED
  BY <1>4

\* The last element of a sequence that is not empty, and of one that was appended to.
LEMMA LastElement ==
  ASSUME NEW S, NEW s \in Seq(S)
  PROVE  /\ s # <<>> => s[Len(s)] \in S
         /\ \A x \in S : /\ Append(s, x) \in Seq(S) /\ Append(s, x) # <<>>
                         /\ Append(s, x)[Len(Append(s, x))] = x
                         /\ Len(Append(s, x)) = Len(s) + 1
OBVIOUS

LEMMA LatestIsLast ==
  ASSUME NEW rows, NEW bound \in Nat, DOMAIN rows \subseteq 1 .. bound
  PROVE  /\ Latest(rows) \in Nat /\ \A n \in DOMAIN rows : n <= Latest(rows)
         /\ DOMAIN rows # {} => Latest(rows) \in DOMAIN rows
<1>1. CASE DOMAIN rows = {}
  BY <1>1 DEF Latest
<1>2. CASE DOMAIN rows # {}
  <2> DEFINE bounds == {b \in Nat : \A n \in DOMAIN rows : n <= b}
  <2>1. bounds \in SUBSET Nat /\ bound \in bounds
    OBVIOUS
  <2>2. PICK m \in bounds : \A b \in bounds : m <= b
    BY <2>1, LeastNatural, Zenon
  <2>3. m \in DOMAIN rows
    <3>1. SUFFICES ASSUME m \notin DOMAIN rows PROVE FALSE
      OBVIOUS
    <3>2. m \in Nat \ {0}
      BY <1>2, <2>2
    <3>3. m - 1 \in bounds
      BY <2>2, <3>1, <3>2
    <3> QED
      BY <2>2, <3>2, <3>3
  <2>4. Latest(rows) = CHOOSE x \in DOMAIN rows : \A y \in DOMAIN rows : x >= y
    BY <1>2 DEF Latest, Max
  <2>5. Latest(rows) \in DOMAIN rows /\ \A n \in DOMAIN rows : Latest(rows) >= n
    BY <2>2, <2>3, <2>4
  <2> QED
    BY <2>5
<1> QED
  BY <1>1, <1>2

\* The appended row is the last, refers to the one before it, and is new.
NewRow(n, case, type, payload, root, signer) ==
  LET row == events'[n]
      e == row.unsigned
  IN  /\ n = Latest(events) + 1 /\ n \in Nat \ {0}
      /\ DOMAIN events' = DOMAIN events \cup {n}
      /\ \A m \in DOMAIN events : m < n /\ events'[m] = events[m]
      /\ row.previous = HeadHash(events) /\ row.event_hash = Append(row.previous, e)
      /\ row.event_hash \in appended' /\ row.event_hash[Len(row.event_hash)] = e
      /\ row.signature = [by |-> e.signer_id, of |-> row.event_hash]
      /\ e.case_id = case /\ e.event_type = type /\ e.evidence_root = root
      /\ e.signer_id = signer /\ e.created_ns = Count
      /\ signer \in identities /\ type \in RoleAllowedEvents(RoleOf[signer])
      /\ RowTypes(events[n])'

LEMMA AppendedRow ==
  ASSUME AuditTypes, NEW case \in AuditCases, NEW type, NEW payload \in Payloads,
         NEW root \in Manifests, NEW signer \in Signers,
         AppendEvent(case, type, payload, root, signer),
         type \in {"REVIEW_SUBMITTED", "REVIEW_CONFIRMED"} =>
           \E call \in Reviews : payload = Payload(call)
  PROVE  /\ appended \subseteq appended' /\ IsFiniteSet(appended') /\ Count' = Count + 1
         /\ \A hash \in appended' : Dated(hash)'
         /\ \E n : NewRow(n, case, type, payload, root, signer)
<1>2. Count \in Nat
  BY FS_CardinalityType DEF AuditTypes, Count
<1>5. /\ Latest(events) \in Nat /\ \A m \in DOMAIN events : m <= Latest(events)
      /\ HeadHash(events) \in Seq(Entry)
  <2>1. /\ Latest(events) \in Nat /\ \A m \in DOMAIN events : m <= Latest(events)
        /\ DOMAIN events # {} => Latest(events) \in DOMAIN events
    BY <1>2, LatestIsLast DEF AuditTypes
  <2>2. CASE DOMAIN events = {}
    BY <2>1, <2>2 DEF HeadHash
  <2>3. CASE DOMAIN events # {}
    BY <2>1, <2>3 DEF HeadHash, AuditTypes, RowTypes, Dated
  <2> QED
    BY <2>1, <2>2, <2>3
<1>0. SUFFICES ASSUME
      NEW e, e = [case_id |-> case, event_type |-> type, payload |-> payload,
                  evidence_root |-> root, signer_id |-> signer, created_ns |-> Count],
      NEW h, h = Append(HeadHash(events), e),
      NEW row, row = [unsigned |-> e, previous |-> HeadHash(events), event_hash |-> h,
                      signature |-> [by |-> signer, of |-> h]],
      NEW n, n = Latest(events) + 1
    PROVE /\ appended \subseteq appended' /\ IsFiniteSet(appended') /\ Count' = Count + 1
          /\ \A hash \in appended' : Dated(hash)'
          /\ NewRow(n, case, type, payload, root, signer)
  OBVIOUS
<1>1. /\ MaySign(signer, type)
      /\ events' = [m \in DOMAIN events \cup {n} |-> IF m = n THEN row ELSE events[m]]
      /\ appended' = appended \cup {h}
  BY <1>0 DEF AppendEvent, Count
<1>3. type \in EventTypes
  BY <1>1 DEF MaySign, EventTypes
<1>4. e \in Entry /\ e.created_ns = Count
  BY <1>0, <1>2, <1>3 DEF Entry
<1>6. /\ e.case_id = case /\ e.event_type = type /\ e.payload = payload
      /\ e.evidence_root = root /\ e.signer_id = signer
  BY <1>0
<1>7. h \in Seq(Entry) /\ h # <<>> /\ h[Len(h)] = e
  <2>1. \A s \in Seq(Entry), x \in Entry :
          Append(s, x) \in Seq(Entry) /\ Append(s, x) # <<>> /\ Append(s, x)[Len(Append(s, x))] = x
    BY LastElement
  <2>2. h = Append(HeadHash(events), e) /\ HeadHash(events) \in Seq(Entry) /\ e \in Entry
    BY <1>0, <1>4, <1>5, Zenon
  <2> QED
    BY <2>1, <2>2, Zenon
<1>8. /\ row.unsigned = e /\ row.previous = HeadHash(events) /\ row.event_hash = h
      /\ row.signature = [by |-> signer, of |-> h] /\ row.signature.of = h
      /\ DOMAIN row = {"unsigned", "previous", "event_hash", "signature"}
  BY <1>0
<1>9. h \notin appended
  <2>1. ~Dated(h)
    <3>1. h[Len(h)].created_ns = Count
      BY <1>4, <1>7, Zenon
    <3> QED
      BY <3>1, <1>2 DEF Dated
  <2> QED
    BY <2>1 DEF AuditTypes
<1>10. IsFiniteSet(appended') /\ Count' = Count + 1
  BY <1>1, <1>9, FS_AddElement DEF AuditTypes, Count
<1>11. \A g : Dated(g) => Dated(g)'
  <2>1. ASSUME NEW g, Dated(g) PROVE g[Len(g)] \in Entry
    BY <2>1, LastElement, Zenon DEF Dated
  <2>2. \A x \in Entry : x.created_ns \in Nat
    BY DEF Entry
  <2>3. ASSUME NEW g, Dated(g) PROVE Dated(g)'
    <3>1. g[Len(g)].created_ns \in Nat
      BY <2>1, <2>2, <2>3, Zenon
    <3> QED
      BY <3>1, <2>3, <1>2, <1>10 DEF Dated
  <2> QED
    BY <2>3
<1>12. Dated(h)'
  BY <1>2, <1>4, <1>7, <1>10 DEF Dated
<1>13. \A g \in appended' : Dated(g)'
  BY <1>1, <1>11, <1>12 DEF AuditTypes
<1>14. n \in Nat \ {0} /\ \A m \in DOMAIN events : m < n
  BY <1>0, <1>5 DEF AuditTypes
<1>15. DOMAIN events' = DOMAIN events \cup {n} /\ events'[n] = row
       /\ \A m \in DOMAIN events : events'[m] = events[m]
  BY <1>1, <1>14
<1>16. RowTypes(row)'
  BY <1>1, <1>2, <1>4, <1>5, <1>6, <1>8, <1>10, <1>12 DEF RowTypes
<1>17. NewRow(n, case, type, payload, root, signer)
  <2>1. MaySign(signer, type) => signer \in identities /\ type \in RoleAllowedEvents(RoleOf[signer])
    BY DEF MaySign
  <2> QED
    BY <1>0, <1>1, <1>6, <1>7, <1>8, <1>4, <1>14, <1>15, <1>16, <2>1 DEF NewRow
<1> QED
  BY <1>1, <1>10, <1>13, <1>17

-----------------------------------------------------------------------------
(* What a step does to the run of verify_integrity.                         *)

LEMMA UnverifiedFields ==
  /\ DOMAIN Unverified = Fields /\ Unverified.phase = "none"
  /\ Unverified.disturbed = FALSE /\ Unverified.chain = <<>>
BY DEF Unverified, Fields

LEMMA WroteFields ==
  ASSUME AuditTypes, NEW cause \in BOOLEAN, Wrote(cause)
  PROVE  /\ DOMAIN verification' = Fields /\ verification'.disturbed \in BOOLEAN
         /\ ~Running => verification'.phase = "none"
         /\ Running =>
              /\ verification'.phase = verification.phase
              /\ verification'.identities = verification.identities
              /\ verification'.evidence = verification.evidence
              /\ verification'.chain = verification.chain
              /\ verification'.owed = verification.owed
              /\ verification'.disturbed = (verification.disturbed \/ cause)
<1>1. CASE Running
  <2>1. verification' = [verification EXCEPT !.disturbed = verification.disturbed \/ cause]
    BY <1>1 DEF Wrote
  <2>2. DOMAIN verification = Fields /\ verification.disturbed \in BOOLEAN
    BY DEF AuditTypes, Fields
  <2> QED
    BY <1>1, <2>1, <2>2 DEF Fields
<1>2. CASE ~Running
  BY <1>2, UnverifiedFields DEF Wrote
<1> QED
  BY <1>1, <1>2

LEMMA ConcludeFields ==
  ASSUME NEW ok \in BOOLEAN, NEW next, next.disturbed \in BOOLEAN, Conclude(ok, next)
  PROVE  /\ ok => verification' = next
         /\ ~ok => /\ DOMAIN verification' = Fields /\ verification'.phase = "raised"
                   /\ verification'.disturbed = next.disturbed
<1>1. CASE ok
  BY <1>1 DEF Conclude
<1>2. CASE ~ok
  <2>1. verification' = [Unverified EXCEPT !.phase = "raised", !.disturbed = next.disturbed]
    BY <1>2 DEF Conclude
  <2> QED
    BY <1>2, <2>1, UnverifiedFields DEF Fields
<1> QED
  BY <1>1, <1>2

\* What each read of verify_integrity checks.
EvidenceVerifies == \A c \in DOMAIN evidence :
  /\ CaseOf[evidence[c].manifest] = c
  /\ ContractHolds(evidence[c].manifest)
  /\ EvidenceRoot(evidence[c].manifest) = evidence[c].root

EventsVerify == DOMAIN events = 1 .. Latest(events) /\ \A n \in DOMAIN events : RowVerifies(n)

AnchorsVerify == \A a \in anchors :
  /\ a.signer_id \in verification.identities /\ RoleOf[a.signer_id] = "anchor"
  /\ a.sequence \in DOMAIN events
  /\ events[a.sequence].event_hash = a.event_hash

LEMMA ReadEvidenceFields ==
  ASSUME ReadEvidence
  PROVE  /\ DOMAIN verification' = Fields /\ verification'.disturbed = FALSE
         /\ ~EvidenceVerifies => verification'.phase = "raised"
         /\ EvidenceVerifies =>
              /\ verification'.phase = "evidence" /\ verification'.identities = identities
              /\ verification'.evidence = [c \in DOMAIN evidence |-> evidence[c].root]
              /\ verification'.owed = {a.event_hash : a \in anchors}
<1> DEFINE roots == [c \in DOMAIN evidence |-> evidence[c].root]
           owed == {a.event_hash : a \in anchors}
           next == [Unverified EXCEPT !.phase = "evidence", !.identities = identities,
                                      !.evidence = roots, !.owed = owed]
<1>1. Conclude(EvidenceVerifies, next)
  BY Zenon DEF ReadEvidence, EvidenceVerifies
<1> HIDE DEF roots, owed
<1>2. /\ DOMAIN next = Fields /\ next.disturbed = FALSE /\ next.phase = "evidence"
      /\ next.identities = identities /\ next.evidence = roots /\ next.owed = owed
      /\ next.disturbed \in BOOLEAN
  BY UnverifiedFields DEF Fields
<1>3. EvidenceVerifies \in BOOLEAN
  BY DEF EvidenceVerifies
<1> HIDE DEF next
<1>4. /\ EvidenceVerifies => verification' = next
      /\ ~EvidenceVerifies => /\ DOMAIN verification' = Fields /\ verification'.phase = "raised"
                              /\ verification'.disturbed = FALSE
  BY <1>1, <1>2, <1>3, ConcludeFields
<1> QED
  BY <1>2, <1>4 DEF roots, owed

LEMMA ReadEventsFields ==
  ASSUME AuditTypes, ReadEvents
  PROVE  /\ DOMAIN verification' = Fields /\ verification'.disturbed = verification.disturbed
         /\ ~EventsVerify => verification'.phase = "raised"
         /\ EventsVerify =>
              /\ verification'.phase = "events" /\ verification'.chain = HeadHash(events)
              /\ verification'.identities = verification.identities
              /\ verification'.owed = verification.owed
<1> DEFINE next == [verification EXCEPT !.phase = "events", !.chain = HeadHash(events),
                                        !.evidence = NoCases]
<1>1. Conclude(EventsVerify, next)
  BY Zenon DEF ReadEvents, EventsVerify
<1>2. /\ DOMAIN next = Fields /\ next.disturbed = verification.disturbed
      /\ next.phase = "events" /\ next.chain = HeadHash(events)
      /\ next.identities = verification.identities /\ next.owed = verification.owed
      /\ next.disturbed \in BOOLEAN
  BY DEF Fields, AuditTypes
<1>3. EventsVerify \in BOOLEAN
  BY DEF EventsVerify
<1> HIDE DEF next
<1>4. /\ EventsVerify => verification' = next
      /\ ~EventsVerify => /\ DOMAIN verification' = Fields /\ verification'.phase = "raised"
                          /\ verification'.disturbed = verification.disturbed
  BY <1>1, <1>2, <1>3, ConcludeFields
<1> QED
  BY <1>2, <1>4

LEMMA ReadAnchorsFields ==
  ASSUME AuditTypes, ReadAnchors
  PROVE  /\ DOMAIN verification' = Fields /\ verification'.disturbed = verification.disturbed
         /\ ~AnchorsVerify => verification'.phase = "raised"
         /\ AnchorsVerify => /\ verification'.phase = "passed"
                             /\ verification'.chain = verification.chain
                             /\ verification'.owed = verification.owed
<1> DEFINE next == [verification EXCEPT !.phase = "passed", !.identities = {}]
<1>1. Conclude(AnchorsVerify, next)
  BY Zenon DEF ReadAnchors, AnchorsVerify
<1>2. /\ DOMAIN next = Fields /\ next.disturbed = verification.disturbed
      /\ next.phase = "passed" /\ next.chain = verification.chain
      /\ next.owed = verification.owed /\ next.disturbed \in BOOLEAN
  BY DEF Fields, AuditTypes
<1>3. AnchorsVerify \in BOOLEAN
  BY DEF AnchorsVerify
<1> HIDE DEF next
<1>4. /\ AnchorsVerify => verification' = next
      /\ ~AnchorsVerify => /\ DOMAIN verification' = Fields /\ verification'.phase = "raised"
                           /\ verification'.disturbed = verification.disturbed
  BY <1>1, <1>2, <1>3, ConcludeFields
<1> QED
  BY <1>2, <1>4

\* A verification that is neither running nor passed claims nothing.
LEMMA NothingClaimed ==
  ASSUME verification'.phase \in {"none", "raised"}
  PROVE  VerificationInv'
BY DEF VerificationInv, VerifiedIsHistory, Running, Passed

-----------------------------------------------------------------------------
(* Types.                                                                   *)

\* What was signed before stays signed before.
LEMMA TypesGrow ==
  ASSUME AuditTypes, appended \subseteq appended',
         Count' = Count \/ Count' = Count + 1
  PROVE  /\ \A hash : Dated(hash) => Dated(hash)'
         /\ \A row : RowTypes(row) => RowTypes(row)'
<1>1. Count \in Nat
  BY FS_CardinalityType DEF AuditTypes, Count
<1>2. ASSUME NEW x \in Nat, x < Count PROVE x < Count'
  BY <1>1, <1>2
<1>3. \A x \in Entry : x.created_ns \in Nat
  BY DEF Entry
<1>4. ASSUME NEW hash, Dated(hash) PROVE Dated(hash)'
  <2>1. hash[Len(hash)] \in Entry
    BY <1>4, LastElement, Zenon DEF Dated
  <2> QED
    BY <1>2, <1>3, <1>4, <2>1, Zenon DEF Dated
<1>5. ASSUME NEW row, RowTypes(row) PROVE RowTypes(row)'
  <2>1. row.unsigned.created_ns < Count'
    BY <1>2, <1>3, <1>5, Zenon DEF RowTypes
  <2> QED
    BY <1>4, <1>5, <2>1 DEF RowTypes
<1> QED
  BY <1>4, <1>5

EvidenceTypes ==
  /\ DOMAIN evidence \subseteq AuditCases
  /\ \A c \in DOMAIN evidence : evidence[c] \in [manifest : Manifests, root : Manifests]

LEMMA AppendKeepsTypes ==
  ASSUME AuditTypes, NEW case \in AuditCases, NEW type, NEW payload \in Payloads,
         NEW root \in Manifests, NEW signer \in Signers, NEW cause \in BOOLEAN,
         AppendEvent(case, type, payload, root, signer),
         type \in {"REVIEW_SUBMITTED", "REVIEW_CONFIRMED"} =>
           \E call \in Reviews : payload = Payload(call),
         EvidenceTypes', Wrote(cause), UNCHANGED <<anchors, alterations>>
  PROVE  AuditTypes'
<1>1. /\ appended \subseteq appended' /\ IsFiniteSet(appended') /\ Count' = Count + 1
      /\ \A hash \in appended' : Dated(hash)'
  BY AppendedRow
<1>2. PICK n : NewRow(n, case, type, payload, root, signer)
  BY AppendedRow
<1>3. /\ \A hash : Dated(hash) => Dated(hash)'
      /\ \A row : RowTypes(row) => RowTypes(row)'
  BY <1>1, TypesGrow
<1>4. Count \in Nat /\ DOMAIN events \subseteq 1 .. Count
  BY FS_CardinalityType DEF AuditTypes, Count
<1>5. DOMAIN events' \subseteq 1 .. Count'
  <2>1. /\ n \in Nat \ {0} /\ DOMAIN events' = DOMAIN events \cup {n}
        /\ n = Latest(events) + 1
    BY <1>2 DEF NewRow
  <2>2. Latest(events) \in Nat /\ (DOMAIN events # {} => Latest(events) \in DOMAIN events)
    BY <1>4, LatestIsLast
  <2>3. DOMAIN events = {} => Latest(events) = 0
    BY DEF Latest
  <2>4. n \in 1 .. (Count + 1)
    BY <1>4, <2>1, <2>2, <2>3, SMTT(30)
  <2>5. 1 .. Count \subseteq 1 .. (Count + 1) /\ 1 .. Count' = 1 .. (Count + 1)
    BY <1>1, <1>4
  <2> QED
    BY <1>4, <2>1, <2>4, <2>5, Zenon
<1>6. (\A m \in DOMAIN events : RowTypes(events[m]))'
  <2>1. ASSUME NEW m \in DOMAIN events' PROVE RowTypes(events[m])'
    <3>1. CASE m = n
      BY <1>2, <3>1 DEF NewRow
    <3>2. CASE m # n
      <4>1. m \in DOMAIN events /\ events'[m] = events[m]
        BY <1>2, <3>2 DEF NewRow
      <4>2. RowTypes(events[m])
        BY <4>1 DEF AuditTypes
      <4>3. ASSUME NEW row, row = events[m] PROVE RowTypes(row)'
        BY <1>3, <4>2, <4>3
      <4>4. ASSUME NEW row, row = events[m], RowTypes(row)' PROVE RowTypes(events[m])'
        BY <4>1, <4>4 DEF RowTypes
      <4> QED
        BY <4>3, <4>4
    <3> QED
      BY <3>1, <3>2
  <2> QED
    BY <2>1
<1>7. \A a \in anchors' : Dated(a.event_hash)'
  BY <1>3 DEF AuditTypes
<1>8. DOMAIN verification' = Fields /\ verification'.disturbed \in BOOLEAN
  BY WroteFields
<1> QED
  BY <1>1, <1>5, <1>6, <1>7, <1>8 DEF AuditTypes, EvidenceTypes

LEMMA AlteredRow ==
  ASSUME AuditTypes, NEW row, RowTypes(row), NEW call \in Reviews, NEW rehash \in BOOLEAN
  PROVE  RowTypes(Altered(row, call, rehash))
<1> DEFINE e == [row.unsigned EXCEPT !.payload = Payload(call)]
           hash == IF rehash THEN Append(row.previous, e) ELSE row.event_hash
<1>1. row.unsigned \in Entry /\ Payload(call) \in Payloads
  BY DEF RowTypes, Payloads
<1>2. e \in Entry /\ e.payload = Payload(call) /\ e.created_ns = row.unsigned.created_ns
  BY <1>1 DEF Entry
<1>3. Altered(row, call, rehash) = [row EXCEPT !.unsigned = e, !.event_hash = hash]
  BY DEF Altered
<1> HIDE DEF e
<1>4. Dated(hash)
  <2>1. CASE rehash
    <3>1. /\ Append(row.previous, e) \in Seq(Entry) /\ Append(row.previous, e) # <<>>
          /\ Append(row.previous, e)[Len(Append(row.previous, e))] = e
      BY <1>2, LastElement DEF RowTypes
    <3> QED
      BY <1>2, <2>1, <3>1 DEF Dated, RowTypes
  <2>2. CASE ~rehash
    BY <2>2 DEF RowTypes
  <2> QED
    BY <2>1, <2>2
<1> HIDE DEF hash
<1>5. ASSUME NEW new, new = [row EXCEPT !.unsigned = e, !.event_hash = hash]
      PROVE  /\ DOMAIN new = {"unsigned", "previous", "event_hash", "signature"}
             /\ new.unsigned = e /\ new.event_hash = hash /\ new.previous = row.previous
             /\ new.signature = row.signature
  BY <1>5 DEF RowTypes
<1>6. ASSUME NEW new, new = [row EXCEPT !.unsigned = e, !.event_hash = hash]
      PROVE  RowTypes(new)
  BY <1>2, <1>4, <1>5, <1>6 DEF RowTypes
<1> QED
  BY <1>3, <1>6

LEMMA StepKeepsTypes ==
  ASSUME AuditTypes, AuditNext
  PROVE  AuditTypes'
<1> USE DEF AuditCases
<1>0. \A c \in DOMAIN evidence : evidence[c].root \in Manifests /\ c \in AuditCases
  BY DEF AuditTypes
<1>1. ASSUME NEW s \in Signers, EnrollIdentity(s) PROVE AuditTypes'
  <2>1. DOMAIN verification' = Fields /\ verification'.disturbed \in BOOLEAN
    BY <1>1, WroteFields DEF EnrollIdentity
  <2> QED
    BY <1>1, <2>1 DEF EnrollIdentity, AuditTypes, RowTypes, Dated, Count
<1>2. ASSUME NEW s \in Signers, NEW m \in Manifests, RegisterEvidence(m, s) PROVE AuditTypes'
  <2>1. [manifest_sha256 |-> m] \in Payloads /\ CaseOf[m] \in AuditCases /\ EvidenceRoot(m) = m
    BY DEF Payloads, EvidenceRoot
  <2>2. EvidenceTypes'
    BY <1>2, <2>1 DEF EvidenceTypes, RegisterEvidence, AuditTypes
  <2> QED
    BY <1>2, <2>1, <2>2, AppendKeepsTypes DEF RegisterEvidence
<1>3. ASSUME NEW s \in Signers, NEW c \in AuditCases, AttestValidation(c, s) PROVE AuditTypes'
  <2>1. [checks |-> TRUE] \in Payloads
    BY DEF Payloads
  <2>2. EvidenceTypes'
    BY <1>3 DEF EvidenceTypes, AttestValidation, AuditTypes
  <2> QED
    BY <1>0, <1>3, <2>1, <2>2, AppendKeepsTypes DEF AttestValidation
<1>4. ASSUME NEW s \in Signers, NEW c \in AuditCases, NEW call \in Reviews,
             SubmitReview(c, s, call)
      PROVE  AuditTypes'
  <2>1. Payload(call) \in Payloads
    BY DEF Payloads
  <2>2. EvidenceTypes'
    BY <1>4 DEF EvidenceTypes, SubmitReview, AuditTypes
  <2> QED
    BY <1>0, <1>4, <2>1, <2>2, AppendKeepsTypes DEF SubmitReview
<1>5. ASSUME NEW s \in Signers, CreateAnchor(s) PROVE AuditTypes'
  <2>1. DOMAIN verification' = Fields /\ verification'.disturbed \in BOOLEAN
    BY <1>5, WroteFields DEF CreateAnchor
  <2>2. Dated(HeadHash(events))
    <3>1. DOMAIN events \subseteq 1 .. Count /\ Count \in Nat /\ DOMAIN events # {}
      BY <1>5, FS_CardinalityType DEF CreateAnchor, AuditTypes, Count
    <3>2. Latest(events) \in DOMAIN events
      BY <3>1, LatestIsLast
    <3> QED
      BY <3>1, <3>2 DEF HeadHash, AuditTypes, RowTypes
  <2>3. \A a \in anchors' : Dated(a.event_hash)
    BY <1>5, <2>2 DEF CreateAnchor, AuditTypes
  <2> QED
    BY <1>5, <2>1, <2>3 DEF CreateAnchor, AuditTypes, RowTypes, Dated, Count
<1>6. ASSUME UNCHANGED <<identities, evidence, events, anchors, appended, alterations>>,
             DOMAIN verification' = Fields /\ verification'.disturbed \in BOOLEAN
      PROVE  AuditTypes'
  BY <1>6 DEF AuditTypes, RowTypes, Dated, Count
<1>14. ASSUME Altering, EvidenceTypes', DOMAIN events' \subseteq DOMAIN events,
              \A m \in DOMAIN events' : RowTypes(events'[m])
       PROVE  AuditTypes'
  <2>1. DOMAIN verification' = Fields /\ verification'.disturbed \in BOOLEAN
    BY <1>14, UnverifiedFields DEF Altering
  <2>2. alterations' \in Nat
    BY <1>14 DEF Altering, AuditTypes
  <2>3. UNCHANGED <<anchors, appended>>
    BY <1>14 DEF Altering
  <2> QED
    BY <1>14, <2>1, <2>2, <2>3 DEF AuditTypes, EvidenceTypes, RowTypes, Dated, Count
<1>7. ASSUME NEW n \in DOMAIN events, NEW call \in Reviews, NEW rehash \in BOOLEAN,
             AlterPayload(n, call, rehash)
      PROVE  AuditTypes'
  <2>1. \A m \in DOMAIN events' : RowTypes(events'[m])
    BY <1>7, AlteredRow DEF AlterPayload, AuditTypes
  <2>2. DOMAIN events' = DOMAIN events
    BY <1>7 DEF AlterPayload
  <2> QED
    BY <1>7, <1>14, <2>1, <2>2 DEF AlterPayload, AuditTypes, EvidenceTypes
<1>8. ASSUME NEW n \in DOMAIN events, AlterOrder(n) PROVE AuditTypes'
  <2>1. \A m \in DOMAIN events' : RowTypes(events'[m])
    BY <1>8 DEF AlterOrder, AuditTypes
  <2>2. DOMAIN events' = DOMAIN events
    BY <1>8 DEF AlterOrder
  <2> QED
    BY <1>8, <1>14, <2>1, <2>2 DEF AlterOrder, AuditTypes, EvidenceTypes
<1>9. ASSUME NEW lost, LoseEvents(lost) PROVE AuditTypes'
  <2>1. \A m \in DOMAIN events' : RowTypes(events'[m])
    BY <1>9 DEF LoseEvents, AuditTypes
  <2>2. DOMAIN events' \subseteq DOMAIN events
    BY <1>9 DEF LoseEvents
  <2> QED
    BY <1>9, <1>14, <2>1, <2>2 DEF LoseEvents, AuditTypes, EvidenceTypes
<1>10. ASSUME NEW m \in Manifests, AlterEvidence(m) PROVE AuditTypes'
  <2>1. EvidenceTypes'
    BY <1>10 DEF AlterEvidence, AuditTypes, EvidenceTypes
  <2> QED
    BY <1>10, <1>14, <2>1 DEF AlterEvidence, AuditTypes
<1>11. CASE ReadEvidence
  BY <1>6, <1>11, ReadEvidenceFields DEF ReadEvidence
<1>12. CASE ReadEvents
  <2>1. verification.disturbed \in BOOLEAN
    BY DEF AuditTypes
  <2> QED
    BY <1>6, <1>12, <2>1, ReadEventsFields DEF ReadEvents
<1>13. CASE ReadAnchors
  <2>1. verification.disturbed \in BOOLEAN
    BY DEF AuditTypes
  <2> QED
    BY <1>6, <1>13, <2>1, ReadAnchorsFields DEF ReadAnchors
<1> QED
  BY <1>1, <1>2, <1>3, <1>4, <1>5, <1>7, <1>8, <1>9, <1>10, <1>11, <1>12, <1>13
     DEF AuditNext

-----------------------------------------------------------------------------
(* Verification.                                                            *)

LEMMA PrefixOfAppended ==
  ASSUME NEW S, NEW s \in Seq(S), NEW t \in Seq(S), NEW x \in S
  PROVE  /\ IsPrefix(s, s) /\ IsPrefix(s, Append(s, x))
         /\ IsPrefix(t, s) => IsPrefix(t, Append(s, x))
BY DEF IsPrefix

\* In a table that verifies, each hash is the chain of the events up to its own.
LEMMA VerifiedChain ==
  ASSUME AuditTypes, EventsVerify
  PROVE  \A n \in DOMAIN events :
           /\ Len(events[n].event_hash) = n
           /\ \A m \in DOMAIN events :
                m <= n => IsPrefix(events[m].event_hash, events[n].event_hash)
<1> DEFINE Chain(n) == /\ Len(events[n].event_hash) = n
                       /\ \A m \in DOMAIN events :
                            m <= n => IsPrefix(events[m].event_hash, events[n].event_hash)
           broken == {n \in DOMAIN events : ~Chain(n)}
<1>1. DOMAIN events = 1 .. Latest(events) /\ Latest(events) \in Nat
  <2>1. Count \in Nat /\ DOMAIN events \subseteq 1 .. Count
    BY FS_CardinalityType DEF AuditTypes, Count
  <2> QED
    BY <2>1, LatestIsLast DEF EventsVerify
<1>2. \A n \in DOMAIN events :
        /\ events[n].unsigned \in Entry /\ events[n].event_hash \in Seq(Entry)
        /\ events[n].event_hash = Append(events[n].previous, events[n].unsigned)
        /\ events[n].previous = IF n = 1 THEN <<>> ELSE events[n - 1].event_hash
  BY DEF EventsVerify, RowVerifies, AuditTypes, RowTypes, Dated
<1>3. SUFFICES ASSUME broken # {} PROVE FALSE
  OBVIOUS
<1>4. broken \in SUBSET Nat
  BY <1>1
<1> HIDE DEF Chain
<1>5. PICK n \in broken : \A m \in broken : n <= m
  BY <1>3, <1>4, LeastNatural, Zenon
<1>6. n \in DOMAIN events /\ ~Chain(n) /\ n \in Nat \ {0}
  BY <1>1
<1>7. CASE n = 1
  <2>1. events[n].event_hash = Append(<<>>, events[n].unsigned)
    BY <1>2, <1>6, <1>7
  <2>2. Len(events[n].event_hash) = 1
    BY <2>1
  <2>3. \A m \in DOMAIN events : m <= n => m = n
    BY <1>1, <1>7
  <2>4. IsPrefix(events[n].event_hash, events[n].event_hash)
    BY <1>2, <1>6, PrefixOfAppended
  <2> QED
    BY <1>6, <1>7, <2>2, <2>3, <2>4 DEF Chain
<1>8. CASE n # 1
  <2>1. n - 1 \in DOMAIN events /\ n - 1 \notin broken
    BY <1>1, <1>5, <1>6, <1>8
  <2>2. Chain(n - 1)
    BY <2>1
  <2>3. events[n].event_hash = Append(events[n - 1].event_hash, events[n].unsigned)
    BY <1>2, <1>6, <1>8
  <2>4. Len(events[n].event_hash) = n
    BY <1>2, <1>6, <2>1, <2>2, <2>3, LastElement DEF Chain
  <2>5. ASSUME NEW m \in DOMAIN events, m <= n
        PROVE  IsPrefix(events[m].event_hash, events[n].event_hash)
    <3>1. CASE m = n
      BY <1>2, <1>6, <3>1, PrefixOfAppended
    <3>2. CASE m # n
      <4>1. m <= n - 1
        BY <1>1, <1>6, <2>5, <3>2
      <4>2. IsPrefix(events[m].event_hash, events[n - 1].event_hash)
        BY <2>2, <4>1 DEF Chain
      <4> QED
        BY <1>2, <1>6, <2>1, <2>3, <4>2, PrefixOfAppended
    <3> QED
      BY <3>1, <3>2
  <2> QED
    BY <1>6, <2>4, <2>5 DEF Chain
<1> QED
  BY <1>7, <1>8

LEMMA ReadEventsKeepsInv ==
  ASSUME AuditInv, ReadEvents
  PROVE  VerificationInv'
<1> USE DEF AuditInv
<1>1. CASE ~EventsVerify
  BY <1>1, ReadEventsFields, NothingClaimed
<1>2. CASE EventsVerify
  <2>1. /\ verification'.phase = "events" /\ verification'.chain = HeadHash(events)
        /\ verification'.owed = verification.owed
    BY <1>2, ReadEventsFields
  <2>2. UNCHANGED <<evidence, events, anchors, appended>> /\ verification.phase = "evidence"
    BY DEF ReadEvents
  <2>3. Count \in Nat /\ DOMAIN events \subseteq 1 .. Count
    BY FS_CardinalityType DEF AuditTypes, Count
  <2>4. ASSUME NEW n \in DOMAIN events PROVE Genuine(events[n])
    <3>1. RowVerifies(n)
      BY <1>2 DEF EventsVerify
    <3>2. RowTypes(events[n])
      BY DEF AuditTypes
    <3>3. events[n].event_hash \in appended
      BY <3>1, <3>2 DEF RowVerifies, Signed, RowTypes
    <3>4. /\ events[n].previous \in Seq(Entry) /\ events[n].unsigned \in Entry
          /\ events[n].event_hash = Append(events[n].previous, events[n].unsigned)
      BY <3>1, <3>2 DEF RowVerifies, RowTypes
    <3>5. events[n].event_hash[Len(events[n].event_hash)] = events[n].unsigned
      BY <3>4, LastElement
    <3> QED
      BY <2>2, <3>1, <3>3, <3>5 DEF RowVerifies, Genuine, VerificationInv
  <2>5. /\ HeadHash(events) \in Seq(Entry)
        /\ \/ HeadHash(events) = <<>>
           \/ HeadHash(events) \in appended /\ Len(HeadHash(events)) \in DOMAIN events
        /\ \A n \in DOMAIN events : /\ n <= Len(HeadHash(events))
                                    /\ IsPrefix(events[n].event_hash, HeadHash(events))
    <3>1. CASE DOMAIN events = {}
      BY <3>1 DEF HeadHash
    <3>2. CASE DOMAIN events # {}
      <4>1. Latest(events) \in DOMAIN events /\ \A n \in DOMAIN events : n <= Latest(events)
        BY <2>3, <3>2, LatestIsLast
      <4>2. HeadHash(events) = events[Latest(events)].event_hash
        BY <3>2 DEF HeadHash
      <4>3. HeadHash(events) \in Seq(Entry) /\ HeadHash(events) \in appended
        BY <2>4, <4>1, <4>2 DEF Genuine, AuditTypes, Dated
      <4>4. /\ Len(HeadHash(events)) = Latest(events)
            /\ \A n \in DOMAIN events : IsPrefix(events[n].event_hash, HeadHash(events))
        BY <1>2, <4>1, <4>2, VerifiedChain
      <4> QED
        BY <4>1, <4>3, <4>4
    <3> QED
      BY <3>1, <3>2
  <2>6. VerificationInv
    OBVIOUS
  <2>7. ASSUME NEW n \in DOMAIN events PROVE Genuine(events[n])'
    BY <2>2, <2>4 DEF Genuine
  <2> QED
    BY <2>1, <2>2, <2>5, <2>6, <2>7
       DEF VerificationInv, VerifiedIsHistory, Running, Passed
<1> QED
  BY <1>1, <1>2

LEMMA ReadEvidenceKeepsInv ==
  ASSUME AuditInv, ReadEvidence
  PROVE  VerificationInv'
<1>1. CASE ~EvidenceVerifies
  BY <1>1, ReadEvidenceFields, NothingClaimed
<1>2. CASE EvidenceVerifies
  <2>1. /\ verification'.phase = "evidence"
        /\ verification'.evidence = [c \in DOMAIN evidence |-> evidence[c].root]
        /\ verification'.owed = {a.event_hash : a \in anchors}
    BY <1>2, ReadEvidenceFields
  <2>2. UNCHANGED <<evidence, anchors>>
    BY DEF ReadEvidence
  <2>3. \A c \in DOMAIN evidence : evidence[c].manifest = evidence[c].root
    BY <1>2 DEF EvidenceVerifies, EvidenceRoot
  <2> QED
    BY <2>1, <2>2, <2>3 DEF VerificationInv, VerifiedIsHistory, Running, Passed
<1> QED
  BY <1>1, <1>2

LEMMA ReadAnchorsKeepsInv ==
  ASSUME AuditInv, ReadAnchors
  PROVE  VerificationInv'
<1> USE DEF AuditInv
<1>1. CASE ~AnchorsVerify
  BY <1>1, ReadAnchorsFields, NothingClaimed
<1>2. CASE AnchorsVerify
  <2>1. /\ verification'.phase = "passed" /\ verification'.chain = verification.chain
        /\ verification'.owed = verification.owed
    BY <1>2, ReadAnchorsFields
  <2>2. UNCHANGED <<evidence, events, anchors, appended>> /\ verification.phase = "events"
    BY DEF ReadAnchors
  <2>3. /\ verification.chain \in appended \cup {<<>>}
        /\ \A n \in DOMAIN events :
             IF n <= Len(verification.chain)
               THEN IsPrefix(events[n].event_hash, verification.chain)
               ELSE events[n].event_hash \notin verification.owed
    BY <2>2 DEF VerificationInv
  <2>4. ASSUME NEW hash \in verification.owed PROVE IsPrefix(hash, verification.chain)
    <3>1. PICK a \in anchors : a.event_hash = hash
      BY <2>2 DEF VerificationInv, Running
    <3>2. a.sequence \in DOMAIN events /\ events[a.sequence].event_hash = hash
      BY <1>2, <3>1 DEF AnchorsVerify
    <3> QED
      BY <2>3, <3>2
  <2>5. ASSUME NEW n \in DOMAIN events, Genuine(events[n]) PROVE Genuine(events[n])'
    BY <2>2, <2>5 DEF Genuine
  <2>6. VerificationInv
    OBVIOUS
  <2> QED
    BY <2>1, <2>2, <2>3, <2>4, <2>5, <2>6
       DEF VerificationInv, VerifiedIsHistory, Running, Passed
<1> QED
  BY <1>1, <1>2

\* The evidence only gets new cases, each with its own package's root.
EvidenceGrows ==
  /\ \A c \in DOMAIN evidence : c \in DOMAIN evidence' /\ evidence'[c] = evidence[c]
  /\ \A c \in DOMAIN evidence' \ DOMAIN evidence :
       /\ CaseOf[evidence'[c].manifest] = c /\ ContractHolds(evidence'[c].manifest)
       /\ evidence'[c].manifest = evidence'[c].root

LEMMA AppendKeepsInv ==
  ASSUME AuditInv, NEW n, NEW case, NEW type, NEW payload, NEW root, NEW signer,
         NewRow(n, case, type, payload, root, signer), appended \subseteq appended',
         EvidenceGrows, case \in DOMAIN evidence', evidence'[case].root = root,
         UNCHANGED anchors, NEW cause \in BOOLEAN, Wrote(cause)
  PROVE  VerificationInv'
<1> USE DEF AuditInv
<1>1. CASE ~Running
  BY <1>1, WroteFields, NothingClaimed
<1>2. CASE Running
  <2>1. /\ verification'.phase = verification.phase
        /\ verification'.evidence = verification.evidence
        /\ verification'.chain = verification.chain
        /\ verification'.owed = verification.owed
    BY <1>2, WroteFields
  <2>2. /\ \A hash \in verification.owed : \E a \in anchors : a.event_hash = hash
        /\ \A c \in DOMAIN evidence : evidence[c].manifest = evidence[c].root
    BY <1>2 DEF VerificationInv
  <2>3. /\ n \in Nat \ {0} /\ DOMAIN events' = DOMAIN events \cup {n}
        /\ \A m \in DOMAIN events : m < n /\ events'[m] = events[m]
    BY DEF NewRow
  <2>4. \A c \in DOMAIN evidence' : evidence'[c].manifest = evidence'[c].root
    BY <2>2 DEF EvidenceGrows
  <2>5. CASE verification.phase = "evidence"
    <3>1. \A c \in DOMAIN verification.evidence :
            c \in DOMAIN evidence' /\ verification.evidence[c] = evidence'[c].root
      BY <2>5 DEF VerificationInv, EvidenceGrows
    <3> QED
      BY <2>1, <2>2, <2>4, <2>5, <3>1 DEF VerificationInv, VerifiedIsHistory, Running, Passed
  <2>6. CASE verification.phase = "events"
    <3>1. /\ \A m \in DOMAIN events : Genuine(events[m])
          /\ verification.chain \in Seq(Entry)
          /\ \/ verification.chain = <<>>
             \/ verification.chain \in appended /\ Len(verification.chain) \in DOMAIN events
          /\ \A m \in DOMAIN events :
               IF m <= Len(verification.chain)
                 THEN IsPrefix(events[m].event_hash, verification.chain)
                 ELSE events[m].event_hash \notin verification.owed
      BY <2>6 DEF VerificationInv
    <3>2. ASSUME NEW m \in DOMAIN events' PROVE Genuine(events[m])'
      <4>1. CASE m \in DOMAIN events
        <5>1. Genuine(events[m]) /\ events'[m] = events[m]
          BY <2>3, <3>1, <4>1
        <5> QED
          BY <5>1 DEF Genuine, EvidenceGrows
      <4>2. CASE m = n
        BY <4>2 DEF Genuine, NewRow
      <4> QED
        BY <2>3, <4>1, <4>2
    <3>3. events'[n].event_hash \notin verification.owed
      <4>1. SUFFICES ASSUME events'[n].event_hash \in verification.owed PROVE FALSE
        OBVIOUS
      <4>2. Dated(events'[n].event_hash)
        BY <2>2, <4>1 DEF AuditTypes
      <4>3. events'[n].event_hash[Len(events'[n].event_hash)].created_ns = Count
        BY DEF NewRow
      <4>4. Count \in Nat
        BY FS_CardinalityType DEF AuditTypes, Count
      <4> QED
        BY <4>2, <4>3, <4>4 DEF Dated
    <3>4. ~(n <= Len(verification.chain))
      <4>1. Len(verification.chain) = 0 \/ Len(verification.chain) < n
        BY <2>3, <3>1
      <4>2. Len(verification.chain) \in Nat
        BY <3>1
      <4> QED
        BY <2>3, <4>1, <4>2
    <3>5. /\ \/ verification.chain = <<>>
             \/ verification.chain \in appended' /\ Len(verification.chain) \in DOMAIN events'
          /\ \A m \in DOMAIN events' :
               IF m <= Len(verification.chain)
                 THEN IsPrefix(events'[m].event_hash, verification.chain)
                 ELSE events'[m].event_hash \notin verification.owed
      BY <2>3, <3>1, <3>3, <3>4
    <3> QED
      BY <2>1, <2>2, <2>4, <2>6, <3>1, <3>2, <3>5
         DEF VerificationInv, VerifiedIsHistory, Running, Passed
  <2> QED
    BY <1>2, <2>5, <2>6 DEF Running
<1> QED
  BY <1>1, <1>2

\* A call that appends nothing: an enrollment, or an anchor.
LEMMA WriteKeepsInv ==
  ASSUME AuditInv, UNCHANGED <<evidence, events, appended>>, anchors \subseteq anchors',
         NEW cause \in BOOLEAN, Wrote(cause)
  PROVE  VerificationInv'
<1> USE DEF AuditInv
<1>1. CASE ~Running
  BY <1>1, WroteFields, NothingClaimed
<1>2. CASE Running
  <2>1. /\ verification'.phase = verification.phase
        /\ verification'.evidence = verification.evidence
        /\ verification'.chain = verification.chain
        /\ verification'.owed = verification.owed
    BY <1>2, WroteFields
  <2>2. ASSUME NEW m \in DOMAIN events, Genuine(events[m]) PROVE Genuine(events[m])'
    BY <2>2 DEF Genuine
  <2>3. verification.phase \in {"evidence", "events"} /\ VerificationInv
    BY <1>2 DEF Running
  <2> QED
    BY <2>1, <2>2, <2>3 DEF VerificationInv, VerifiedIsHistory, Running, Passed
<1> QED
  BY <1>1, <1>2

LEMMA AlteringKeepsInv ==
  ASSUME Altering
  PROVE  VerificationInv'
BY UnverifiedFields, NothingClaimed DEF Altering

LEMMA RegisterGrows ==
  ASSUME NEW s \in Signers, NEW m \in Manifests, RegisterEvidence(m, s)
  PROVE  EvidenceGrows /\ CaseOf[m] \in DOMAIN evidence' /\ evidence'[CaseOf[m]].root = m
BY DEF RegisterEvidence, MayRegister, EvidenceRoot, EvidenceGrows

LEMMA StepKeepsAuditInv ==
  ASSUME AuditInv, AuditNext
  PROVE  AuditInv'
<1> USE DEF AuditCases
<1>0. /\ AuditTypes' /\ AuditTypes
      /\ \A c \in DOMAIN evidence : evidence[c].root \in Manifests /\ c \in AuditCases
  BY StepKeepsTypes DEF AuditInv, AuditTypes
<1>1. ASSUME NEW s \in Signers, EnrollIdentity(s) PROVE VerificationInv'
  BY <1>1, WriteKeepsInv DEF EnrollIdentity
<1>2. ASSUME NEW s \in Signers, NEW m \in Manifests, RegisterEvidence(m, s)
      PROVE  VerificationInv'
  <2>1. [manifest_sha256 |-> m] \in Payloads /\ CaseOf[m] \in AuditCases
    BY DEF Payloads
  <2>2. AppendEvent(CaseOf[m], "EVIDENCE_REGISTERED", [manifest_sha256 |-> m], m, s)
    BY <1>2 DEF RegisterEvidence, EvidenceRoot
  <2>3. /\ appended \subseteq appended'
        /\ \E n : NewRow(n, CaseOf[m], "EVIDENCE_REGISTERED", [manifest_sha256 |-> m], m, s)
    BY <1>0, <2>1, <2>2, AppendedRow
  <2> QED
    BY <1>2, <2>3, RegisterGrows, AppendKeepsInv DEF RegisterEvidence
<1>3. ASSUME NEW s \in Signers, NEW c \in AuditCases, AttestValidation(c, s)
      PROVE  VerificationInv'
  <2>1. [checks |-> TRUE] \in Payloads /\ c \in DOMAIN evidence
    BY <1>3 DEF Payloads, AttestValidation
  <2>2. AppendEvent(c, "VALIDATION_ATTESTED", [checks |-> TRUE], evidence[c].root, s)
    BY <1>3 DEF AttestValidation
  <2>3. /\ appended \subseteq appended'
        /\ \E n : NewRow(n, c, "VALIDATION_ATTESTED", [checks |-> TRUE], evidence[c].root, s)
    BY <1>0, <2>1, <2>2, AppendedRow
  <2>4. UNCHANGED <<evidence, anchors>> /\ Wrote(FALSE)
    BY <1>3 DEF AttestValidation
  <2>5. EvidenceGrows
    BY <2>4 DEF EvidenceGrows
  <2> QED
    BY <2>1, <2>3, <2>4, <2>5, AppendKeepsInv
<1>4. ASSUME NEW s \in Signers, NEW c \in AuditCases, NEW call \in Reviews,
             SubmitReview(c, s, call)
      PROVE  VerificationInv'
  <2>1. Payload(call) \in Payloads /\ c \in DOMAIN evidence
    BY <1>4 DEF Payloads, SubmitReview
  <2>2. PICK type : AppendEvent(c, type, Payload(call), evidence[c].root, s)
    BY <1>4 DEF SubmitReview
  <2>3. /\ appended \subseteq appended'
        /\ \E n : NewRow(n, c, type, Payload(call), evidence[c].root, s)
    BY <1>0, <2>1, <2>2, AppendedRow
  <2>4. UNCHANGED <<evidence, anchors>> /\ Wrote(FALSE)
    BY <1>4 DEF SubmitReview
  <2>5. EvidenceGrows
    BY <2>4 DEF EvidenceGrows
  <2> QED
    BY <2>1, <2>3, <2>4, <2>5, AppendKeepsInv
<1>5. ASSUME NEW s \in Signers, CreateAnchor(s) PROVE VerificationInv'
  BY <1>5, WriteKeepsInv DEF CreateAnchor
<1>6. ASSUME NEW n \in DOMAIN events, NEW call \in Reviews, NEW rehash \in BOOLEAN,
             AlterPayload(n, call, rehash)
      PROVE  VerificationInv'
  BY <1>6, AlteringKeepsInv DEF AlterPayload
<1>7. ASSUME NEW n \in DOMAIN events, AlterOrder(n) PROVE VerificationInv'
  BY <1>7, AlteringKeepsInv DEF AlterOrder
<1>8. ASSUME NEW lost, LoseEvents(lost) PROVE VerificationInv'
  BY <1>8, AlteringKeepsInv DEF LoseEvents
<1>9. ASSUME NEW m \in Manifests, AlterEvidence(m) PROVE VerificationInv'
  BY <1>9, AlteringKeepsInv DEF AlterEvidence
<1> QED
  BY <1>0, <1>1, <1>2, <1>3, <1>4, <1>5, <1>6, <1>7, <1>8, <1>9,
     ReadEvidenceKeepsInv, ReadEventsKeepsInv, ReadAnchorsKeepsInv
     DEF AuditNext, AuditInv

LEMMA InitAuditInv == AuditInit => AuditInv
<1> SUFFICES ASSUME AuditInit PROVE AuditInv
  OBVIOUS
<1>1. AuditTypes
  BY UnverifiedFields, FS_EmptySet DEF AuditInit, AuditTypes
<1>2. VerificationInv
  BY UnverifiedFields DEF AuditInit, VerificationInv, VerifiedIsHistory, Running, Passed
<1> QED
  BY <1>1, <1>2 DEF AuditInv

\* The inductive invariant of the audit ledger.
THEOREM AuditInvCorrect == AuditSpec => []AuditInv
<1>1. AuditInv /\ [AuditNext]_auditVars => AuditInv'
  <2>1. ASSUME AuditInv, UNCHANGED auditVars PROVE AuditInv'
    <3>1. AuditTypes'
      BY <2>1 DEF auditVars, AuditInv, AuditTypes, RowTypes, Dated, Count
    <3>2. VerificationInv'
      BY <2>1 DEF auditVars, AuditInv, VerificationInv, VerifiedIsHistory, Running, Passed,
                  Genuine
    <3> QED
      BY <3>1, <3>2 DEF AuditInv
  <2> QED
    BY <2>1, StepKeepsAuditInv
<1> QED
  BY <1>1, InitAuditInv, PTL DEF AuditSpec

\* verify_integrity passes only a chain that was appended event by event and that
\* has kept all that was anchored when it began, whatever calls ran between its
\* reads and whatever rows were changed behind the ledger's back before it.
THEOREM VerificationCorrect == AuditSpec => []VerifiedIsHistory
<1>1. AuditInv => VerifiedIsHistory
  BY DEF AuditInv, VerificationInv
<1> QED
  BY <1>1, AuditInvCorrect, PTL

LEMMA TwoElements ==
  ASSUME NEW S, IsFiniteSet(S), Cardinality(S) >= 2
  PROVE  \E x, y \in S : x # y
<1>1. SUFFICES ASSUME \A x, y \in S : x = y PROVE FALSE
  OBVIOUS
<1>2. S # {}
  BY FS_EmptySet
<1>3. PICK x : x \in S
  BY <1>2
<1>4. S = {x}
  BY <1>1, <1>3
<1> QED
  BY <1>4, FS_Singleton

\* Two people signed for an eligible patch of a verified ledger, each for the
\* evidence that is registered, and a validator attested its case.
THEOREM EligibilityCorrect == AuditSpec => []EligibleIsReviewed
<1>1. ASSUME AuditInv PROVE EligibleIsReviewed
  <2> DEFINE signed == {Last(chain) : chain \in appended}
             approval(e, c, call) ==
               /\ e.event_type \in {"REVIEW_SUBMITTED", "REVIEW_CONFIRMED"}
               /\ e.case_id = c /\ e.evidence_root = EvidenceRoot(evidence[c].manifest)
               /\ e.payload = [patch_sha256 |-> call.patch, decision |-> "approve_for_data"]
  <2>1. SUFFICES ASSUME NEW c \in DOMAIN evidence, NEW call \in Reviews,
                        Passed, Eligible(c, call.patch)
                 PROVE  /\ \E d, e \in signed : /\ approval(d, c, call) /\ approval(e, c, call)
                                                /\ d.signer_id # e.signer_id
                        /\ \E e \in signed : RoleOf[e.signer_id] = "validator" /\ e.case_id = c
    BY Zenon DEF EligibleIsReviewed
  <2>2. /\ evidence[c].manifest = evidence[c].root
        /\ \A n \in DOMAIN events : Genuine(events[n]) /\ RowTypes(events[n])
    BY <1>1, <2>1 DEF AuditInv, AuditTypes, VerificationInv, Passed
  <2>3. ASSUME NEW n \in DOMAIN events PROVE events[n].unsigned \in signed
    <3>1. events[n].event_hash \in appended /\ Last(events[n].event_hash) = events[n].unsigned
      BY <2>2 DEF Genuine, Last
    <3> QED
      BY <3>1
  <2>4. ASSUME NEW n \in Approvals(c, call.patch)
        PROVE  n \in DOMAIN events /\ approval(events[n].unsigned, c, call)
    <3>1. /\ n \in DOMAIN events
          /\ events[n].unsigned.case_id = c
          /\ events[n].unsigned.event_type \in {"REVIEW_SUBMITTED", "REVIEW_CONFIRMED"}
          /\ events[n].unsigned.payload.patch_sha256 = call.patch
          /\ events[n].unsigned.payload.decision = "approve_for_data"
      BY DEF Approvals
    <3>2. PICK other \in Reviews : events[n].unsigned.payload = Payload(other)
      BY <2>2, <3>1 DEF RowTypes
    <3>3. events[n].unsigned.evidence_root = EvidenceRoot(evidence[c].manifest)
      BY <2>2, <3>1 DEF Genuine, EvidenceRoot
    <3> QED
      BY <3>1, <3>2, <3>3 DEF Payload
  <2>5. \E d, e \in signed : /\ approval(d, c, call) /\ approval(e, c, call)
                             /\ d.signer_id # e.signer_id
    <3> DEFINE Signer(n) == events[n].unsigned.signer_id
               signers == {Signer(n) : n \in Approvals(c, call.patch)}
    <3>1. IsFiniteSet(Approvals(c, call.patch))
      <4>1. Count \in Nat /\ DOMAIN events \subseteq 1 .. Count
        BY <1>1, FS_CardinalityType DEF AuditInv, AuditTypes, Count
      <4>2. IsFiniteSet(1 .. Count)
        BY <4>1, FS_Interval
      <4>3. Approvals(c, call.patch) \subseteq 1 .. Count
        BY <2>4, <4>1
      <4> QED
        BY <4>2, <4>3, FS_Subset
    <3>2. IsFiniteSet(signers)
      <4> DEFINE f == [n \in Approvals(c, call.patch) |-> Signer(n)]
      <4>1. f \in [Approvals(c, call.patch) -> signers]
        OBVIOUS
      <4>2. signers = {f[n] : n \in Approvals(c, call.patch)}
        OBVIOUS
      <4>3. f \in Surjection(Approvals(c, call.patch), signers)
        BY <4>1, <4>2 DEF Surjection
      <4> QED
        BY <3>1, <4>3, FS_Surjection
    <3>3. Cardinality(signers) >= 2
      BY <2>1 DEF Eligible, EnoughApprovals
    <3>4. \E m, n \in Approvals(c, call.patch) : Signer(m) # Signer(n)
      BY <3>2, <3>3, TwoElements
    <3> QED
      BY <2>3, <2>4, <3>4
  <2>6. \E e \in signed : RoleOf[e.signer_id] = "validator" /\ e.case_id = c
    <3>1. PICK n \in DOMAIN events : /\ events[n].unsigned.case_id = c
                                     /\ events[n].unsigned.event_type = "VALIDATION_ATTESTED"
      BY <2>1 DEF Eligible
    <3>2. /\ events[n].unsigned.signer_id \in Signers
          /\ "VALIDATION_ATTESTED" \in RoleAllowedEvents(RoleOf[events[n].unsigned.signer_id])
      BY <2>2, <3>1 DEF Genuine, RowTypes, Entry
    <3>3. RoleOf[events[n].unsigned.signer_id] = "validator"
      BY <3>2, AuditAssumption DEF RoleAllowedEvents
    <3> QED
      BY <2>3, <3>1, <3>3
  <2> QED
    BY <2>5, <2>6
<1> QED
  BY <1>1, AuditInvCorrect, PTL

-----------------------------------------------------------------------------
(* Why a verification raises.                                               *)

LEMMA AppendKeepsUntouched ==
  ASSUME AuditTypes, Untouched,
         NEW n, NEW case, NEW type, NEW payload, NEW root, NEW signer,
         NewRow(n, case, type, payload, root, signer),
         EvidenceGrows, case \in DOMAIN evidence', evidence'[case].root = root,
         UNCHANGED <<identities, anchors>>
  PROVE  Untouched'
<1>1. /\ Latest(events) \in Nat /\ DOMAIN events = 1 .. Latest(events)
      /\ n = Latest(events) + 1
  <2>1. Count \in Nat /\ DOMAIN events \subseteq 1 .. Count
    BY FS_CardinalityType DEF AuditTypes, Count
  <2> QED
    BY <2>1, LatestIsLast DEF Untouched, NewRow
<1>2. /\ DOMAIN events' = 1 .. n
      /\ \A m \in DOMAIN events : m < n /\ events'[m] = events[m]
  BY <1>1 DEF NewRow
<1>3. Latest(events') = n
  <2>1. n \in Nat /\ n \in 1 .. n /\ DOMAIN events' \subseteq 1 .. n
    BY <1>1, <1>2
  <2>2. /\ Latest(events') \in Nat /\ \A m \in DOMAIN events' : m <= Latest(events')
        /\ DOMAIN events' # {} => Latest(events') \in DOMAIN events'
    BY <2>1, LatestIsLast
  <2> QED
    BY <1>2, <2>1, <2>2
<1>4. \A c \in DOMAIN evidence' :
        /\ CaseOf[evidence'[c].manifest] = c /\ ContractHolds(evidence'[c].manifest)
        /\ evidence'[c].manifest = evidence'[c].root
  BY DEF Untouched, EvidenceGrows
<1>5. events'[n].previous = IF n = 1 THEN <<>> ELSE events'[n - 1].event_hash
  <2>1. CASE n = 1
    <3>1. DOMAIN events = {}
      BY <1>1, <2>1
    <3> QED
      BY <2>1, <3>1 DEF NewRow, HeadHash
  <2>2. CASE n # 1
    <3>1. n - 1 \in DOMAIN events /\ n - 1 = Latest(events)
      BY <1>1, <2>2
    <3> QED
      BY <1>2, <2>2, <3>1 DEF NewRow, HeadHash
  <2> QED
    BY <2>1, <2>2
<1> DEFINE Links(rows, m) ==
             LET row == rows[m]
                 e == row.unsigned
             IN  /\ row.previous = IF m = 1 THEN <<>> ELSE rows[m - 1].event_hash
                 /\ e.signer_id \in identities
                 /\ e.event_type \in RoleAllowedEvents(RoleOf[e.signer_id])
                 /\ row.event_hash = Append(row.previous, e)
                 /\ Signed(row)
<1>6. ASSUME NEW m \in DOMAIN events'
      PROVE  /\ Links(events', m)
             /\ events'[m].unsigned.case_id \in DOMAIN evidence'
             /\ evidence'[events'[m].unsigned.case_id].root = events'[m].unsigned.evidence_root
  <2>1. CASE m = n
    <3>1. Signed(events'[n])
      BY DEF NewRow, Signed
    <3> QED
      BY <1>5, <2>1, <3>1 DEF NewRow
  <2>2. CASE m # n
    <3>1. m \in DOMAIN events /\ (m # 1 => m - 1 \in DOMAIN events)
      BY <1>1, <1>2, <2>2
    <3>2. /\ Links(events, m)
          /\ events[m].unsigned.case_id \in DOMAIN evidence
          /\ evidence[events[m].unsigned.case_id].root = events[m].unsigned.evidence_root
      BY <3>1 DEF Untouched
    <3>3. events'[m] = events[m] /\ (m # 1 => events'[m - 1] = events[m - 1])
      BY <1>2, <3>1
    <3> QED
      BY <3>2, <3>3 DEF EvidenceGrows
  <2> QED
    BY <2>1, <2>2
<1>7. \A a \in anchors :
        /\ a.signer_id \in identities /\ RoleOf[a.signer_id] = "anchor"
        /\ a.sequence \in DOMAIN events' /\ events'[a.sequence].event_hash = a.event_hash
  BY <1>1, <1>2 DEF Untouched
<1> QED
  BY <1>2, <1>3, <1>4, <1>6, <1>7 DEF Untouched, Signed

LEMMA WriteKeepsInformed ==
  ASSUME AuditTypes, Informed, NEW cause \in BOOLEAN, Wrote(cause),
         cause \/ UNCHANGED <<identities, evidence>>
  PROVE  Informed'
<1>1. CASE ~Running
  BY <1>1, WroteFields DEF Informed, Running
<1>2. CASE Running
  BY <1>2, WroteFields DEF Informed, Running
<1> QED
  BY <1>1, <1>2

LEMMA ReadKeepsCause ==
  ASSUME AuditTypes, Untouched, Informed, ReadEvidence \/ ReadEvents \/ ReadAnchors
  PROVE  Informed'
<1>1. CASE ReadEvidence
  <2>1. EvidenceVerifies
    BY DEF Untouched, EvidenceVerifies, EvidenceRoot
  <2>2. UNCHANGED <<identities, evidence>>
    BY <1>1 DEF ReadEvidence
  <2> QED
    BY <1>1, <2>1, <2>2, ReadEvidenceFields DEF Informed, Running
<1>2. CASE ReadEvents
  <2>1. verification.phase = "evidence" /\ Running /\ verification.disturbed \in BOOLEAN
    BY <1>2 DEF ReadEvents, Running, AuditTypes
  <2>2. CASE verification.disturbed
    BY <1>2, <2>1, <2>2, ReadEventsFields DEF Informed, Running
  <2>3. CASE ~verification.disturbed
    <3>1. /\ verification.identities = identities
          /\ verification.evidence = [c \in DOMAIN evidence |-> evidence[c].root]
      BY <2>1, <2>3 DEF Informed
    <3>2. ASSUME NEW n \in DOMAIN events PROVE RowVerifies(n)
      BY <3>1 DEF Untouched, RowVerifies
    <3>3. EventsVerify
      BY <3>2 DEF EventsVerify, Untouched
    <3>4. UNCHANGED identities
      BY <1>2 DEF ReadEvents
    <3> QED
      BY <1>2, <2>3, <3>1, <3>3, <3>4, ReadEventsFields DEF Informed, Running
  <2> QED
    BY <2>2, <2>3
<1>3. CASE ReadAnchors
  <2>1. Running /\ verification.disturbed \in BOOLEAN
    BY <1>3 DEF ReadAnchors, Running, AuditTypes
  <2>2. CASE verification.disturbed
    BY <1>3, <2>1, <2>2, ReadAnchorsFields DEF Informed, Running
  <2>3. CASE ~verification.disturbed
    <3>1. AnchorsVerify
      BY <2>1, <2>3 DEF Informed, Untouched, AnchorsVerify
    <3> QED
      BY <1>3, <3>1, ReadAnchorsFields DEF Informed, Running
  <2> QED
    BY <2>2, <2>3
<1> QED
  BY <1>1, <1>2, <1>3

LEMMA StepKeepsCause ==
  ASSUME AuditInv, CauseInv, AuditNext
  PROVE  CauseInv'
<1> USE DEF AuditCases
<1>0. /\ AuditTypes /\ alterations \in Nat
      /\ \A c \in DOMAIN evidence : evidence[c].root \in Manifests /\ c \in AuditCases
  BY DEF AuditInv, AuditTypes
<1>1. ASSUME Altering PROVE CauseInv'
  <2>1. alterations' # 0
    BY <1>0, <1>1 DEF Altering
  <2> QED
    BY <2>1 DEF CauseInv
<1>2. ASSUME UNCHANGED alterations,
             Untouched /\ Informed => Untouched' /\ Informed'
      PROVE  CauseInv'
  BY <1>2 DEF CauseInv
<1>3. ASSUME NEW s \in Signers, EnrollIdentity(s) PROVE CauseInv'
  <2>1. /\ UNCHANGED <<evidence, events, anchors, alterations>> /\ Wrote(TRUE)
        /\ identities \subseteq identities'
    BY <1>3 DEF EnrollIdentity
  <2>2. Untouched => Untouched'
    BY <2>1 DEF Untouched, Signed
  <2> QED
    BY <1>0, <1>2, <2>1, <2>2, WriteKeepsInformed
<1>4. ASSUME NEW s \in Signers, NEW m \in Manifests, RegisterEvidence(m, s) PROVE CauseInv'
  <2>1. [manifest_sha256 |-> m] \in Payloads /\ CaseOf[m] \in AuditCases
    BY DEF Payloads
  <2>2. AppendEvent(CaseOf[m], "EVIDENCE_REGISTERED", [manifest_sha256 |-> m], m, s)
    BY <1>4 DEF RegisterEvidence, EvidenceRoot
  <2>3. \E n : NewRow(n, CaseOf[m], "EVIDENCE_REGISTERED", [manifest_sha256 |-> m], m, s)
    BY <1>0, <2>1, <2>2, AppendedRow
  <2>4. UNCHANGED <<identities, anchors, alterations>> /\ Wrote(TRUE)
    BY <1>4 DEF RegisterEvidence
  <2>5. Untouched => Untouched'
    BY <1>0, <1>4, <2>3, <2>4, RegisterGrows, AppendKeepsUntouched
  <2> QED
    BY <1>0, <1>2, <2>4, <2>5, WriteKeepsInformed
<1>5. ASSUME NEW s \in Signers, NEW c \in AuditCases, AttestValidation(c, s) PROVE CauseInv'
  <2>1. [checks |-> TRUE] \in Payloads /\ c \in DOMAIN evidence
    BY <1>5 DEF Payloads, AttestValidation
  <2>2. AppendEvent(c, "VALIDATION_ATTESTED", [checks |-> TRUE], evidence[c].root, s)
    BY <1>5 DEF AttestValidation
  <2>3. \E n : NewRow(n, c, "VALIDATION_ATTESTED", [checks |-> TRUE], evidence[c].root, s)
    BY <1>0, <2>1, <2>2, AppendedRow
  <2>4. UNCHANGED <<identities, evidence, anchors, alterations>> /\ Wrote(FALSE)
    BY <1>5 DEF AttestValidation
  <2>5. EvidenceGrows
    BY <2>4 DEF EvidenceGrows
  <2>6. Untouched => Untouched'
    BY <1>0, <2>1, <2>3, <2>4, <2>5, AppendKeepsUntouched
  <2> QED
    BY <1>0, <1>2, <2>4, <2>6, WriteKeepsInformed
<1>6. ASSUME NEW s \in Signers, NEW c \in AuditCases, NEW call \in Reviews,
             SubmitReview(c, s, call)
      PROVE  CauseInv'
  <2>1. Payload(call) \in Payloads /\ c \in DOMAIN evidence
    BY <1>6 DEF Payloads, SubmitReview
  <2>2. PICK type : AppendEvent(c, type, Payload(call), evidence[c].root, s)
    BY <1>6 DEF SubmitReview
  <2>3. \E n : NewRow(n, c, type, Payload(call), evidence[c].root, s)
    BY <1>0, <2>1, <2>2, AppendedRow
  <2>4. UNCHANGED <<identities, evidence, anchors, alterations>> /\ Wrote(FALSE)
    BY <1>6 DEF SubmitReview
  <2>5. EvidenceGrows
    BY <2>4 DEF EvidenceGrows
  <2>6. Untouched => Untouched'
    BY <1>0, <2>1, <2>3, <2>4, <2>5, AppendKeepsUntouched
  <2> QED
    BY <1>0, <1>2, <2>4, <2>6, WriteKeepsInformed
<1>7. ASSUME NEW s \in Signers, CreateAnchor(s) PROVE CauseInv'
  <2>1. /\ UNCHANGED <<identities, evidence, events, alterations>> /\ Wrote(FALSE)
        /\ s \in identities /\ RoleOf[s] = "anchor" /\ DOMAIN events # {}
        /\ anchors' = anchors \cup {[sequence |-> Latest(events),
                                     event_hash |-> HeadHash(events), signer_id |-> s]}
    BY <1>7 DEF CreateAnchor, Enrolled
  <2>2. Latest(events) \in DOMAIN events
    <3>1. Count \in Nat /\ DOMAIN events \subseteq 1 .. Count
      BY <1>0, FS_CardinalityType DEF AuditTypes, Count
    <3> QED
      BY <2>1, <3>1, LatestIsLast
  <2>3. HeadHash(events) = events[Latest(events)].event_hash
    BY <2>1 DEF HeadHash
  <2>4. ASSUME Untouched PROVE Untouched'
    <3>1. \A a \in anchors' :
            /\ a.signer_id \in identities /\ RoleOf[a.signer_id] = "anchor"
            /\ a.sequence \in DOMAIN events /\ events[a.sequence].event_hash = a.event_hash
      BY <2>1, <2>2, <2>3, <2>4 DEF Untouched
    <3> QED
      BY <2>1, <2>4, <3>1 DEF Untouched, Signed
  <2> QED
    BY <1>0, <1>2, <2>1, <2>4, WriteKeepsInformed
<1>8. ASSUME ReadEvidence \/ ReadEvents \/ ReadAnchors PROVE CauseInv'
  <2>1. UNCHANGED <<identities, evidence, events, anchors, alterations>>
    BY <1>8 DEF ReadEvidence, ReadEvents, ReadAnchors
  <2>2. Untouched => Untouched'
    BY <2>1 DEF Untouched, Signed
  <2> QED
    BY <1>0, <1>2, <1>8, <2>1, <2>2, ReadKeepsCause
<1> QED
  BY <1>1, <1>3, <1>4, <1>5, <1>6, <1>7, <1>8
     DEF AuditNext, AlterPayload, AlterOrder, LoseEvents, AlterEvidence

\* A verification of a table that nobody but the ledger wrote raises only when
\* somebody enrolled or registered between its reads.
THEOREM AlarmCorrect == AuditSpec => []RaisesOnlyForCause
<1>1. AuditInit => CauseInv
  <2>1. Latest([n \in {} |-> {}]) = 0
    BY DEF Latest
  <2>2. AuditInit => Untouched
    BY <2>1 DEF AuditInit, Untouched
  <2>3. AuditInit => Informed
    BY UnverifiedFields DEF AuditInit, Informed, Running
  <2> QED
    BY <2>2, <2>3 DEF CauseInv
<1>2. AuditInv /\ CauseInv /\ [AuditNext]_auditVars => CauseInv'
  <2>1. ASSUME CauseInv, UNCHANGED auditVars PROVE CauseInv'
    BY <2>1, SMTT(30) DEF auditVars, CauseInv, Untouched, Signed, Informed, Running
  <2> QED
    BY <2>1, StepKeepsCause
<1>3. AuditInv /\ CauseInv => RaisesOnlyForCause
  BY DEF CauseInv, Informed, RaisesOnlyForCause, AuditInv, AuditTypes
<1> QED
  BY <1>1, <1>2, <1>3, AuditInvCorrect, PTL DEF AuditSpec
=============================================================================
