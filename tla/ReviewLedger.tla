---------------------------- MODULE ReviewLedger ----------------------------
(***************************************************************************)
(* The review ledger of hitl_quarantine_review.py: quarantined cases that  *)
(* need a first and, unless they are escalated, an independent second      *)
(* review before their patch may become training data.  Reviewers work     *)
(* through connections of their own; register is one transaction, but a    *)
(* review reads its row in one statement and writes it in another, with    *)
(* nothing that ties the two together.                                     *)
(*                                                                         *)
(* A patch is its reviewer's id: a reviewer submits one patch per case.    *)
(* QuarantinedCase payloads matter through their reason only.              *)
(***************************************************************************)
EXTENDS FiniteSets

CONSTANTS
  Cases,        \* case ids
  SafetyCases,  \* those whose reason is hardware_fault or sensor_contract_violation
  Reviewers,    \* reviewer ids, one connection each
  None          \* SQL NULL

ASSUME ReviewAssumption == SafetyCases \subseteq Cases /\ None \notin Reviewers

VARIABLES
  cases,     \* table cases: case id -> row
  review,    \* reviewer -> the submit call it has in progress, None if none
  raced,     \* history: cases on which two submit calls overlapped
  confirmed  \* history: case -> the first review that its second one was about

vars == <<cases, review, raced, confirmed>>

ReviewStatus == {"PENDING", "CLAIMED", "NEEDS_SECOND_REVIEW", "APPROVED_FOR_DATA",
                 "REJECTED", "ESCALATED"}

\* A row; the reviewer columns also stand for the patch columns next to them.
Case == [status : ReviewStatus, first_reviewer : Reviewers \cup {None},
         second_reviewer : Reviewers \cup {None}]

\* A submit call between its SELECT and its UPDATE: the case, the columns it
\* is about to write and the reviewer that the row named first when read.
Submission == [case_id : Cases, stage : {"first", "second"}, status : ReviewStatus,
               seen_first : Reviewers \cup {None}]

ReviewInit ==
  /\ cases = [c \in {} |-> None]
  /\ review = [v \in Reviewers |-> None]
  /\ raced = {}
  /\ confirmed = [c \in Cases |-> None]

Register(c) ==
  /\ c \notin DOMAIN cases
  /\ cases' = [d \in DOMAIN cases \cup {c} |->
                 IF d = c THEN [status |-> "PENDING", first_reviewer |-> None,
                                second_reviewer |-> None]
                 ELSE cases[d]]
  /\ UNCHANGED <<review, raced, confirmed>>

Concurrent(c) == \E v \in Reviewers : review[v] # None /\ review[v].case_id = c

Start(v, c, submission) ==
  /\ review[v] = None
  /\ review' = [review EXCEPT ![v] = submission]
  /\ raced' = IF Concurrent(c) THEN raced \cup {c} ELSE raced
  /\ UNCHANGED <<cases, confirmed>>

FirstOutcome(c) == IF c \in SafetyCases THEN "ESCALATED" ELSE "NEEDS_SECOND_REVIEW"

\* submit_first_review, its SELECT and its checks.
ReadForFirstReview(v, c) ==
  /\ c \in DOMAIN cases
  /\ cases[c].status \in {"PENDING", "CLAIMED"}
  /\ Start(v, c, [case_id |-> c, stage |-> "first", status |-> FirstOutcome(c),
                  seen_first |-> cases[c].first_reviewer])

\* submit_second_review, its SELECT and its checks.
IndependentUnchecked(v, c) == v \in Reviewers
Independent(v, c) == v # cases[c].first_reviewer

AwaitsSecondOrWasRejected(c) == cases[c].status \in {"NEEDS_SECOND_REVIEW", "REJECTED"}
AwaitsSecond(c) == cases[c].status = "NEEDS_SECOND_REVIEW"

ReadForSecondReview(v, c, approve) ==
  /\ c \in DOMAIN cases
  /\ AwaitsSecond(c)
  /\ Independent(v, c)
  /\ Start(v, c, [case_id |-> c, stage |-> "second",
                  status |-> IF approve THEN "APPROVED_FOR_DATA" ELSE "REJECTED",
                  seen_first |-> cases[c].first_reviewer])

\* The UPDATE of either call: by case_id alone, whatever the row has become.
WriteReview(v) ==
  /\ review[v] # None
  /\ LET s == review[v]
     IN /\ cases' = [cases EXCEPT ![s.case_id] =
                    IF s.stage = "first"
                      THEN [@ EXCEPT !.status = s.status, !.first_reviewer = v]
                      ELSE [@ EXCEPT !.status = s.status, !.second_reviewer = v]]
        /\ confirmed' = IF s.stage = "first" THEN confirmed
                        ELSE [confirmed EXCEPT ![s.case_id] = s.seen_first]
  /\ review' = [review EXCEPT ![v] = None]
  /\ UNCHANGED raced

\* A reviewer's process is lost before its UPDATE.
LoseReviewer(v) ==
  /\ review[v] # None
  /\ review' = [review EXCEPT ![v] = None]
  /\ UNCHANGED <<cases, raced, confirmed>>

ReviewNext ==
  \/ \E c \in Cases : Register(c)
  \/ \E v \in Reviewers, c \in Cases :
        \/ ReadForFirstReview(v, c)
        \/ \E approve \in BOOLEAN : ReadForSecondReview(v, c, approve)
  \/ \E v \in Reviewers : WriteReview(v) \/ LoseReviewer(v)

ReviewSpec == ReviewInit /\ [][ReviewNext]_vars

-----------------------------------------------------------------------------
(***************************************************************************)
(* Properties.                                                             *)
(***************************************************************************)

\* Type invariant: rows, calls in progress and history.  A row has a second
\* review only on top of a first one, and none at all while it is PENDING.
TypeOK ==
  /\ DOMAIN cases \subseteq Cases
  /\ \A c \in DOMAIN cases :
        /\ cases[c] \in Case
        /\ cases[c].first_reviewer = None <=> cases[c].status = "PENDING"
        /\ cases[c].first_reviewer = None => cases[c].second_reviewer = None
  /\ \A v \in Reviewers : review[v] # None =>
        review[v] \in Submission /\ review[v].case_id \in DOMAIN cases
  /\ raced \subseteq DOMAIN cases
  /\ confirmed \in [Cases -> Reviewers \cup {None}]

\* Whatever calls overlap, approved data carries a first and a second review
\* by two people, and a case with a hardware or sensor safety reason is never
\* approved as data, not even by a submission still in flight: the check on
\* the row as it was read is enough as long as one person does not have two
\* calls in progress at the same time.
ApprovalIsIndependent ==
  /\ \A c \in DOMAIN cases : cases[c].status = "APPROVED_FOR_DATA" =>
       /\ cases[c].first_reviewer # None /\ cases[c].second_reviewer # None
       /\ cases[c].first_reviewer # cases[c].second_reviewer
       /\ c \notin SafetyCases
  /\ \A v \in Reviewers : review[v] # None /\ review[v].stage = "second" =>
       review[v].case_id \notin SafetyCases

\* A decision stands once it is made, as long as no two calls on the case
\* overlapped: neither a rejection nor an approval is taken back.
DecisionStands ==
  [][\A c \in DOMAIN cases \ raced :
       cases[c].status \in {"APPROVED_FOR_DATA", "REJECTED", "ESCALATED"} =>
         cases'[c] = cases[c]]_vars

\* What the blueprint says of approved data: the second reviewer confirmed
\* the first review, so the first patch of an approved case is the one that
\* its second review was about.
ApprovalConfirmsFirstReview ==
  \A c \in DOMAIN cases : cases[c].status = "APPROVED_FOR_DATA" =>
    cases[c].first_reviewer = confirmed[c]
=============================================================================
