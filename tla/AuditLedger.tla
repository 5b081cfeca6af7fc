---------------------------- MODULE AuditLedger ----------------------------
(***************************************************************************)
(* The audit ledger of multimodal_hitl_tamper_evident_ledger.py: evidence  *)
(* packages, and a chain of signed events about them in which each event's *)
(* hash covers the previous one, with signed anchors of the chain's head.  *)
(* Every call is one IMMEDIATE transaction, except verify_integrity, which *)
(* reads its tables one after the other while others go on writing.        *)
(*                                                                         *)
(* A hash is what it was computed from: the hash of an event is the chain  *)
(* of unsigned events up to it, and an evidence package stands for its own *)
(* root.  A signer has one key; a signature is the signer and what it      *)
(* signed.                                                                 *)
(* Rows may also be changed by somebody who writes to the file directly,   *)
(* or go back to an older copy.                                            *)
(***************************************************************************)
EXTENDS Integers, Sequences, FiniteSets, FiniteSetsExt, SequencesExt

CONSTANTS
  Signers, RoleOf,        \* signer ids and the role each enrolls with
  Staff,                  \* signers enrolled from the start
  Manifests,              \* evidence packages that are presented
  CaseOf, Artifacts,      \* package -> its case; its artifacts
  RequiredModalities, Tolerance,
  Reviews,                \* the calls of submit_review: patch, decision, confirms
  MaxEvents, MaxAnchors, MaxAlterations

ASSUME AuditAssumption ==
  /\ RoleOf \in [Signers -> {"capture_gateway", "validator", "reviewer", "anchor"}]
  /\ Staff \subseteq Signers

VARIABLES
  identities,    \* enrolled signers
  evidence,      \* case -> [manifest, root]
  events,        \* sequence -> row
  anchors,       \* set of [sequence, event_hash, signer_id]
  verification,  \* the run of verify_integrity, see Verification
  appended,      \* history: the chains whose last event was appended to the table
  alterations    \* rows changed behind the ledger's back so far

auditVars == <<identities, evidence, events, anchors, verification, appended, alterations>>

\* "phase" is the last thing it read, or its outcome ("none" before the first
\* run, and when rows were written since); then what it read of identities and
\* evidence, and the events as a chain.  "disturbed" and "owed" are history:
\* somebody enrolled or registered between its reads; what had been anchored
\* when it began.
NoCases == [c \in {} |-> {}]
Unverified == [phase |-> "none", identities |-> {}, evidence |-> NoCases,
               chain |-> <<>>, disturbed |-> FALSE, owed |-> {}]

AuditCases == {CaseOf[m] : m \in Manifests}

RoleAllowedEvents(role) ==
  CASE role = "capture_gateway" -> {"EVIDENCE_REGISTERED"}
    [] role = "validator" -> {"VALIDATION_ATTESTED"}
    [] role = "reviewer" -> {"REVIEW_SUBMITTED", "REVIEW_CONFIRMED", "REVIEW_REJECTED"}
    [] role = "anchor" -> {}

EventTypes == UNION {RoleAllowedEvents(RoleOf[s]) : s \in Signers}

-----------------------------------------------------------------------------
(* Evidence packages. *)

\* validate_multimodal_contract: one artifact per modality, all required ones,
\* and a common interval of time for all but the calibration.
ContractHolds(m) ==
  LET modalities == {a.modality : a \in Artifacts[m]}
      timed == {a \in Artifacts[m] : a.modality # "calibration"}
  IN  /\ RequiredModalities \subseteq modalities
      /\ Cardinality(modalities) = Cardinality(Artifacts[m])
      /\ \A a \in Artifacts[m] : a.start_ns <= a.end_ns
      /\ Max({a.start_ns : a \in timed}) <= Min({a.end_ns : a \in timed}) + Tolerance

EvidenceRoot(m) == m

-----------------------------------------------------------------------------
(* The chain. *)

Latest(rows) == IF DOMAIN rows = {} THEN 0 ELSE Max(DOMAIN rows)

HeadHash(rows) == IF DOMAIN rows = {} THEN <<>> ELSE rows[Latest(rows)].event_hash

MaySign(signer, type) ==
  signer \in identities /\ type \in RoleAllowedEvents(RoleOf[signer])

\* _append_event_in_tx, at the end of every transaction that appends.  The
\* clock gives no two events the same time.
AppendEvent(case, type, payload, root, signer) ==
  LET unsigned == [case_id |-> case, event_type |-> type, payload |-> payload,
                   evidence_root |-> root, signer_id |-> signer,
                   created_ns |-> Cardinality(appended)]
      hash == Append(HeadHash(events), unsigned)
      row == [unsigned |-> unsigned, previous |-> HeadHash(events),
              event_hash |-> hash, signature |-> [by |-> signer, of |-> hash]]
      sequence == Latest(events) + 1
  IN  /\ MaySign(signer, type)
      /\ Cardinality(appended) < MaxEvents
      /\ events' = [n \in DOMAIN events \cup {sequence} |->
                      IF n = sequence THEN row ELSE events[n]]
      /\ appended' = appended \cup {hash}

-----------------------------------------------------------------------------
(* The calls. *)

Enrolled(signer) == signer \in identities

\* verify_integrity is between two of its reads; others may write then.
Running == verification.phase \in {"evidence", "events"}

\* The result of a verification is about the rows as they were.
Wrote(enrolledOrRegistered) ==
  verification' = IF Running THEN [verification EXCEPT !.disturbed = @ \/ enrolledOrRegistered]
                             ELSE Unverified

EnrollIdentity(s) ==
  /\ ~Enrolled(s)
  /\ identities' = identities \cup {s}
  /\ Wrote(TRUE)
  /\ UNCHANGED <<evidence, events, anchors, appended, alterations>>

\* A package for a case that has another one is refused.  (One that is not.)
MayRegisterOver(m) == ContractHolds(m)
MayRegister(m) ==
  /\ ContractHolds(m)
  /\ CaseOf[m] \in DOMAIN evidence =>
       evidence[CaseOf[m]] = [manifest |-> m, root |-> EvidenceRoot(m)]

RegisterEvidence(m, s) ==
  /\ MayRegister(m)
  /\ evidence' = [c \in DOMAIN evidence \cup {CaseOf[m]} |->
       IF c = CaseOf[m] THEN [manifest |-> m, root |-> EvidenceRoot(m)] ELSE evidence[c]]
  /\ AppendEvent(CaseOf[m], "EVIDENCE_REGISTERED", [manifest_sha256 |-> m], EvidenceRoot(m), s)
  /\ Wrote(TRUE)
  /\ UNCHANGED <<identities, anchors, alterations>>

Payload(review) == [patch_sha256 |-> review.patch, decision |-> review.decision]

\* append_event for a case that has evidence, for the two kinds of callers.
AttestValidation(c, s) ==
  /\ c \in DOMAIN evidence
  /\ AppendEvent(c, "VALIDATION_ATTESTED", [checks |-> TRUE], evidence[c].root, s)
  /\ Wrote(FALSE)
  /\ UNCHANGED <<identities, evidence, anchors, alterations>>

SubmitReview(c, s, review) ==
  /\ c \in DOMAIN evidence
  /\ AppendEvent(c, IF review.confirms THEN "REVIEW_CONFIRMED" ELSE "REVIEW_SUBMITTED",
                 Payload(review), evidence[c].root, s)
  /\ Wrote(FALSE)
  /\ UNCHANGED <<identities, evidence, anchors, alterations>>

\* UNIQUE(sequence, event_hash, signer_id) refuses a second one.
CreateAnchor(s) ==
  LET anchor == [sequence |-> Latest(events), event_hash |-> HeadHash(events), signer_id |-> s]
  IN  /\ Enrolled(s) /\ RoleOf[s] = "anchor"
      /\ DOMAIN events # {}
      /\ anchor \notin anchors
      /\ Cardinality(anchors) < MaxAnchors
      /\ anchors' = anchors \cup {anchor}
      /\ Wrote(FALSE)
      /\ UNCHANGED <<identities, evidence, events, appended, alterations>>

\* The reviewers who approved a patch of a case, and the one-per-row count of them.
Approvals(c, patch) ==
  {n \in DOMAIN events : LET e == events[n].unsigned IN
     /\ e.case_id = c /\ e.event_type \in {"REVIEW_SUBMITTED", "REVIEW_CONFIRMED"}
     /\ e.payload.patch_sha256 = patch /\ e.payload.decision = "approve_for_data"}

EnoughApprovalRows(c, patch) == Cardinality(Approvals(c, patch)) >= 2
EnoughApprovals(c, patch) ==
  Cardinality({events[n].unsigned.signer_id : n \in Approvals(c, patch)}) >= 2

\* eligible_patch_for_data; what it counts is never withdrawn by the ledger.
Eligible(c, patch) ==
  /\ \E n \in DOMAIN events : /\ events[n].unsigned.case_id = c
                              /\ events[n].unsigned.event_type = "VALIDATION_ATTESTED"
  /\ EnoughApprovals(c, patch)

-----------------------------------------------------------------------------
(* verify_integrity. *)

Conclude(ok, next) ==
  verification' = IF ok THEN next
                  ELSE [Unverified EXCEPT !.phase = "raised", !.disturbed = next.disturbed]

\* The first two reads, and the check of the evidence.  (What is written between
\* the two has the same effect on what follows as what is written after both.)
ReadEvidence ==
  /\ ~Running
  /\ Conclude(\A c \in DOMAIN evidence :
                /\ CaseOf[evidence[c].manifest] = c
                /\ ContractHolds(evidence[c].manifest)
                /\ EvidenceRoot(evidence[c].manifest) = evidence[c].root,
              [Unverified EXCEPT !.phase = "evidence", !.identities = identities,
                 !.evidence = [c \in DOMAIN evidence |-> evidence[c].root],
                 !.owed = {a.event_hash : a \in anchors}])
  /\ UNCHANGED <<identities, evidence, events, anchors, appended, alterations>>

\* The row's signature is its signer's on its hash.  (Nobody looks at it.)
SignedAnyhow(row) == row.signature.by \in Signers
Signed(row) == row.signature = [by |-> row.unsigned.signer_id, of |-> row.event_hash]

RowVerifies(n) ==
  LET row == events[n]
      e == row.unsigned
  IN  /\ row.previous = IF n = 1 THEN <<>> ELSE events[n - 1].event_hash
      /\ e.signer_id \in verification.identities
      /\ e.event_type \in RoleAllowedEvents(RoleOf[e.signer_id])
      /\ e.case_id \in DOMAIN verification.evidence
      /\ verification.evidence[e.case_id] = e.evidence_root
      /\ row.event_hash = Append(row.previous, e)
      /\ Signed(row)

ReadEvents ==
  /\ verification.phase = "evidence"
  /\ Conclude(/\ DOMAIN events = 1 .. Latest(events)
              /\ \A n \in DOMAIN events : RowVerifies(n),
              [verification EXCEPT !.phase = "events", !.chain = HeadHash(events),
                                   !.evidence = NoCases])
  /\ UNCHANGED <<identities, evidence, events, anchors, appended, alterations>>

ReadAnchors ==
  /\ verification.phase = "events"
  /\ Conclude(\A a \in anchors :
                /\ a.signer_id \in verification.identities /\ RoleOf[a.signer_id] = "anchor"
                /\ a.sequence \in DOMAIN events
                /\ events[a.sequence].event_hash = a.event_hash,
              [verification EXCEPT !.phase = "passed", !.identities = {}])
  /\ UNCHANGED <<identities, evidence, events, anchors, appended, alterations>>

-----------------------------------------------------------------------------
(* Changes behind the ledger's back, at any time but during a verification   *)
(* (which vouches for no row that changes under it).                         *)

Altering ==
  /\ alterations < MaxAlterations
  /\ ~Running
  /\ alterations' = alterations + 1
  /\ verification' = Unverified
  /\ UNCHANGED <<identities, anchors, appended>>

\* An UPDATE of a payload, that of the hash with it or not.
Altered(row, review, rehash) ==
  LET e == [row.unsigned EXCEPT !.payload = Payload(review)]
  IN  [row EXCEPT !.unsigned = e,
                  !.event_hash = IF rehash THEN Append(row.previous, e) ELSE @]

AlterPayload(n, review, rehash) ==
  /\ Altering
  /\ n \in DOMAIN events /\ RoleOf[events[n].unsigned.signer_id] = "reviewer"
  /\ Payload(review) # events[n].unsigned.payload
  /\ events' = [events EXCEPT ![n] = Altered(events[n], review, rehash)]
  /\ UNCHANGED evidence

\* Two events change places.
AlterOrder(n) ==
  /\ Altering
  /\ {n, n + 1} \subseteq DOMAIN events
  /\ events' = [events EXCEPT ![n] = events[n + 1], ![n + 1] = events[n]]
  /\ UNCHANGED evidence

\* The events after some sequence, or one in the middle, are gone.
LoseEvents(lost) ==
  /\ Altering
  /\ lost # {} /\ lost \subseteq DOMAIN events
  /\ events' = [n \in DOMAIN events \ lost |-> events[n]]
  /\ UNCHANGED evidence

AlterEvidence(m) ==
  /\ Altering
  /\ CaseOf[m] \in DOMAIN evidence /\ evidence[CaseOf[m]].manifest # m
  /\ evidence' = [evidence EXCEPT ![CaseOf[m]].manifest = m]
  /\ UNCHANGED events

-----------------------------------------------------------------------------
AuditInit ==
  /\ identities = Staff /\ evidence = [c \in {} |-> {}] /\ events = [n \in {} |-> {}]
  /\ anchors = {} /\ appended = {} /\ alterations = 0
  /\ verification = Unverified

AuditNext ==
  \/ \E s \in Signers :
       \/ EnrollIdentity(s)
       \/ \E m \in Manifests : RegisterEvidence(m, s)
       \/ \E c \in AuditCases :
            \/ AttestValidation(c, s)
            \/ \E review \in Reviews : SubmitReview(c, s, review)
       \/ CreateAnchor(s)
  \/ ReadEvidence \/ ReadEvents \/ ReadAnchors
  \/ \E n \in DOMAIN events :
       \/ \E review \in Reviews, rehash \in BOOLEAN : AlterPayload(n, review, rehash)
       \/ AlterOrder(n)
       \/ LoseEvents({n}) \/ LoseEvents(n .. Latest(events))
  \/ \E m \in Manifests : AlterEvidence(m)

AuditSpec == AuditInit /\ [][AuditNext]_auditVars

-----------------------------------------------------------------------------
(* Properties. *)

\* Rows have the columns that the calls read, and a verification that is not
\* running has dropped what it read.
AuditTypeOK ==
  /\ identities \subseteq Signers
  /\ \A c \in DOMAIN evidence : c \in AuditCases /\ evidence[c].manifest \in Manifests
  /\ DOMAIN events \subseteq 1 .. MaxEvents
  /\ \A n \in DOMAIN events :
       LET e == events[n].unsigned
       IN  /\ e.case_id \in DOMAIN evidence /\ e.event_type \in EventTypes
           /\ e.signer_id \in identities
           /\ events[n].signature \in [by : Signers, of : appended]
           /\ e.event_type \in {"REVIEW_SUBMITTED", "REVIEW_CONFIRMED"} => \E review \in Reviews : e.payload = Payload(review)
  /\ \A a \in anchors : a.sequence \in 1 .. MaxEvents /\ a.signer_id \in identities
  /\ verification.phase \in {"none", "evidence", "events", "passed", "raised"}
  /\ ~Running => verification.identities = {}
  /\ alterations \in 0 .. MaxAlterations

Passed == verification.phase = "passed"

\* A verification that passed has read a chain that was appended event by event,
\* by its signers, and that contains all that was anchored when it began: no
\* change of a payload, of the order or of the evidence, no lost event and no
\* return to a state before an anchor passes.
VerifiedIsHistory ==
  Passed =>
    /\ verification.chain \in appended \cup {<<>>}
    /\ \A hash \in verification.owed : IsPrefix(hash, verification.chain)

\* What the ledger calls eligible after a verification was attested by a
\* validator and approved by two reviewers, each signing for that very patch
\* and the evidence that is registered.
EligibleIsReviewed ==
  \A c \in DOMAIN evidence : \A review \in Reviews :
    Passed /\ Eligible(c, review.patch) =>
      LET signed == {Last(chain) : chain \in appended}
          approval(e) == /\ e.event_type \in {"REVIEW_SUBMITTED", "REVIEW_CONFIRMED"}
                         /\ e.case_id = c /\ e.evidence_root = EvidenceRoot(evidence[c].manifest)
                         /\ e.payload = [patch_sha256 |-> review.patch,
                                         decision |-> "approve_for_data"]
      IN  /\ \E d, e \in signed : approval(d) /\ approval(e) /\ d.signer_id # e.signer_id
          /\ \E e \in signed : RoleOf[e.signer_id] = "validator" /\ e.case_id = c

\* A verification raises only for rows that were changed, or because somebody
\* enrolled or registered between its reads.
RaisesOnlyForCause ==
  verification.phase = "raised" => alterations > 0 \/ verification.disturbed

\* (Docstring of LedgerIntegrityError: raised when a ledger, a signature, a hash
\* or an anchor fails verification.)  The rows of a ledger that only the ledger
\* has written pass.
UntouchedLedgerVerifies == verification.phase = "raised" => alterations > 0
=============================================================================
