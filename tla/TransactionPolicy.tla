-------------------------- MODULE TransactionPolicy --------------------------
(***************************************************************************)
(* The pure decisions every transaction repository consults before it      *)
(* changes a row: agent_core/operations/draft.py (Draft lifecycle) and     *)
(* agent_core/storage/transaction_policy.py (Attempt, Receipt and Grant    *)
(* bindings).  No state here: each operator takes rows and answers.        *)
(*                                                                         *)
(* Rows are records.  A reference that the code leaves empty is None, a    *)
(* row that does not exist has state "NONE".  tenant, user and thread are  *)
(* one scope that every caller derives from the Draft itself, so the scope *)
(* comparisons appear as comparisons of the draft identity.                *)
(***************************************************************************)
EXTENDS Naturals

CONSTANT None          \* an empty reference: no card, no grant, no attempt, no handle

-----------------------------------------------------------------------------
(* The Draft lifecycle *)

SealedDraftStates == {"COMMITTED", "FAILED_FINAL", "EXPIRED", "REVOKED"}
InFlightStates    == {"COMMITTING", "SUBMISSION_UNKNOWN"}
ReusableStates    == {"NEEDS_INPUT", "READY", "AWAITING_AUTHORIZATION"}
ClosingStates     == {"FAILED_FINAL", "EXPIRED", "REVOKED", "REQUIRES_REVIEW"}
OutcomeStates     == {"COMMITTED", "FAILED_RETRYABLE", "FAILED_FINAL"}
DraftStates       == ReusableStates \cup InFlightStates \cup ClosingStates
                       \cup OutcomeStates \cup {"AUTHORIZED"}

\* The states whose projection carries an authority card or an input form.
InteractiveStates == {"AWAITING_AUTHORIZATION", "NEEDS_INPUT"}

\* _ALLOWED_SAME_REVISION_TRANSITIONS
SameRevisionNext(s) ==
  CASE s \in {"NEEDS_INPUT", "READY"} -> ReusableStates \cup ClosingStates
    [] s \in {"AWAITING_AUTHORIZATION", "AUTHORIZED"} ->
         {"AWAITING_AUTHORIZATION", "AUTHORIZED", "COMMITTING"} \cup ClosingStates
    [] s = "COMMITTING" -> InFlightStates \cup OutcomeStates
    [] s \in {"SUBMISSION_UNKNOWN", "FAILED_RETRYABLE"} ->
         {"SUBMISSION_UNKNOWN"} \cup OutcomeStates
    [] s = "REQUIRES_REVIEW" -> {"REQUIRES_REVIEW", "REVOKED", "EXPIRED"}
    [] OTHER -> {s}

(* _interaction_projection_is_fresh: a re-projection of the same state may  *)
(* not bring back an older turn, card or form.  Turn and version 0 mean     *)
(* "not in the projection".  The turn stands for updated_turn and for the   *)
(* authority/interaction revision, which is the turn that issued the card.  *)
ProjectionFresh(cur, new) ==
  /\ cur.turn # 0 /\ new.turn # 0 => new.turn >= cur.turn
  /\ cur.state \in InteractiveStates /\ cur.version # 0 =>
       /\ new.version >= cur.version
       /\ new.version = cur.version /\ cur.card # None /\ new.card # None
            => new.card = cur.card

\* Mutant: a new revision may replace a command that is in flight.
NewRevisionInFlight(cur, new) ==
  /\ cur.state \notin SealedDraftStates
  /\ new.revision >= cur.revision
  /\ new.revision = cur.revision =>
       /\ new.digest = cur.digest
       /\ new.state \in SameRevisionNext(cur.state)
  /\ new.revision > cur.revision => new.state \in ReusableStates \cup ClosingStates

\* draft_persistence_update_decision, for a Draft that already has a row.
DraftUpdateAllowed(cur, new) ==
  /\ cur.state \notin SealedDraftStates
  /\ new.revision >= cur.revision
  /\ new.revision = cur.revision =>
       /\ new.digest = cur.digest
       /\ new.state \in SameRevisionNext(cur.state)
       /\ new.state = cur.state => ProjectionFresh(cur, new)
  /\ new.revision > cur.revision =>
       /\ cur.state \notin InFlightStates \cup {"REQUIRES_REVIEW"}
       /\ new.state \in ReusableStates \cup ClosingStates

-----------------------------------------------------------------------------
(* Attempts and Receipts *)

SealedAttemptStates == {"ACKED", "FAILED_RETRYABLE", "FAILED_FINAL"}
AttemptStates       == {"STARTED", "SUBMISSION_UNKNOWN", "RECONCILIATION_REQUIRED"}
                         \cup SealedAttemptStates
ReceiptStates       == {"SUCCESS", "FAILED"}

\* _ALLOWED_ATTEMPT_TRANSITIONS
AttemptNext(s) ==
  CASE s = "STARTED" -> AttemptStates
    [] s = "SUBMISSION_UNKNOWN" -> AttemptStates \ {"STARTED"}
    [] s = "RECONCILIATION_REQUIRED" -> {s} \cup SealedAttemptStates
    [] OTHER -> {s}

\* The row holds the same command of the same Draft revision.
SameCommand(row, other) ==
  /\ row.draft = other.draft
  /\ row.revision = other.revision
  /\ row.digest = other.digest

\* The outcome an Attempt state claims agrees with a Receipt of that state.
OutcomeAgrees(attemptState, receiptState) ==
  IF receiptState = "SUCCESS" THEN attemptState = "ACKED"
                              ELSE attemptState \in SealedAttemptStates \ {"ACKED"}

\* validate_receipt_binding
ReceiptBindingValid(attempt, grant, draft, receiptState) ==
  /\ attempt.state # "NONE"
  /\ attempt.draft = draft
  /\ grant.state \in {"RESERVED", "CONSUMED"}
  /\ SameCommand(grant, attempt)
  /\ attempt.state \in SealedAttemptStates => OutcomeAgrees(attempt.state, receiptState)

\* Mutant: an Attempt is sealed on the caller's word, before any Receipt.
SealedWithoutReceipt(cur, target, handle, receipt) ==
  /\ cur.state \notin SealedAttemptStates \cup {"NONE"}
  /\ target \in AttemptNext(cur.state)

(* attempt_persistence_update_decision.  Results are compared by the code    *)
(* too; a result is stored only when the Attempt is sealed, so the sealed    *)
(* check already covers it.                                                  *)
AttemptUpdateAllowed(cur, target, handle, receipt) ==
  /\ cur.state \notin SealedAttemptStates \cup {"NONE"}
  /\ target \in AttemptNext(cur.state)
  /\ IF target \in SealedAttemptStates
       THEN receipt.state # "NONE" /\ OutcomeAgrees(target, receipt.state)
       ELSE receipt.state = "NONE"
  /\ cur.handle # None /\ handle # None => cur.handle = handle

-----------------------------------------------------------------------------
(* Grants *)

\* grant_issue_decision
GrantIssueAllowed(draft, revision, digest, card) ==
  /\ draft.state = "AWAITING_AUTHORIZATION"
  /\ draft.revision = revision
  /\ draft.digest = digest
  /\ draft.card # None => draft.card = card

\* The part of grant_reservation_decision about the grant and the request.
GrantMatchesRequest(grant, d, revision, digest) ==
  /\ grant.state = "ISSUED"
  /\ SameCommand(grant, [draft |-> d, revision |-> revision, digest |-> digest])

\* Mutant: the handle is compared with the Attempt but not with the Receipt.
ConsumedOnAttemptOnly(grant, g, attempt, receipt, a, handle) ==
  /\ grant.state = "RESERVED"
  /\ grant.attempt = a
  /\ attempt.state = "ACKED"
  /\ attempt.grant = g
  /\ attempt.handle = handle

\* grant_consumption_decision, for a grant that is still RESERVED.
GrantConsumptionAllowed(grant, g, attempt, receipt, a, handle) ==
  /\ grant.state = "RESERVED"
  /\ grant.attempt = a
  /\ attempt.state = "ACKED"
  /\ attempt.grant = g
  /\ SameCommand(attempt, grant)
  /\ attempt.handle = handle
  /\ receipt.state = "SUCCESS"
  /\ receipt.handle = handle

\* Mutant: only failures need a Receipt.
FailuresNeedReceipt(current, target) ==
  /\ current \in InFlightStates \cup {"FAILED_RETRYABLE"}
  /\ target \in {"FAILED_RETRYABLE", "FAILED_FINAL"}

(* draft_terminal_observation_decision: an outcome of the business effect is *)
(* accepted for a Draft only on the Receipt of its current Attempt.          *)
EffectTerminal(current, target) ==
  \/ target = "COMMITTED"
  \/ /\ current \in InFlightStates \cup {"FAILED_RETRYABLE"}
     /\ target \in {"FAILED_RETRYABLE", "FAILED_FINAL"}

\* Mutant: a failure is taken from the caller, a success from the Receipt.
FailureWithoutReceipt(d, draft, target, attempt, receipt) ==
  target = "COMMITTED" =>
    /\ attempt.state # "NONE"
    /\ SameCommand(attempt, [draft |-> d, revision |-> draft.revision, digest |-> draft.digest])
    /\ receipt.state = "SUCCESS"

TerminalObserved(d, draft, target, attempt, receipt) ==
  EffectTerminal(draft.state, target) =>
    /\ attempt.state # "NONE"
    /\ SameCommand(attempt, [draft |-> d, revision |-> draft.revision, digest |-> draft.digest])
    /\ receipt.state = IF target = "COMMITTED" THEN "SUCCESS" ELSE "FAILED"
=============================================================================
