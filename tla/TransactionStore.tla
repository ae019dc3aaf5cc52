--------------------------- MODULE TransactionStore ---------------------------
(***************************************************************************)
(* The durable transaction repository of the Agent service                 *)
(* (agent_core/persistence/action_lifecycle_store.py): Drafts, Grants,     *)
(* Attempts and Receipts.  Every operation runs under the repository lock  *)
(* in one database transaction and is one action here; a call the policy   *)
(* rejects changes nothing and is a stuttering step.                       *)
(*                                                                         *)
(* The callers are arbitrary: any worker, in any order, with any stale     *)
(* arguments, restricted only to the target states the code passes.        *)
(***************************************************************************)
EXTENDS TransactionPolicy

CONSTANTS Drafts, Digests, Cards, Grants, Attempts, Handles,
          MaxRevision, MaxVersion, MaxTurn     \* bounds of the checked instance

ASSUME NoneAssumption ==
  None \notin Drafts \cup Digests \cup Cards \cup Grants \cup Attempts \cup Handles
ASSUME BoundAssumption == MaxRevision \in Nat /\ MaxVersion \in Nat /\ MaxTurn \in Nat

VARIABLES
  drafts,       \* transaction_drafts by draft_id
  grants,       \* transaction_grants by grant_id
  attempts,     \* transaction_attempts by attempt_id
  receipts      \* transaction_receipts by attempt_id (unique)

vars == <<drafts, grants, attempts, receipts>>

-----------------------------------------------------------------------------
(* Rows *)

Revisions == 1 .. MaxRevision

DraftRow ==
  [state : DraftStates, revision : Revisions, digest : Digests,
   card : Cards \cup {None}, version : 0 .. MaxVersion, turn : 0 .. MaxTurn,
   grant : Grants \cup {None}, attempt : Attempts \cup {None}]

GrantRow ==
  [state : {"ISSUED", "RESERVED", "CONSUMED", "REVOKED", "EXPIRED"},
   draft : Drafts, revision : Revisions, digest : Digests, card : Cards,
   attempt : Attempts \cup {None}, handle : Handles \cup {None}]

AttemptRow ==
  [state : AttemptStates, draft : Drafts, revision : Revisions, digest : Digests,
   grant : Grants, handle : Handles \cup {None}]

ReceiptRow == [state : ReceiptStates, handle : Handles]

Absent == [state |-> "NONE"]      \* no row under this key

Exists(row) == row.state # "NONE"

TypeOK ==
  /\ drafts \in [Drafts -> DraftRow \cup {Absent}]
  /\ grants \in [Grants -> GrantRow \cup {Absent}]
  /\ attempts \in [Attempts -> AttemptRow \cup {Absent}]
  /\ receipts \in [Attempts -> ReceiptRow \cup {Absent}]

Init ==
  /\ drafts = [d \in Drafts |-> Absent]
  /\ grants = [g \in Grants |-> Absent]
  /\ attempts = [a \in Attempts |-> Absent]
  /\ receipts = [a \in Attempts |-> Absent]

\* The rows of pointers that may be empty.
AttemptAt(a) == IF a = None THEN Absent ELSE attempts[a]
ReceiptAt(a) == IF a = None THEN Absent ELSE receipts[a]

\* stable_idempotency_key binds the Draft and the command digest only.
AttemptOf(a, d, digest) ==
  Exists(attempts[a]) /\ attempts[a].draft = d /\ attempts[a].digest = digest

KeyTaken(d, digest) == \E a \in Attempts : AttemptOf(a, d, digest)

-----------------------------------------------------------------------------
(* Drafts *)

\* The states callers of create_draft persist.
CreateStates == ReusableStates \cup {"FAILED_FINAL", "REVOKED", "REQUIRES_REVIEW"}

\* The states callers of advance_draft report.
ObservedStates == OutcomeStates \cup {"SUBMISSION_UNKNOWN"}

(* create_draft writes the whole row, pointers included.  A card or form is  *)
(* kept for the interactive states only: nothing reads it in another one.    *)
MayCreate(d, row) ==
  /\ row.state \in CreateStates
  /\ row.state \in InteractiveStates <=> row.card # None
  /\ row.card # None <=> row.version # 0
  /\ row.grant # None => Exists(grants[row.grant]) /\ grants[row.grant].draft = d
  /\ row.attempt # None => Exists(attempts[row.attempt]) /\ attempts[row.attempt].draft = d
  /\ Exists(drafts[d]) => DraftUpdateAllowed(drafts[d], row)

CreateDraft(d, row) ==
  /\ MayCreate(d, row)
  /\ drafts' = [drafts EXCEPT ![d] = row]
  /\ UNCHANGED <<grants, attempts, receipts>>

(* advance_draft.  The Receipt is looked for under the Attempt the row names *)
(* before the call; the Attempt the caller names replaces it afterwards.     *)
(* The commit path sends a projection without card, version or turn.         *)
AdvancedRow(d, state, revision, digest, reprojected) ==
  LET row == [drafts[d] EXCEPT !.state = state, !.revision = revision, !.digest = digest]
  IN  IF reprojected THEN [row EXCEPT !.card = None, !.version = 0, !.turn = 0] ELSE row

MayAdvance(d, state, revision, digest, a, reprojected) ==
  /\ Exists(drafts[d])
  /\ Exists(attempts[a]) /\ attempts[a].draft = d
  /\ LET cur == drafts[d]
     IN  /\ DraftUpdateAllowed(cur, AdvancedRow(d, state, revision, digest, reprojected))
         /\ TerminalObserved(d, cur, state, AttemptAt(cur.attempt), ReceiptAt(cur.attempt))

AdvanceDraft(d, state, revision, digest, a, reprojected) ==
  /\ MayAdvance(d, state, revision, digest, a, reprojected)
  /\ drafts' = [drafts EXCEPT ![d] =
       [AdvancedRow(d, state, revision, digest, reprojected) EXCEPT !.attempt = a]]
  /\ UNCHANGED <<grants, attempts, receipts>>

-----------------------------------------------------------------------------
(* Grants and Attempts *)

\* No Grant was issued for this card and command.
IsNewGrant(g, d, revision, digest, card) ==
  /\ ~Exists(grants[g])
  /\ \A x \in Grants : Exists(grants[x]) =>
       ~(SameCommand(grants[x], [draft |-> d, revision |-> revision, digest |-> digest])
         /\ grants[x].card = card)

MayIssue(d, revision, digest, card) ==
  /\ Exists(drafts[d])
  /\ GrantIssueAllowed(drafts[d], revision, digest, card)

IssueGrant(g, d, revision, digest, card) ==
  /\ MayIssue(d, revision, digest, card)
  /\ IsNewGrant(g, d, revision, digest, card)
  /\ grants' = [grants EXCEPT ![g] =
       [state |-> "ISSUED", draft |-> d, revision |-> revision, digest |-> digest,
        card |-> card, attempt |-> None, handle |-> None]]
  /\ UNCHANGED <<drafts, attempts, receipts>>

\* The Draft half of grant_reservation_decision, for the card of the grant.
ReservationAllowed(g) ==
  LET d == grants[g].draft
  IN  /\ Exists(drafts[d])
      /\ GrantIssueAllowed(drafts[d], grants[g].revision, grants[g].digest, grants[g].card)

(* reserve_grant_and_start_attempt: the Grant is RESERVED, its Attempt       *)
(* STARTED and the Draft COMMITTING in one transaction.                      *)
Committing(d, g, a) == [drafts[d] EXCEPT !.state = "COMMITTING", !.grant = g, !.attempt = a]

MayReserve(g, a, d, revision, digest) ==
  /\ Exists(grants[g])
  /\ GrantMatchesRequest(grants[g], d, revision, digest)
  /\ ReservationAllowed(g)
  /\ DraftUpdateAllowed(drafts[d], Committing(d, g, a))

ReserveGrantAndStartAttempt(g, a, d, revision, digest) ==
  /\ ~KeyTaken(d, digest)
  /\ ~Exists(attempts[a])
  /\ MayReserve(g, a, d, revision, digest)
  /\ drafts' = [drafts EXCEPT ![d] = Committing(d, g, a)]
  /\ grants' = [grants EXCEPT ![g].state = "RESERVED", ![g].attempt = a]
  /\ attempts' = [attempts EXCEPT ![a] =
       [state |-> "STARTED", draft |-> d, revision |-> revision, digest |-> digest,
        grant |-> g, handle |-> None]]
  /\ UNCHANGED receipts

\* A reservation the canonical Draft refuses revokes the Grant it asked for.
RejectReservation(g, d, revision, digest) ==
  /\ ~KeyTaken(d, digest)
  /\ Exists(grants[g])
  /\ GrantMatchesRequest(grants[g], d, revision, digest)
  /\ ~ReservationAllowed(g)
  /\ grants' = [grants EXCEPT ![g].state = "REVOKED"]
  /\ UNCHANGED <<drafts, attempts, receipts>>

\* A legal reservation that comes after expires_at.
ExpireGrant(g, d, revision, digest) ==
  /\ ~KeyTaken(d, digest)
  /\ Exists(grants[g])
  /\ GrantMatchesRequest(grants[g], d, revision, digest)
  /\ ReservationAllowed(g)
  /\ grants' = [grants EXCEPT ![g].state = "EXPIRED"]
  /\ UNCHANGED <<drafts, attempts, receipts>>

MayConsume(g, a, handle) ==
  /\ Exists(grants[g]) /\ Exists(attempts[a])
  /\ GrantConsumptionAllowed(grants[g], g, attempts[a], receipts[a], a, handle)

ConsumeGrant(g, a, handle) ==
  /\ MayConsume(g, a, handle)
  /\ grants' = [grants EXCEPT ![g].state = "CONSUMED", ![g].handle = handle]
  /\ UNCHANGED <<drafts, attempts, receipts>>

\* Mutant: the UPDATE lost its filter on the state.
RevokeAnyGrant(g) ==
  /\ Exists(grants[g])
  /\ grants' = [grants EXCEPT ![g].state = "REVOKED"]
  /\ UNCHANGED <<drafts, attempts, receipts>>

RevokeGrant(g) ==
  /\ Exists(grants[g])
  /\ grants[g].state \in {"ISSUED", "RESERVED"}
  /\ grants' = [grants EXCEPT ![g].state = "REVOKED"]
  /\ UNCHANGED <<drafts, attempts, receipts>>

-----------------------------------------------------------------------------
(* Receipts and Attempt outcomes *)

\* Mutant: a later Receipt replaces the first one.
ReceiptUpserted(a, d, state, handle) ==
  /\ Exists(attempts[a]) /\ Exists(grants[attempts[a].grant])
  /\ ReceiptBindingValid(attempts[a], grants[attempts[a].grant], d, state)
  /\ receipts' = [receipts EXCEPT ![a] = [state |-> state, handle |-> handle]]
  /\ UNCHANGED <<drafts, grants, attempts>>

\* record_receipt: the first Receipt of an Attempt stays, a later one is ignored.
MayRecord(a, d, state) ==
  /\ Exists(attempts[a]) /\ Exists(grants[attempts[a].grant])
  /\ ReceiptBindingValid(attempts[a], grants[attempts[a].grant], d, state)
  /\ ~Exists(receipts[a])

RecordReceipt(a, d, state, handle) ==
  /\ MayRecord(a, d, state)
  /\ receipts' = [receipts EXCEPT ![a] = [state |-> state, handle |-> handle]]
  /\ UNCHANGED <<drafts, grants, attempts>>

\* transition_attempt: COALESCE keeps the old handle when none is given.
MayTransition(a, state, handle) ==
  /\ Exists(attempts[a])
  /\ state \in SealedAttemptStates <=> handle # None
  /\ AttemptUpdateAllowed(attempts[a], state, handle, receipts[a])

TransitionAttempt(a, state, handle) ==
  /\ MayTransition(a, state, handle)
  /\ attempts' = [attempts EXCEPT ![a].state = state,
       ![a].handle = IF handle # None THEN handle ELSE @]
  /\ UNCHANGED <<drafts, grants, receipts>>

-----------------------------------------------------------------------------
DraftStep ==
  \E d \in Drafts :
    \/ \E row \in DraftRow : CreateDraft(d, row)
    \/ \E s \in ObservedStates, rev \in Revisions, c \in Digests,
          a \in Attempts, reprojected \in BOOLEAN :
         AdvanceDraft(d, s, rev, c, a, reprojected)

GrantStep ==
  \E g \in Grants, d \in Drafts, rev \in Revisions, c \in Digests :
    \/ \E card \in Cards : IssueGrant(g, d, rev, c, card)
    \/ \E a \in Attempts : ReserveGrantAndStartAttempt(g, a, d, rev, c)
    \/ RejectReservation(g, d, rev, c)
    \/ ExpireGrant(g, d, rev, c)

CloseStep ==
  \/ \E a \in Attempts, h \in Handles :
       \/ \E d \in Drafts, s \in ReceiptStates : RecordReceipt(a, d, s, h)
       \/ \E g \in Grants : ConsumeGrant(g, a, h)
  \/ \E a \in Attempts, s \in AttemptStates \ {"STARTED"}, h \in Handles \cup {None} :
       TransitionAttempt(a, s, h)
  \/ \E g \in Grants : RevokeGrant(g)

Next == DraftStep \/ GrantStep \/ CloseStep

Spec == Init /\ [][Next]_vars

-----------------------------------------------------------------------------
(* Correctness *)

Open(a)      == Exists(attempts[a]) /\ ~Exists(receipts[a])
Succeeded(a) == Exists(receipts[a]) /\ receipts[a].state = "SUCCESS"

(* A Draft never has two submissions whose outcome is unknown: a second      *)
(* card, Grant, revision or worker cannot start another Attempt before the   *)
(* first has a Receipt (reserve_grant_and_start_attempt and the in-flight    *)
(* rules of draft_persistence_update_decision together).                     *)
AtMostOneOpenAttempt ==
  \A a, b \in Attempts :
    Open(a) /\ Open(b) /\ attempts[a].draft = attempts[b].draft => a = b

(* One Draft is known to have succeeded at most once, and no Attempt of it   *)
(* is still open then: nothing is submitted after a success.                 *)
NothingFollowsSuccess ==
  \A a, b \in Attempts :
    /\ Succeeded(a) /\ Exists(attempts[b]) /\ attempts[a].draft = attempts[b].draft
    => a = b \/ (Exists(receipts[b]) /\ receipts[b].state = "FAILED")

(* "Receipt proves the write": a COMMITTED Draft has the SUCCESS Receipt of  *)
(* the very command its row holds, whatever its Attempt pointer says.        *)
CommittedHasSuccessReceipt ==
  \A d \in Drafts : drafts[d].state = "COMMITTED" =>
    \E a \in Attempts :
      /\ Succeeded(a)
      /\ SameCommand(attempts[a], [draft |-> d, revision |-> drafts[d].revision,
                                   digest |-> drafts[d].digest])

(* A CONSUMED Grant closes one exact chain: its Attempt is ACKED, was        *)
(* started from this Grant, and both name the one SUCCESS Receipt.           *)
ConsumedGrantClosesChain ==
  \A g \in Grants : grants[g].state = "CONSUMED" =>
    LET a == grants[g].attempt
    IN  /\ a \in Attempts
        /\ attempts[a].state = "ACKED" /\ attempts[a].grant = g
        /\ Succeeded(a)
        /\ grants[g].handle = receipts[a].handle
        /\ attempts[a].handle = receipts[a].handle

(* A Grant authorizes at most one Attempt, of exactly the command and card   *)
(* revision it was issued for, and the Grant points back at it.              *)
AttemptSpendsItsGrant ==
  \A a \in Attempts : Exists(attempts[a]) =>
    LET grant == grants[attempts[a].grant]
    IN  /\ Exists(grant)
        /\ grant.state \in {"RESERVED", "CONSUMED", "REVOKED"}
        /\ grant.attempt = a
        /\ SameCommand(grant, attempts[a])

(* A durable outcome is final: a sealed Draft, a sealed Attempt, a Receipt   *)
(* and a spent Grant are never rewritten, by any later call in any order.    *)
OutcomesAreFinal ==
  /\ \A d \in Drafts : drafts[d].state \in SealedDraftStates => drafts'[d] = drafts[d]
  /\ \A a \in Attempts :
       /\ Exists(attempts[a]) /\ attempts[a].state \in SealedAttemptStates
            => attempts'[a] = attempts[a]
       /\ Exists(receipts[a]) => receipts'[a] = receipts[a]
  /\ \A g \in Grants : grants[g].state \in {"CONSUMED", "REVOKED", "EXPIRED"}
       => grants'[g] = grants[g]

NoResurrection == [][OutcomesAreFinal]_vars

-----------------------------------------------------------------------------
(* The strengthening that makes the properties above inductive *)

\* An Attempt that may still take effect, or has: it has no Receipt, or a SUCCESS one.
Unrefuted(a) == Exists(attempts[a]) /\ (Exists(receipts[a]) => Succeeded(a))

(* The idempotency key is unique among Attempts, although the Grants that    *)
(* lead to it, one per authority card, are not.                              *)
UniqueKeys ==
  \A a, b \in Attempts :
    /\ Exists(attempts[a]) /\ Exists(attempts[b])
    /\ attempts[a].draft = attempts[b].draft
    /\ attempts[a].digest = attempts[b].digest
    => a = b

(* Receipts belong to Attempts, and a sealed Attempt states the outcome of   *)
(* its own Receipt.                                                          *)
ReceiptsCloseAttempts ==
  \A a \in Attempts :
    /\ Exists(receipts[a]) => Exists(attempts[a])
    /\ Exists(attempts[a]) /\ attempts[a].state \in SealedAttemptStates =>
         Exists(receipts[a]) /\ OutcomeAgrees(attempts[a].state, receipts[a].state)

(* An Attempt that is not refuted holds its Draft: the row keeps the very    *)
(* command of the Attempt, in flight or sealed, so no further Grant can be   *)
(* issued or reserved on it.                                                 *)
UnrefutedAttemptHoldsDraft ==
  \A a \in Attempts : Unrefuted(a) =>
    LET draft == drafts[attempts[a].draft]
    IN  /\ draft.state \in InFlightStates \cup {"COMMITTED", "FAILED_FINAL"}
        /\ draft.revision = attempts[a].revision
        /\ draft.digest = attempts[a].digest

IndInv ==
  /\ TypeOK
  /\ UniqueKeys
  /\ AttemptSpendsItsGrant
  /\ ReceiptsCloseAttempts
  /\ UnrefutedAttemptHoldsDraft
  /\ CommittedHasSuccessReceipt
  /\ ConsumedGrantClosesChain

-----------------------------------------------------------------------------
(* What the rows say of each command, for the caller who sees only results. *)

CommandResult(d, c) ==
  IF ~KeyTaken(d, c) THEN "unsubmitted"
  ELSE IF \E a \in Attempts : AttemptOf(a, d, c) /\ Succeeded(a) THEN "succeeded"
  ELSE IF \E a \in Attempts : AttemptOf(a, d, c) /\ Open(a) THEN "open"
  ELSE "failed"

CommandResults == [d \in Drafts |-> [c \in Digests |-> CommandResult(d, c)]]

Ledger == INSTANCE SubmissionLedger WITH result <- CommandResults

(* The store implements SubmissionLedger: seen through its Receipts, a Draft *)
(* submits one command at a time, each at most once, and none after success. *)
ImplementsSubmissionLedger == Ledger!Spec
=============================================================================
