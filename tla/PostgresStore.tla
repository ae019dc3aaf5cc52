---------------------------- MODULE PostgresStore ----------------------------
(***************************************************************************)
(* The PostgreSQL twin of the transaction repository                       *)
(* (_SqlAlchemyTransactionLifecycleRepository).  The same policy decides,  *)
(* but a transaction at READ COMMITTED reads, and then writes what it      *)
(* decided without looking at the rows again: between the two, other       *)
(* transactions commit.  What the statements that write still ask for is   *)
(* all that is checked then: the state of a Grant, and unique keys.        *)
(*                                                                         *)
(* The SELECTs of a transaction are one step, and so are its writes and    *)
(* its commit.  A session is one connection; it runs one call at a time.   *)
(***************************************************************************)
EXTENDS TransactionStore

CONSTANTS
  Sessions,     \* database connections
  GivenRows     \* rows that callers pass to create_draft

ASSUME RowsAssumption == GivenRows \subseteq DraftRow

VARIABLE pending      \* what the transaction of each session has decided to write, or None

pgVars == <<vars, pending>>

\* Statements that are about to be executed.
CreateWrite     == [op : {"create"}, draft : Drafts, row : GivenRows, insert : BOOLEAN]
AdvanceWrite    == [op : {"advance"}, draft : Drafts, state : ObservedStates, revision : Revisions,
                    digest : Digests, attempt : Attempts, reprojected : BOOLEAN]
IssueWrite      == [op : {"issue"}, grant : Grants, draft : Drafts, revision : Revisions,
                    digest : Digests, card : Cards]
ReserveWrite    == [op : {"reserve"}, grant : Grants, attempt : Attempts, draft : Drafts,
                    revision : Revisions, digest : Digests]
EndWrite        == [op : {"end"}, grant : Grants, state : {"REVOKED", "EXPIRED"}]
ConsumeWrite    == [op : {"consume"}, grant : Grants, attempt : Attempts, handle : Handles]
ReceiptWrite    == [op : {"receipt"}, attempt : Attempts, state : ReceiptStates, handle : Handles]
TransitionWrite == [op : {"transition"}, attempt : Attempts, state : AttemptStates,
                    handle : Handles \cup {None}]

Writes == CreateWrite \cup AdvanceWrite \cup IssueWrite \cup ReserveWrite \cup EndWrite
            \cup ConsumeWrite \cup ReceiptWrite \cup TransitionWrite

PgInit == Init /\ pending = [s \in Sessions |-> None]

\* Rows that the writes leave; the card of a COMMITTING Draft is not read again.
StartedRow(w) ==
  [state |-> "STARTED", draft |-> w.draft, revision |-> w.revision, digest |-> w.digest,
   grant |-> w.grant, handle |-> None]

CommittingRow(w) ==
  [drafts[w.draft] EXCEPT !.state = "COMMITTING", !.revision = w.revision, !.digest = w.digest,
                          !.grant = w.grant, !.attempt = w.attempt]

-----------------------------------------------------------------------------
(* The first half of each call: its SELECTs and the policy's decision *)

Decide(s, write) ==
  /\ pending[s] = None
  /\ pending' = [pending EXCEPT ![s] = write]
  /\ UNCHANGED vars

ReadForCreate(s, d, row) ==
  /\ MayCreate(d, row)
  /\ Decide(s, [op |-> "create", draft |-> d, row |-> row, insert |-> ~Exists(drafts[d])])

\* The commit path names revision, digest and projection, reconciliation none of them.
ReadForAdvance(s, d, state, revision, digest, a, reprojected) ==
  /\ MayAdvance(d, state, revision, digest, a, reprojected)
  /\ ~reprojected => revision = drafts[d].revision /\ digest = drafts[d].digest
  /\ Decide(s, [op |-> "advance", draft |-> d, state |-> state, revision |-> revision,
                digest |-> digest, attempt |-> a, reprojected |-> reprojected])

ReadForIssue(s, g, d, revision, digest, card) ==
  /\ MayIssue(d, revision, digest, card) /\ IsNewGrant(g, d, revision, digest, card)
  /\ Decide(s, [op |-> "issue", grant |-> g, draft |-> d, revision |-> revision,
                digest |-> digest, card |-> card])

ReadForReserve(s, g, a, d, revision, digest) ==
  /\ ~KeyTaken(d, digest)
  /\ MayReserve(g, a, d, revision, digest)
  /\ Decide(s, [op |-> "reserve", grant |-> g, attempt |-> a, draft |-> d,
                revision |-> revision, digest |-> digest])

\* The canonical Draft refuses the reservation.
ReadForReject(s, g, d, revision, digest) ==
  /\ ~KeyTaken(d, digest)
  /\ Exists(grants[g])
  /\ GrantMatchesRequest(grants[g], d, revision, digest)
  /\ ~ReservationAllowed(g)
  /\ Decide(s, [op |-> "end", grant |-> g, state |-> "REVOKED"])

\* The reservation comes after expires_at.
ReadForExpire(s, g, d, revision, digest) ==
  /\ ~KeyTaken(d, digest)
  /\ Exists(grants[g])
  /\ GrantMatchesRequest(grants[g], d, revision, digest)
  /\ ReservationAllowed(g)
  /\ Decide(s, [op |-> "end", grant |-> g, state |-> "EXPIRED"])

ReadForConsume(s, g, a, handle) ==
  /\ MayConsume(g, a, handle)
  /\ Decide(s, [op |-> "consume", grant |-> g, attempt |-> a, handle |-> handle])

ReadForReceipt(s, a, d, state, handle) ==
  /\ MayRecord(a, d, state)
  /\ Decide(s, [op |-> "receipt", attempt |-> a, state |-> state, handle |-> handle])

ReadForTransition(s, a, state, handle) ==
  /\ MayTransition(a, state, handle)
  /\ Decide(s, [op |-> "transition", attempt |-> a, state |-> state, handle |-> handle])

-----------------------------------------------------------------------------
(* The second half: the writes and the commit *)

Committed(s) == pending' = [pending EXCEPT ![s] = None]

Writing(s, op) == pending[s] # None /\ pending[s].op = op

\* A Draft that had no row is inserted, and its primary key refuses a second one.
WriteCreate(s) ==
  /\ Writing(s, "create")
  /\ pending[s].insert => ~Exists(drafts[pending[s].draft])
  /\ drafts' = [drafts EXCEPT ![pending[s].draft] = pending[s].row]
  /\ UNCHANGED <<grants, attempts, receipts>> /\ Committed(s)

\* The columns that the caller has given; the others stay what they are by now.
AdvancedColumns(w) ==
  IF w.reprojected
    THEN AdvancedRow(w.draft, w.state, w.revision, w.digest, TRUE)
    ELSE [drafts[w.draft] EXCEPT !.state = w.state]

WriteAdvance(s) ==
  /\ Writing(s, "advance")
  /\ LET w == pending[s]
     IN  drafts' = [drafts EXCEPT ![w.draft] = [AdvancedColumns(w) EXCEPT !.attempt = w.attempt]]
  /\ UNCHANGED <<grants, attempts, receipts>> /\ Committed(s)

WriteIssue(s) ==
  /\ Writing(s, "issue")
  /\ LET w == pending[s]
     IN  /\ IsNewGrant(w.grant, w.draft, w.revision, w.digest, w.card)
         /\ grants' = [grants EXCEPT ![w.grant] =
              [state |-> "ISSUED", draft |-> w.draft, revision |-> w.revision,
               digest |-> w.digest, card |-> w.card, attempt |-> None, handle |-> None]]
  /\ UNCHANGED <<drafts, attempts, receipts>> /\ Committed(s)

\* Mutant: the idempotency key is not unique.
WriteReserveKeyed(s) ==
  /\ Writing(s, "reserve")
  /\ LET w == pending[s]
     IN  /\ grants[w.grant].state = "ISSUED"
         /\ ~Exists(attempts[w.attempt])
         /\ grants' = [grants EXCEPT ![w.grant].state = "RESERVED", ![w.grant].attempt = w.attempt]
         /\ attempts' = [attempts EXCEPT ![w.attempt] = StartedRow(w)]
         /\ drafts' = [drafts EXCEPT ![w.draft] = CommittingRow(w)]
  /\ UNCHANGED receipts /\ Committed(s)

(* The Grant must still be ISSUED, and the keys of the Attempt be free; the  *)
(* Draft is set to the command whatever its row says by now.                 *)
WriteReserve(s) ==
  /\ Writing(s, "reserve")
  /\ LET w == pending[s]
     IN  /\ grants[w.grant].state = "ISSUED"
         /\ ~KeyTaken(w.draft, w.digest) /\ ~Exists(attempts[w.attempt])
         /\ grants' = [grants EXCEPT ![w.grant].state = "RESERVED", ![w.grant].attempt = w.attempt]
         /\ attempts' = [attempts EXCEPT ![w.attempt] = StartedRow(w)]
         /\ drafts' = [drafts EXCEPT ![w.draft] = CommittingRow(w)]
  /\ UNCHANGED receipts /\ Committed(s)

\* Mutant: a Grant that was reserved in the meantime expires.
WriteEndAny(s) ==
  /\ Writing(s, "end")
  /\ grants' = [grants EXCEPT ![pending[s].grant].state = pending[s].state]
  /\ UNCHANGED <<drafts, attempts, receipts>> /\ Committed(s)

\* A Grant is revoked or expires only while it is ISSUED.
WriteEnd(s) ==
  /\ Writing(s, "end")
  /\ grants[pending[s].grant].state = "ISSUED"
  /\ grants' = [grants EXCEPT ![pending[s].grant].state = pending[s].state]
  /\ UNCHANGED <<drafts, attempts, receipts>> /\ Committed(s)

\* Mutant: the UPDATE does not ask for the state.
WriteConsumeAny(s) ==
  /\ Writing(s, "consume")
  /\ LET w == pending[s]
     IN  grants' = [grants EXCEPT ![w.grant].state = "CONSUMED", ![w.grant].handle = w.handle]
  /\ UNCHANGED <<drafts, attempts, receipts>> /\ Committed(s)

WriteConsume(s) ==
  /\ Writing(s, "consume")
  /\ LET w == pending[s]
     IN  /\ grants[w.grant].state = "RESERVED" /\ grants[w.grant].attempt = w.attempt
         /\ grants' = [grants EXCEPT ![w.grant].state = "CONSUMED", ![w.grant].handle = w.handle]
  /\ UNCHANGED <<drafts, attempts, receipts>> /\ Committed(s)

\* Mutant: attempt_id is not unique, the later Receipt counts.
WriteReceiptAgain(s) ==
  /\ Writing(s, "receipt")
  /\ LET w == pending[s]
     IN  receipts' = [receipts EXCEPT ![w.attempt] = [state |-> w.state, handle |-> w.handle]]
  /\ UNCHANGED <<drafts, grants, attempts>> /\ Committed(s)

\* Mutant: the Receipt is stored without its handle.
WriteBareReceipt(s) ==
  /\ Writing(s, "receipt")
  /\ LET w == pending[s]
     IN  /\ ~Exists(receipts[w.attempt])
         /\ receipts' = [receipts EXCEPT ![w.attempt] = [state |-> w.state, handle |-> None]]
  /\ UNCHANGED <<drafts, grants, attempts>> /\ Committed(s)

\* The table has one Receipt for each attempt_id.
WriteReceipt(s) ==
  /\ Writing(s, "receipt")
  /\ LET w == pending[s]
     IN  /\ ~Exists(receipts[w.attempt])
         /\ receipts' = [receipts EXCEPT ![w.attempt] = [state |-> w.state, handle |-> w.handle]]
  /\ UNCHANGED <<drafts, grants, attempts>> /\ Committed(s)

WriteTransition(s) ==
  /\ Writing(s, "transition")
  /\ LET w == pending[s]
     IN  attempts' = [attempts EXCEPT ![w.attempt].state = w.state,
           ![w.attempt].handle = IF w.handle # None THEN w.handle ELSE @]
  /\ UNCHANGED <<drafts, grants, receipts>> /\ Committed(s)

\* A guard or a key refuses the writes, or the connection is lost.
RollBack(s) == pending[s] # None /\ UNCHANGED vars /\ Committed(s)

\* revoke_grant is a single statement.
Revoke(g) == RevokeGrant(g) /\ UNCHANGED pending

-----------------------------------------------------------------------------
ReadStep(s) ==
  \/ \E d \in Drafts :
       \/ \E row \in GivenRows : ReadForCreate(s, d, row)
       \/ \E state \in ObservedStates, rev \in Revisions, c \in Digests,
             a \in Attempts, reprojected \in BOOLEAN :
            ReadForAdvance(s, d, state, rev, c, a, reprojected)
  \/ \E g \in Grants, d \in Drafts, rev \in Revisions, c \in Digests :
       \/ \E card \in Cards : ReadForIssue(s, g, d, rev, c, card)
       \/ \E a \in Attempts : ReadForReserve(s, g, a, d, rev, c)
       \/ ReadForReject(s, g, d, rev, c)
       \/ ReadForExpire(s, g, d, rev, c)
  \/ \E a \in Attempts, h \in Handles :
       \/ \E d \in Drafts, state \in ReceiptStates : ReadForReceipt(s, a, d, state, h)
       \/ \E g \in Grants : ReadForConsume(s, g, a, h)
  \/ \E a \in Attempts, state \in AttemptStates \ {"STARTED"}, h \in Handles \cup {None} :
       ReadForTransition(s, a, state, h)

WriteStep(s) ==
  \/ WriteCreate(s) \/ WriteAdvance(s) \/ WriteIssue(s) \/ WriteReserve(s) \/ WriteEnd(s)
  \/ WriteConsume(s) \/ WriteReceipt(s) \/ WriteTransition(s) \/ RollBack(s)

PgNext == (\E s \in Sessions : ReadStep(s) \/ WriteStep(s)) \/ (\E g \in Grants : Revoke(g))

PgSpec == PgInit /\ [][PgNext]_pgVars

-----------------------------------------------------------------------------
(* What PostgreSQL keeps of the correctness of the repository *)

PgTypeOK == TypeOK /\ pending \in [Sessions -> Writes \cup {None}]

(* A CONSUMED Grant rests on the SUCCESS Receipt of its own Attempt, with    *)
(* the handle the Grant names (consume_grant), although an overlapping       *)
(* transition_attempt may have taken the Attempt's outcome back.             *)
ConsumedGrantHasReceipt ==
  \A g \in Grants : grants[g].state = "CONSUMED" =>
    LET a == grants[g].attempt
    IN  a \in Attempts /\ Succeeded(a) /\ receipts[a].handle = grants[g].handle

(* Receipts and ended Grants stay as they are, and neither a Grant nor the   *)
(* command of a Draft is submitted a second time, whatever overlaps          *)
(* (the guarded UPDATEs and the unique keys).                                *)
EvidenceStays ==
  [][/\ \A g \in Grants : grants[g].state \in {"CONSUMED", "REVOKED", "EXPIRED"}
                             => grants'[g] = grants[g]
     /\ \A a \in Attempts : Exists(receipts[a]) => receipts'[a] = receipts[a]]_pgVars

-----------------------------------------------------------------------------
(* The strengthening that makes the properties above inductive *)

(* What was read and cannot change any more: a command of a Grant, a         *)
(* Receipt, the existence of a row.                                          *)
StillTrue(w) ==
  /\ w.op = "advance" => Exists(drafts[w.draft])
  /\ w.op = "reserve" =>
       Exists(drafts[w.draft]) /\ Exists(grants[w.grant]) /\ SameCommand(grants[w.grant], w)
  /\ w.op = "consume" =>
       Succeeded(w.attempt) /\ receipts[w.attempt].handle = w.handle
  /\ w.op \in {"receipt", "transition"} => Exists(attempts[w.attempt])

PgInv ==
  /\ PgTypeOK
  /\ AttemptSpendsItsGrant
  /\ UniqueKeys
  /\ ConsumedGrantHasReceipt
  /\ \A s \in Sessions : pending[s] # None => StillTrue(pending[s])
=============================================================================
