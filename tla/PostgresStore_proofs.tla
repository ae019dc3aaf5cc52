------------------------- MODULE PostgresStore_proofs -------------------------
(***************************************************************************)
(* Proofs of what the PostgreSQL repository keeps although its             *)
(* transactions overlap: Grants are spent once, commands are submitted     *)
(* once, Receipts and ended Grants stay.                                   *)
(***************************************************************************)
EXTENDS PostgresStore, TLAPS

USE NoneAssumption, BoundAssumption, RowsAssumption

LEMMA WrittenRows ==
  ASSUME TypeOK
  PROVE  /\ \A d \in Drafts : Exists(drafts[d]) => drafts[d] \in DraftRow
         /\ \A g \in Grants : Exists(grants[g]) => grants[g] \in GrantRow
         /\ \A a \in Attempts : Exists(attempts[a]) => attempts[a] \in AttemptRow
         /\ \A a \in Attempts : Exists(receipts[a]) => receipts[a] \in ReceiptRow
  BY DEF TypeOK, Exists, Absent

LEMMA NoRowIsAbsent ==
  /\ \A r \in DraftRow \cup GrantRow \cup AttemptRow \cup ReceiptRow : Exists(r)
  /\ ~Exists(Absent)
  BY DEF DraftRow, GrantRow, AttemptRow, ReceiptRow, Absent, Exists, DraftStates, ReusableStates,
         InFlightStates, ClosingStates, OutcomeStates, AttemptStates, SealedAttemptStates,
         ReceiptStates

\* The kind of a write tells its fields.
LEMMA WriteKinds ==
  ASSUME NEW w \in Writes
  PROVE  /\ w.op = "create" => w \in CreateWrite
         /\ w.op = "advance" => w \in AdvanceWrite
         /\ w.op = "issue" => w \in IssueWrite
         /\ w.op = "reserve" => w \in ReserveWrite
         /\ w.op = "end" => w \in EndWrite
         /\ w.op = "consume" => w \in ConsumeWrite
         /\ w.op = "receipt" => w \in ReceiptWrite
         /\ w.op = "transition" => w \in TransitionWrite
  BY DEF Writes, CreateWrite, AdvanceWrite, IssueWrite, ReserveWrite, EndWrite, ConsumeWrite,
         ReceiptWrite, TransitionWrite

-----------------------------------------------------------------------------
(* What no step takes back *)

Kept ==
  /\ \A d \in Drafts : Exists(drafts[d]) => Exists(drafts'[d])
  /\ \A g \in Grants : Exists(grants[g]) =>
       /\ Exists(grants'[g])
       /\ grants'[g].draft = grants[g].draft /\ grants'[g].revision = grants[g].revision
       /\ grants'[g].digest = grants[g].digest
  /\ \A a \in Attempts : Exists(attempts[a]) => Exists(attempts'[a])
  /\ \A a \in Attempts : Exists(receipts[a]) => receipts'[a] = receipts[a]

Waiting(s) == pending[s] # None => StillTrue(pending[s])
Rest == AttemptSpendsItsGrant /\ UniqueKeys /\ ConsumedGrantHasReceipt

\* A write that was decided stays right while other transactions commit.
LEMMA WaitingKept ==
  ASSUME PgTypeOK, Kept, NEW s \in Sessions, Waiting(s), pending'[s] = pending[s]
  PROVE  Waiting(s)'
<1> SUFFICES ASSUME pending[s] # None PROVE StillTrue(pending[s])'
  BY DEF Waiting
<1> DEFINE w == pending[s]
<1>0. w \in Writes /\ StillTrue(w)
  BY DEF PgTypeOK, Waiting
<1> HIDE DEF w
<1>1. w.op = "advance" => Exists(drafts'[w.draft])
  BY <1>0, WriteKinds DEF StillTrue, AdvanceWrite, Kept
<1>2. w.op = "reserve" =>
        Exists(drafts'[w.draft]) /\ Exists(grants'[w.grant]) /\ SameCommand(grants'[w.grant], w)
  BY <1>0, WriteKinds DEF StillTrue, ReserveWrite, Kept, SameCommand
<1>3. w.op = "consume" => receipts'[w.attempt] = receipts[w.attempt]
  BY <1>0, WriteKinds DEF StillTrue, ConsumeWrite, Kept, Succeeded
<1>4. w.op \in {"receipt", "transition"} => Exists(attempts'[w.attempt])
  BY <1>0, WriteKinds DEF StillTrue, ReceiptWrite, TransitionWrite, Kept
<1> QED BY <1>0, <1>1, <1>2, <1>3, <1>4 DEF StillTrue, Succeeded, Exists, w

-----------------------------------------------------------------------------
(* Reads *)

LEMMA Decided ==
  ASSUME PgInv, NEW s \in Sessions, NEW w \in Writes, StillTrue(w), Decide(s, w)
  PROVE  PgInv'
<1>1. PgTypeOK'
  BY DEF PgInv, PgTypeOK, Decide, vars, TypeOK
<1>2. Rest'
  BY DEF Rest, PgInv, Decide, vars, AttemptSpendsItsGrant, UniqueKeys, ConsumedGrantHasReceipt,
         Succeeded, Exists, SameCommand
<1>3. ASSUME NEW u \in Sessions, pending'[u] # None PROVE StillTrue(pending[u])'
  <2>1. pending'[u] = w \/ pending'[u] = pending[u]
    BY DEF PgInv, PgTypeOK, Decide
  <2>2. StillTrue(pending'[u])
    BY <1>3, <2>1 DEF PgInv
  <2> QED BY <2>2 DEF StillTrue, Decide, vars, Succeeded, Exists, SameCommand
<1> QED BY <1>1, <1>2, <1>3 DEF PgInv, Rest

LEMMA Reads ==
  ASSUME PgInv, NEW s \in Sessions, ReadStep(s)
  PROVE  PgInv'
<1> USE DEF Writes, StillTrue
<1>1. ASSUME NEW d \in Drafts, NEW row \in GivenRows, ReadForCreate(s, d, row) PROVE PgInv'
  <2> DEFINE w == [op |-> "create", draft |-> d, row |-> row, insert |-> ~Exists(drafts[d])]
  <2>1. w \in Writes /\ StillTrue(w)
    BY DEF CreateWrite
  <2> QED BY <1>1, <2>1, Decided DEF ReadForCreate
<1>2. ASSUME NEW d \in Drafts, NEW state \in ObservedStates, NEW rev \in Revisions,
             NEW c \in Digests, NEW a \in Attempts, NEW reprojected \in BOOLEAN,
             ReadForAdvance(s, d, state, rev, c, a, reprojected)
      PROVE  PgInv'
  <2> DEFINE w == [op |-> "advance", draft |-> d, state |-> state, revision |-> rev,
                   digest |-> c, attempt |-> a, reprojected |-> reprojected]
  <2>1. w \in Writes /\ StillTrue(w)
    BY <1>2 DEF AdvanceWrite, ReadForAdvance, MayAdvance
  <2> QED BY <1>2, <2>1, Decided DEF ReadForAdvance
<1>3. ASSUME NEW g \in Grants, NEW d \in Drafts, NEW rev \in Revisions, NEW c \in Digests,
             NEW card \in Cards, ReadForIssue(s, g, d, rev, c, card)
      PROVE  PgInv'
  <2> DEFINE w == [op |-> "issue", grant |-> g, draft |-> d, revision |-> rev, digest |-> c,
                   card |-> card]
  <2>1. w \in Writes /\ StillTrue(w)
    BY DEF IssueWrite
  <2> QED BY <1>3, <2>1, Decided DEF ReadForIssue
<1>4. ASSUME NEW g \in Grants, NEW d \in Drafts, NEW rev \in Revisions, NEW c \in Digests,
             NEW a \in Attempts, ReadForReserve(s, g, a, d, rev, c)
      PROVE  PgInv'
  <2> DEFINE w == [op |-> "reserve", grant |-> g, attempt |-> a, draft |-> d, revision |-> rev,
                   digest |-> c]
  <2>1. w \in Writes
    BY DEF ReserveWrite
  <2>2. StillTrue(w)
    BY <1>4 DEF ReadForReserve, MayReserve, ReservationAllowed, GrantMatchesRequest, SameCommand
  <2> QED BY <1>4, <2>1, <2>2, Decided DEF ReadForReserve
<1>5. ASSUME NEW g \in Grants, NEW d \in Drafts, NEW rev \in Revisions, NEW c \in Digests,
             ReadForReject(s, g, d, rev, c) \/ ReadForExpire(s, g, d, rev, c)
      PROVE  PgInv'
  <2>1. ASSUME NEW state \in {"REVOKED", "EXPIRED"}
        PROVE  /\ [op |-> "end", grant |-> g, state |-> state] \in Writes
               /\ StillTrue([op |-> "end", grant |-> g, state |-> state])
    BY <2>1 DEF EndWrite
  <2> QED BY <1>5, <2>1, Decided DEF ReadForReject, ReadForExpire
<1>6. ASSUME NEW a \in Attempts, NEW h \in Handles, NEW d \in Drafts, NEW state \in ReceiptStates,
             ReadForReceipt(s, a, d, state, h)
      PROVE  PgInv'
  <2> DEFINE w == [op |-> "receipt", attempt |-> a, state |-> state, handle |-> h]
  <2>1. w \in Writes /\ StillTrue(w)
    BY <1>6 DEF ReceiptWrite, ReadForReceipt, MayRecord
  <2> QED BY <1>6, <2>1, Decided DEF ReadForReceipt
<1>7. ASSUME NEW a \in Attempts, NEW h \in Handles, NEW g \in Grants, ReadForConsume(s, g, a, h)
      PROVE  PgInv'
  <2> DEFINE w == [op |-> "consume", grant |-> g, attempt |-> a, handle |-> h]
  <2>1. w \in Writes /\ StillTrue(w)
    BY <1>7 DEF ConsumeWrite, ReadForConsume, MayConsume, GrantConsumptionAllowed, Succeeded,
                Exists
  <2> QED BY <1>7, <2>1, Decided DEF ReadForConsume
<1>8. ASSUME NEW a \in Attempts, NEW state \in AttemptStates, NEW h \in Handles \cup {None},
             ReadForTransition(s, a, state, h)
      PROVE  PgInv'
  <2> DEFINE w == [op |-> "transition", attempt |-> a, state |-> state, handle |-> h]
  <2>1. w \in Writes /\ StillTrue(w)
    BY <1>8 DEF TransitionWrite, ReadForTransition, MayTransition
  <2> QED BY <1>8, <2>1, Decided DEF ReadForTransition
<1> QED BY <1>1, <1>2, <1>3, <1>4, <1>5, <1>6, <1>7, <1>8 DEF ReadStep

-----------------------------------------------------------------------------
(* Writes: each keeps the types, what was there, and the links. *)

LEMMA CommitKeeps ==
  ASSUME PgInv, NEW s \in Sessions, Committed(s), TypeOK', Kept, Rest'
  PROVE  PgInv'
<1>1. PgTypeOK'
  BY DEF PgInv, PgTypeOK, Committed
<1>2. ASSUME NEW u \in Sessions, pending'[u] # None PROVE StillTrue(pending[u])'
  <2>1. pending'[u] = pending[u]
    BY <1>2 DEF PgInv, PgTypeOK, Committed
  <2> QED BY <1>2, <2>1, WaitingKept DEF PgInv, Waiting
<1> QED BY <1>1, <1>2 DEF PgInv, Rest

\* The links do not speak of Drafts.
LEMMA DraftWrite ==
  ASSUME PgInv, NEW d \in Drafts, NEW row \in DraftRow, drafts' = [drafts EXCEPT ![d] = row],
         UNCHANGED <<grants, attempts, receipts>>
  PROVE  TypeOK' /\ Kept /\ Rest'
<1>1. TypeOK'
  BY DEF PgInv, PgTypeOK, TypeOK
<1>2. Kept
  BY NoRowIsAbsent DEF PgInv, PgTypeOK, TypeOK, Kept
<1>3. Rest'
  BY DEF Rest, PgInv, AttemptSpendsItsGrant, UniqueKeys, ConsumedGrantHasReceipt, Succeeded,
         Exists, SameCommand
<1> QED BY <1>1, <1>2, <1>3

\* One row of a Grant that keeps its command, and its Attempt if it has one.
LEMMA GrantWrite ==
  ASSUME PgInv, NEW g \in Grants, NEW row \in GrantRow, grants' = [grants EXCEPT ![g] = row],
         UNCHANGED <<drafts, attempts, receipts>>,
         Exists(grants[g]) =>
           /\ row.draft = grants[g].draft /\ row.revision = grants[g].revision
           /\ row.digest = grants[g].digest /\ row.attempt = grants[g].attempt
           /\ grants[g].state \in {"ISSUED", "RESERVED"}
           /\ row.state \in {"REVOKED", "CONSUMED"} \/ grants[g].state = "ISSUED",
         row.state = "CONSUMED" =>
           row.attempt \in Attempts /\ Succeeded(row.attempt)
             /\ receipts[row.attempt].handle = row.handle
  PROVE  TypeOK' /\ Kept /\ Rest'
<1>1. TypeOK'
  BY DEF PgInv, PgTypeOK, TypeOK
<1>2. Kept
  BY NoRowIsAbsent DEF PgInv, PgTypeOK, TypeOK, Kept
<1>3. AttemptSpendsItsGrant'
  <2> SUFFICES ASSUME NEW a \in Attempts, Exists(attempts[a])
               PROVE  LET grant == grants'[attempts[a].grant]
                      IN  /\ Exists(grant)
                          /\ grant.state \in {"RESERVED", "CONSUMED", "REVOKED"}
                          /\ grant.attempt = a
                          /\ SameCommand(grant, attempts[a])
    BY DEF AttemptSpendsItsGrant, SameCommand, Exists
  <2>1. attempts[a].grant \in Grants
    BY WrittenRows DEF PgInv, PgTypeOK, AttemptRow
  <2>2. LET grant == grants[attempts[a].grant]
        IN  /\ Exists(grant)
            /\ grant.state \in {"RESERVED", "CONSUMED", "REVOKED"}
            /\ grant.attempt = a
            /\ SameCommand(grant, attempts[a])
    BY DEF PgInv, AttemptSpendsItsGrant
  <2>3. CASE attempts[a].grant = g
    <3>1. grants'[g] = row /\ Exists(row)
      BY NoRowIsAbsent DEF PgInv, PgTypeOK, TypeOK
    <3> QED BY <2>2, <2>3, <3>1 DEF SameCommand
  <2>4. CASE attempts[a].grant # g
    BY <2>1, <2>2, <2>4 DEF PgInv, PgTypeOK, TypeOK
  <2> QED BY <2>3, <2>4
<1>4. UniqueKeys'
  BY DEF PgInv, UniqueKeys, Exists
<1>5. ConsumedGrantHasReceipt'
  <2>1. \A x \in Grants : grants'[x] = IF x = g THEN row ELSE grants[x]
    BY DEF PgInv, PgTypeOK, TypeOK
  <2> QED BY <2>1 DEF PgInv, ConsumedGrantHasReceipt, Succeeded, Exists
<1> QED BY <1>1, <1>2, <1>3, <1>4, <1>5 DEF Rest

\* What a session is about to write is known from the invariant.
LEMMA AboutToWrite ==
  ASSUME PgInv, NEW s \in Sessions, NEW op, Writing(s, op)
  PROVE  /\ pending[s] \in Writes /\ pending[s].op = op /\ StillTrue(pending[s])
         /\ TypeOK
  BY DEF PgInv, PgTypeOK, Writing

LEMMA DraftWrites ==
  ASSUME PgInv, NEW s \in Sessions, WriteCreate(s) \/ WriteAdvance(s)
  PROVE  PgInv'
<1> DEFINE w == pending[s]
<1>1. CASE WriteCreate(s)
  <2>1. w \in CreateWrite
    BY <1>1, AboutToWrite, WriteKinds DEF WriteCreate
  <2>2. w.draft \in Drafts /\ w.row \in DraftRow
    BY <2>1 DEF CreateWrite
  <2>3. TypeOK' /\ Kept /\ Rest'
    BY <1>1, <2>2, DraftWrite DEF WriteCreate
  <2> QED BY <1>1, <2>3, CommitKeeps DEF WriteCreate
<1>2. CASE WriteAdvance(s)
  <2>1. w \in AdvanceWrite /\ Exists(drafts[w.draft]) /\ TypeOK
    BY <1>2, AboutToWrite, WriteKinds DEF WriteAdvance, StillTrue
  <2> HIDE DEF w
  <2>2. w.draft \in Drafts /\ drafts[w.draft] \in DraftRow
    BY <2>1, WrittenRows DEF AdvanceWrite
  <2>3. w.state \in DraftStates /\ w.revision \in Revisions /\ w.digest \in Digests
          /\ w.attempt \in Attempts
    BY <2>1 DEF AdvanceWrite, ObservedStates, DraftStates, OutcomeStates, InFlightStates
  <2>4. 0 \in 0 .. MaxVersion /\ 0 \in 0 .. MaxTurn
    OBVIOUS
  <2>5. AdvancedColumns(w) \in DraftRow
    BY <2>2, <2>3, <2>4 DEF AdvancedColumns, AdvancedRow, DraftRow
  <2>6. [AdvancedColumns(w) EXCEPT !.attempt = w.attempt] \in DraftRow
    BY <2>3, <2>5 DEF DraftRow
  <2>7. TypeOK' /\ Kept /\ Rest'
    BY <1>2, <2>2, <2>6, DraftWrite DEF WriteAdvance, w
  <2> QED BY <1>2, <2>7, CommitKeeps DEF WriteAdvance
<1> QED BY <1>1, <1>2

LEMMA GrantWrites ==
  ASSUME PgInv, NEW s \in Sessions, WriteIssue(s) \/ WriteEnd(s) \/ WriteConsume(s)
  PROVE  PgInv'
<1> DEFINE w == pending[s]
<1>1. CASE WriteIssue(s)
  <2> DEFINE row == [state |-> "ISSUED", draft |-> w.draft, revision |-> w.revision,
                     digest |-> w.digest, card |-> w.card, attempt |-> None, handle |-> None]
  <2>1. w \in IssueWrite
    BY <1>1, AboutToWrite, WriteKinds DEF WriteIssue
  <2>2. w.grant \in Grants /\ row \in GrantRow /\ row.state = "ISSUED"
    BY <2>1 DEF IssueWrite, GrantRow
  <2>3. grants' = [grants EXCEPT ![w.grant] = row] /\ ~Exists(grants[w.grant])
          /\ UNCHANGED <<drafts, attempts, receipts>>
    BY <1>1 DEF WriteIssue, IsNewGrant
  <2> HIDE DEF row
  <2>4. TypeOK' /\ Kept /\ Rest'
    BY <2>2, <2>3, GrantWrite
  <2> QED BY <1>1, <2>4, CommitKeeps DEF WriteIssue
<1>2. CASE WriteEnd(s)
  <2> DEFINE row == [grants[w.grant] EXCEPT !.state = w.state]
  <2>1. w \in EndWrite /\ TypeOK
    BY <1>2, AboutToWrite, WriteKinds DEF WriteEnd
  <2>2. w.grant \in Grants /\ w.state \in {"REVOKED", "EXPIRED"}
          /\ grants[w.grant].state = "ISSUED"
    BY <1>2, <2>1 DEF EndWrite, WriteEnd
  <2>3. grants[w.grant] \in GrantRow
    BY <2>1, <2>2, WrittenRows DEF Exists
  <2>4. row \in GrantRow /\ row.state = w.state /\ row.draft = grants[w.grant].draft
          /\ row.revision = grants[w.grant].revision /\ row.digest = grants[w.grant].digest
          /\ row.attempt = grants[w.grant].attempt
    BY <2>2, <2>3 DEF GrantRow
  <2>5. grants' = [grants EXCEPT ![w.grant] = row] /\ UNCHANGED <<drafts, attempts, receipts>>
    BY <1>2, <2>3 DEF WriteEnd
  <2> HIDE DEF row, w
  <2>6. TypeOK' /\ Kept /\ Rest'
    BY <2>2, <2>4, <2>5, GrantWrite
  <2> QED BY <1>2, <2>6, CommitKeeps DEF WriteEnd
<1>3. CASE WriteConsume(s)
  <2> DEFINE row == [grants[w.grant] EXCEPT !.state = "CONSUMED", !.handle = w.handle]
  <2>1. w \in ConsumeWrite /\ TypeOK /\ Succeeded(w.attempt)
        /\ receipts[w.attempt].handle = w.handle
    BY <1>3, AboutToWrite, WriteKinds DEF WriteConsume, StillTrue
  <2>2. w.grant \in Grants /\ w.attempt \in Attempts /\ w.handle \in Handles
          /\ grants[w.grant].state = "RESERVED" /\ grants[w.grant].attempt = w.attempt
    BY <1>3, <2>1 DEF ConsumeWrite, WriteConsume
  <2>3. grants[w.grant] \in GrantRow
    BY <2>1, <2>2, WrittenRows DEF Exists
  <2>4. row \in GrantRow /\ row.state = "CONSUMED" /\ row.draft = grants[w.grant].draft
          /\ row.revision = grants[w.grant].revision /\ row.digest = grants[w.grant].digest
          /\ row.attempt = grants[w.grant].attempt /\ row.handle = w.handle
    BY <2>2, <2>3 DEF GrantRow
  <2>5. grants' = [grants EXCEPT ![w.grant] = row] /\ UNCHANGED <<drafts, attempts, receipts>>
    BY <1>3, <2>2, <2>3 DEF WriteConsume, GrantRow
  <2> HIDE DEF row, w
  <2>6. TypeOK' /\ Kept /\ Rest'
    BY <2>1, <2>2, <2>4, <2>5, GrantWrite
  <2> QED BY <1>3, <2>6, CommitKeeps DEF WriteConsume
<1> QED BY <1>1, <1>2, <1>3

LEMMA ReceiptWrites ==
  ASSUME PgInv, NEW s \in Sessions, WriteReceipt(s)
  PROVE  PgInv'
<1> DEFINE w == pending[s]
           row == [state |-> w.state, handle |-> w.handle]
<1>1. w \in ReceiptWrite /\ TypeOK
  BY AboutToWrite, WriteKinds DEF WriteReceipt
<1>2. w.attempt \in Attempts /\ row \in ReceiptRow
  BY <1>1 DEF ReceiptWrite, ReceiptRow
<1>3. receipts' = [receipts EXCEPT ![w.attempt] = row] /\ ~Exists(receipts[w.attempt])
        /\ UNCHANGED <<drafts, grants, attempts>>
  BY DEF WriteReceipt
<1> HIDE DEF w, row
<1>4. TypeOK' /\ Kept
  BY <1>1, <1>2, <1>3 DEF TypeOK, Kept
<1>5. Rest'
  <2>1. \A a \in Attempts : Succeeded(a) => receipts'[a] = receipts[a]
    BY <1>4 DEF Kept, Succeeded
  <2>2. AttemptSpendsItsGrant' /\ UniqueKeys'
    BY <1>3 DEF PgInv, AttemptSpendsItsGrant, UniqueKeys, Exists, SameCommand
  <2>3. ConsumedGrantHasReceipt'
    BY <1>3, <2>1 DEF PgInv, ConsumedGrantHasReceipt, Succeeded, Exists
  <2> QED BY <2>2, <2>3 DEF Rest
<1> QED BY <1>4, <1>5, CommitKeeps DEF WriteReceipt

LEMMA TransitionWrites ==
  ASSUME PgInv, NEW s \in Sessions, WriteTransition(s)
  PROVE  PgInv'
<1> DEFINE w == pending[s]
<1>1. w \in TransitionWrite /\ TypeOK /\ Exists(attempts[w.attempt])
  BY AboutToWrite, WriteKinds DEF WriteTransition, StillTrue
<1>2. w.attempt \in Attempts /\ attempts[w.attempt] \in AttemptRow
  BY <1>1, WrittenRows DEF TransitionWrite
<1> DEFINE x == IF w.handle # None THEN w.handle ELSE attempts[w.attempt].handle
           row == [attempts[w.attempt] EXCEPT !.state = w.state, !.handle = x]
<1>3. w.state \in AttemptStates /\ x \in Handles \cup {None}
  BY <1>1, <1>2 DEF TransitionWrite, AttemptRow
<1> HIDE DEF x
<1>4. row \in AttemptRow /\ row.draft = attempts[w.attempt].draft
        /\ row.revision = attempts[w.attempt].revision /\ row.digest = attempts[w.attempt].digest
        /\ row.grant = attempts[w.attempt].grant
  BY <1>2, <1>3 DEF AttemptRow
<1>5. attempts' = [attempts EXCEPT ![w.attempt] = row] /\ UNCHANGED <<drafts, grants, receipts>>
  BY <1>1, <1>2 DEF WriteTransition, TypeOK, AttemptRow, x
<1> HIDE DEF w, row
<1>6. TypeOK' /\ Kept
  BY <1>1, <1>2, <1>4, <1>5, NoRowIsAbsent DEF TypeOK, Kept
<1>7. Rest'
  <2>1. \A a \in Attempts : Exists(attempts'[a]) =>
          /\ Exists(attempts[a])
          /\ attempts'[a].draft = attempts[a].draft /\ attempts'[a].revision = attempts[a].revision
          /\ attempts'[a].digest = attempts[a].digest /\ attempts'[a].grant = attempts[a].grant
    BY <1>1, <1>2, <1>4, <1>5 DEF TypeOK
  <2>2. AttemptSpendsItsGrant'
    BY <1>5, <2>1 DEF PgInv, AttemptSpendsItsGrant, SameCommand, Exists
  <2>3. UniqueKeys'
    BY <2>1 DEF PgInv, UniqueKeys, Exists
  <2>4. ConsumedGrantHasReceipt'
    BY <1>5 DEF PgInv, ConsumedGrantHasReceipt, Succeeded, Exists
  <2> QED BY <2>2, <2>3, <2>4 DEF Rest
<1> QED BY <1>6, <1>7, CommitKeeps DEF WriteTransition

LEMMA ReserveWrites ==
  ASSUME PgInv, NEW s \in Sessions, WriteReserve(s)
  PROVE  PgInv'
<1> DEFINE w == pending[s]
           grant == [grants[w.grant] EXCEPT !.state = "RESERVED", !.attempt = w.attempt]
<1>1. w \in ReserveWrite /\ TypeOK /\ SameCommand(grants[w.grant], w)
  BY AboutToWrite, WriteKinds DEF WriteReserve, StillTrue
<1>2. w.grant \in Grants /\ w.attempt \in Attempts /\ w.draft \in Drafts
        /\ w.revision \in Revisions /\ w.digest \in Digests
        /\ grants[w.grant].state = "ISSUED" /\ ~Exists(attempts[w.attempt])
        /\ ~KeyTaken(w.draft, w.digest)
  BY <1>1 DEF WriteReserve, ReserveWrite
<1>3. grants[w.grant] \in GrantRow
  BY <1>1, <1>2, WrittenRows DEF Exists
<1>4. grant \in GrantRow /\ grant.state = "RESERVED" /\ grant.attempt = w.attempt
        /\ SameCommand(grant, w)
  BY <1>1, <1>2, <1>3 DEF GrantRow, SameCommand
<1>5. StartedRow(w) \in AttemptRow /\ StartedRow(w).grant = w.grant /\ SameCommand(StartedRow(w), w)
  BY <1>2 DEF StartedRow, AttemptRow, AttemptStates, SameCommand
<1>6. /\ grants' = [grants EXCEPT ![w.grant] = grant]
      /\ attempts' = [attempts EXCEPT ![w.attempt] = StartedRow(w)]
      /\ drafts' = [drafts EXCEPT ![w.draft] = CommittingRow(w)]
      /\ receipts' = receipts
  BY <1>3 DEF WriteReserve, GrantRow
<1> DEFINE row == CommittingRow(w)
<1>7. drafts[w.draft] \in DraftRow
  BY <1>1, <1>2, WrittenRows, AboutToWrite DEF WriteReserve, StillTrue
<1>8. row \in DraftRow
  BY <1>2, <1>7 DEF CommittingRow, DraftRow, DraftStates, InFlightStates
<1> DEFINE started == StartedRow(w)
<1> HIDE DEF grant, started, row, w
<1>9. TypeOK' /\ Kept
  <2>1. TypeOK'
    BY <1>1, <1>2, <1>4, <1>5, <1>6, <1>8 DEF TypeOK, started, row
  <2>2. \A g \in Grants : grants'[g] = IF g = w.grant THEN grant ELSE grants[g]
    BY <1>1, <1>6 DEF TypeOK
  <2>3. \A a \in Attempts : attempts'[a] = IF a = w.attempt THEN started ELSE attempts[a]
    BY <1>1, <1>6 DEF TypeOK, started
  <2>4. \A d \in Drafts : drafts'[d] = IF d = w.draft THEN row ELSE drafts[d]
    BY <1>1, <1>6 DEF TypeOK, row
  <2>5. Exists(grant) /\ Exists(started) /\ Exists(row)
    BY <1>4, <1>5, <1>8, NoRowIsAbsent DEF started
  <2> QED BY <1>1, <1>4, <1>6, <2>1, <2>2, <2>3, <2>4, <2>5 DEF Kept, SameCommand
<1>10. Rest'
  <2>1. \A a \in Attempts : attempts'[a] = IF a = w.attempt THEN started ELSE attempts[a]
    BY <1>1, <1>6 DEF TypeOK, started
  <2>2. \A g \in Grants : grants'[g] = IF g = w.grant THEN grant ELSE grants[g]
    BY <1>1, <1>6 DEF TypeOK
  <2>3. AttemptSpendsItsGrant'
    <3> SUFFICES ASSUME NEW a \in Attempts, Exists(attempts'[a])
                 PROVE  LET g == grants'[attempts'[a].grant]
                        IN  /\ Exists(g)
                            /\ g.state \in {"RESERVED", "CONSUMED", "REVOKED"}
                            /\ g.attempt = a
                            /\ SameCommand(g, attempts'[a])
      BY DEF AttemptSpendsItsGrant, SameCommand, Exists
    <3>1. CASE a = w.attempt
      <4>1. attempts'[a] = started /\ grants'[started.grant] = grant
        BY <1>2, <1>5, <2>1, <2>2, <3>1 DEF started
      <4>2. SameCommand(grant, started)
        BY <1>4, <1>5 DEF SameCommand, started
      <4> QED BY <1>4, <3>1, <4>1, <4>2, NoRowIsAbsent
    <3>2. CASE a # w.attempt
      <4>1. attempts'[a] = attempts[a] /\ Exists(attempts[a])
        BY <2>1, <3>2
      <4>2. attempts[a].grant \in Grants
        BY <1>1, <4>1, WrittenRows DEF AttemptRow
      <4>3. LET g == grants[attempts[a].grant]
            IN  /\ Exists(g)
                /\ g.state \in {"RESERVED", "CONSUMED", "REVOKED"}
                /\ g.attempt = a
                /\ SameCommand(g, attempts[a])
        BY <4>1 DEF PgInv, AttemptSpendsItsGrant
      <4>4. attempts[a].grant # w.grant
        BY <1>2, <4>3
      <4> QED BY <2>2, <4>1, <4>2, <4>3, <4>4
    <3> QED BY <3>1, <3>2
  <2>4. UniqueKeys'
    <3>1. \A a \in Attempts : Exists(attempts[a]) =>
            ~(attempts[a].draft = started.draft /\ attempts[a].digest = started.digest)
      BY <1>2, <1>5 DEF KeyTaken, AttemptOf, started, SameCommand
    <3> QED BY <2>1, <3>1 DEF PgInv, UniqueKeys, Exists
  <2>5. ConsumedGrantHasReceipt'
    BY <1>4, <1>6, <2>2 DEF PgInv, ConsumedGrantHasReceipt, Succeeded, Exists
  <2> QED BY <2>3, <2>4, <2>5 DEF Rest
<1> QED BY <1>9, <1>10, CommitKeeps DEF WriteReserve

\* revoke_grant reads and writes in one statement; no transaction ends.
LEMMA RevokeKeeps ==
  ASSUME PgInv, NEW g \in Grants, Revoke(g)
  PROVE  PgInv'
<1> DEFINE row == [grants[g] EXCEPT !.state = "REVOKED"]
<1>1. grants[g] \in GrantRow /\ grants[g].state \in {"ISSUED", "RESERVED"}
  BY WrittenRows DEF PgInv, PgTypeOK, Revoke, RevokeGrant
<1>2. row \in GrantRow /\ row.state = "REVOKED" /\ row.draft = grants[g].draft
        /\ row.revision = grants[g].revision /\ row.digest = grants[g].digest
        /\ row.attempt = grants[g].attempt
  BY <1>1 DEF GrantRow
<1>3. grants' = [grants EXCEPT ![g] = row] /\ UNCHANGED <<drafts, attempts, receipts, pending>>
  BY <1>1 DEF Revoke, RevokeGrant
<1> HIDE DEF row
<1>4. TypeOK' /\ Kept /\ Rest'
  BY <1>1, <1>2, <1>3, GrantWrite
<1>5. ASSUME NEW u \in Sessions, pending'[u] # None PROVE StillTrue(pending[u])'
  BY <1>3, <1>4, <1>5, WaitingKept DEF PgInv, Waiting
<1> QED BY <1>3, <1>4, <1>5 DEF PgInv, PgTypeOK, Rest

-----------------------------------------------------------------------------
(* The invariant *)

LEMMA PgInitial == PgInit => PgInv
<1> SUFFICES ASSUME PgInit PROVE PgInv
  OBVIOUS
<1>1. PgTypeOK
  BY DEF PgInit, Init, PgTypeOK, TypeOK
<1>2. /\ \A a \in Attempts : ~Exists(attempts[a]) /\ ~Exists(receipts[a])
      /\ \A g \in Grants : ~Exists(grants[g])
      /\ \A s \in Sessions : pending[s] = None
  BY DEF PgInit, Init, Exists, Absent
<1> QED BY <1>1, <1>2 DEF PgInv, AttemptSpendsItsGrant, UniqueKeys, ConsumedGrantHasReceipt,
                          Exists

LEMMA PgStutters ==
  ASSUME PgInv, UNCHANGED vars, pending' = pending \/ \E s \in Sessions : Committed(s)
  PROVE  PgInv'
<1>1. TypeOK' /\ Kept /\ Rest'
  BY DEF PgInv, PgTypeOK, TypeOK, vars, Kept, Rest, AttemptSpendsItsGrant, UniqueKeys,
         ConsumedGrantHasReceipt, Succeeded, Exists, SameCommand
<1>2. CASE pending' = pending
  <2>1. ASSUME NEW u \in Sessions, pending'[u] # None PROVE StillTrue(pending[u])'
    BY <1>1, <1>2, <2>1, WaitingKept DEF PgInv, Waiting
  <2> QED BY <1>1, <1>2, <2>1 DEF PgInv, PgTypeOK, Rest
<1>3. CASE \E s \in Sessions : Committed(s)
  BY <1>1, <1>3, CommitKeeps
<1> QED BY <1>2, <1>3

(* Whatever overlaps, the rows of the PostgreSQL repository stay linked, and *)
(* what a waiting transaction has read of them stays true: the inductive     *)
(* invariant of _SqlAlchemyTransactionLifecycleRepository.                   *)
THEOREM PgInvariance == PgSpec => []PgInv
<1>1. PgInv /\ [PgNext]_pgVars => PgInv'
  <2> SUFFICES ASSUME PgInv, [PgNext]_pgVars PROVE PgInv'
    OBVIOUS
  <2>1. ASSUME NEW s \in Sessions, ReadStep(s) PROVE PgInv'
    BY <2>1, Reads
  <2>2. ASSUME NEW s \in Sessions, WriteStep(s) PROVE PgInv'
    <3>1. CASE RollBack(s)
      BY <3>1, PgStutters DEF RollBack
    <3> QED BY <2>2, <3>1, DraftWrites, GrantWrites, ReceiptWrites, TransitionWrites,
               ReserveWrites DEF WriteStep
  <2>3. ASSUME NEW g \in Grants, Revoke(g) PROVE PgInv'
    BY <2>3, RevokeKeeps
  <2>4. CASE UNCHANGED pgVars
    BY <2>4, PgStutters DEF pgVars
  <2> QED BY <2>1, <2>2, <2>3, <2>4 DEF PgNext
<1> QED BY <1>1, PgInitial, PTL DEF PgSpec

\* The rows of the tables, and what every session waits to write, keep their types.
THEOREM PgTypeCorrect == PgSpec => []PgTypeOK
<1>1. PgInv => PgTypeOK
  BY DEF PgInv
<1> QED BY <1>1, PgInvariance, PTL

(* The guarded UPDATEs of reserve_grant_and_start_attempt spend a Grant on   *)
(* one Attempt of its own command, although both were read before.           *)
THEOREM GrantsAreSpentOnce == PgSpec => []AttemptSpendsItsGrant
<1>1. PgInv => AttemptSpendsItsGrant
  BY DEF PgInv
<1> QED BY <1>1, PgInvariance, PTL

(* uq_agent_transaction_attempt_idempotency: one Attempt for each command of *)
(* a Draft, whoever reserves, and from however many Grants.                  *)
THEOREM CommandsAreSubmittedOnce == PgSpec => []UniqueKeys
<1>1. PgInv => UniqueKeys
  BY DEF PgInv
<1> QED BY <1>1, PgInvariance, PTL

\* consume_grant closes a Grant on the SUCCESS Receipt of its own Attempt.
THEOREM ConsumedGrantsRestOnReceipts == PgSpec => []ConsumedGrantHasReceipt
<1>1. PgInv => ConsumedGrantHasReceipt
  BY DEF PgInv
<1> QED BY <1>1, PgInvariance, PTL

(* No transaction, however old its reads, rewrites a Receipt or a Grant that *)
(* has ended: record_receipt inserts, and every UPDATE of a Grant asks for   *)
(* the state it starts from.                                                 *)
THEOREM EvidenceIsKept == PgSpec => EvidenceStays
<1> DEFINE Ended == {"CONSUMED", "REVOKED", "EXPIRED"}
           Stays == /\ \A g \in Grants : grants[g].state \in Ended => grants'[g] = grants[g]
                    /\ \A a \in Attempts : Exists(receipts[a]) => receipts'[a] = receipts[a]
<1>1. PgInv /\ [PgNext]_pgVars => [Stays]_pgVars
  <2> SUFFICES ASSUME PgInv, PgNext PROVE Stays
    OBVIOUS
  <2>1. TypeOK
    BY DEF PgInv, PgTypeOK
  <2>2. ASSUME NEW g, grants[g].state \notin Ended, UNCHANGED receipts,
               \A x \in Grants : x # g => grants'[x] = grants[x]
        PROVE  Stays
    BY <2>2
  <2>3. ASSUME UNCHANGED <<grants, receipts>> PROVE Stays
    BY <2>3
  <2>4. ASSUME NEW s \in Sessions, ReadStep(s) PROVE Stays
    <3>1. UNCHANGED vars
      BY <2>4 DEF ReadStep, Decide, ReadForCreate, ReadForAdvance, ReadForIssue, ReadForReserve,
                  ReadForReject, ReadForExpire, ReadForConsume, ReadForReceipt, ReadForTransition
    <3> QED BY <2>3, <3>1 DEF vars
  <2>5. ASSUME NEW s \in Sessions, WriteStep(s) PROVE Stays
    <3> DEFINE g == pending[s].grant
    <3>1. CASE WriteIssue(s)
      <4>1. grants[g].state \notin Ended /\ UNCHANGED receipts
        BY <3>1 DEF WriteIssue, IsNewGrant, Exists
      <4>2. \A x \in Grants : x # g => grants'[x] = grants[x]
        BY <2>1, <3>1 DEF WriteIssue, TypeOK
      <4> QED BY <2>2, <4>1, <4>2
    <3>2. CASE WriteReserve(s)
      <4>1. grants[g].state \notin Ended /\ UNCHANGED receipts
        BY <3>2 DEF WriteReserve
      <4>2. \A x \in Grants : x # g => grants'[x] = grants[x]
        BY <2>1, <3>2 DEF WriteReserve, TypeOK
      <4> QED BY <2>2, <4>1, <4>2
    <3>3. CASE WriteEnd(s)
      <4>1. grants[g].state \notin Ended /\ UNCHANGED receipts
        BY <3>3 DEF WriteEnd
      <4>2. \A x \in Grants : x # g => grants'[x] = grants[x]
        BY <2>1, <3>3 DEF WriteEnd, TypeOK
      <4> QED BY <2>2, <4>1, <4>2
    <3>4. CASE WriteConsume(s)
      <4>1. grants[g].state \notin Ended /\ UNCHANGED receipts
        BY <3>4 DEF WriteConsume
      <4>2. \A x \in Grants : x # g => grants'[x] = grants[x]
        BY <2>1, <3>4 DEF WriteConsume, TypeOK
      <4> QED BY <2>2, <4>1, <4>2
    <3>5. CASE WriteReceipt(s)
      BY <2>1, <3>5 DEF WriteReceipt, TypeOK
    <3>6. CASE WriteCreate(s) \/ WriteAdvance(s) \/ WriteTransition(s) \/ RollBack(s)
      BY <2>3, <3>6 DEF WriteCreate, WriteAdvance, WriteTransition, RollBack, vars
    <3> QED BY <2>5, <3>1, <3>2, <3>3, <3>4, <3>5, <3>6 DEF WriteStep
  <2>6. ASSUME NEW g \in Grants, Revoke(g) PROVE Stays
    <3>1. grants[g].state \notin Ended /\ UNCHANGED receipts
            /\ \A x \in Grants : x # g => grants'[x] = grants[x]
      BY <2>1, <2>6 DEF Revoke, RevokeGrant, TypeOK
    <3> QED BY <2>2, <3>1
  <2> QED BY <2>4, <2>5, <2>6 DEF PgNext
<1> QED BY <1>1, PgInvariance, PTL DEF PgSpec, EvidenceStays
=============================================================================
