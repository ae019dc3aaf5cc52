------------------------ MODULE TransactionStore_proofs ------------------------
(***************************************************************************)
(* Proofs that TransactionStore keeps its invariants for every set of      *)
(* Drafts, digests, cards, Grants, Attempts and handles and every bound.   *)
(***************************************************************************)
EXTENDS TransactionStore, TLAPS

USE NoneAssumption, BoundAssumption

\* A row with a state other than "NONE" is a row of its table.
LEMMA RowsAreTyped ==
  ASSUME TypeOK
  PROVE  /\ \A d \in Drafts : Exists(drafts[d]) => drafts[d] \in DraftRow
         /\ \A g \in Grants : Exists(grants[g]) => grants[g] \in GrantRow
         /\ \A a \in Attempts : Exists(attempts[a]) => attempts[a] \in AttemptRow
         /\ \A a \in Attempts : Exists(receipts[a]) => receipts[a] \in ReceiptRow
  BY DEF TypeOK, Exists, Absent

\* No table has a row in state "NONE".
LEMMA RowsExist ==
  /\ \A r \in DraftRow \cup GrantRow \cup AttemptRow \cup ReceiptRow : r.state # "NONE"
  /\ Absent.state = "NONE"
  BY DEF DraftRow, GrantRow, AttemptRow, ReceiptRow, Absent, DraftStates, ReusableStates,
         InFlightStates, ClosingStates, OutcomeStates, AttemptStates, SealedAttemptStates,
         ReceiptStates

\* Every operation writes rows of its own table (type correctness of the repository).
LEMMA TypeStep == TypeOK /\ [Next]_vars => TypeOK'
<1> SUFFICES ASSUME TypeOK, [Next]_vars PROVE TypeOK'
  OBVIOUS
<1> USE DEF TypeOK
<1>1. ASSUME NEW d \in Drafts, NEW row \in DraftRow, CreateDraft(d, row) PROVE TypeOK'
  BY <1>1 DEF CreateDraft, MayCreate
<1>2. ASSUME NEW d \in Drafts, NEW s \in ObservedStates, NEW rev \in Revisions,
             NEW c \in Digests, NEW a \in Attempts, NEW p \in BOOLEAN,
             AdvanceDraft(d, s, rev, c, a, p)
      PROVE TypeOK'
  <2>1. drafts[d] \in DraftRow
    BY <1>2, RowsAreTyped DEF AdvanceDraft, MayAdvance
  <2>2. AdvancedRow(d, s, rev, c, p) \in DraftRow
    <3>1. s \in DraftStates
      BY DEF ObservedStates, DraftStates, OutcomeStates, InFlightStates
    <3>2. 0 \in 0 .. MaxVersion /\ 0 \in 0 .. MaxTurn
      OBVIOUS
    <3> QED BY <2>1, <3>1, <3>2 DEF AdvancedRow, DraftRow
  <2>3. [AdvancedRow(d, s, rev, c, p) EXCEPT !.attempt = a] \in DraftRow
    BY <2>2 DEF DraftRow
  <2> QED BY <1>2, <2>3 DEF AdvanceDraft, MayAdvance
<1>3. ASSUME NEW g \in Grants, NEW d \in Drafts, NEW rev \in Revisions, NEW c \in Digests,
             NEW card \in Cards, IssueGrant(g, d, rev, c, card)
      PROVE TypeOK'
  BY <1>3 DEF IssueGrant, MayIssue, IsNewGrant, GrantRow
<1>4. ASSUME NEW g \in Grants, NEW a \in Attempts, NEW d \in Drafts, NEW rev \in Revisions,
             NEW c \in Digests, ReserveGrantAndStartAttempt(g, a, d, rev, c)
      PROVE TypeOK'
  <2>1. grants[g] \in GrantRow /\ drafts[d] \in DraftRow
    BY <1>4, RowsAreTyped DEF ReserveGrantAndStartAttempt, MayReserve, Committing,
                            ReservationAllowed,
       GrantMatchesRequest, SameCommand
  <2>2. [drafts[d] EXCEPT !.state = "COMMITTING", !.grant = g, !.attempt = a] \in DraftRow
    BY <2>1 DEF DraftRow, DraftStates, InFlightStates
  <2>3. drafts' \in [Drafts -> DraftRow \cup {Absent}]
    BY <1>4, <2>2 DEF ReserveGrantAndStartAttempt, MayReserve, Committing
  <2>4. [grants[g] EXCEPT !.state = "RESERVED", !.attempt = a] \in GrantRow
    BY <2>1 DEF GrantRow
  <2>5. grants' = [grants EXCEPT ![g] = [grants[g] EXCEPT !.state = "RESERVED", !.attempt = a]]
    BY <1>4, <2>1 DEF ReserveGrantAndStartAttempt, MayReserve, Committing, GrantRow
  <2>6. attempts' \in [Attempts -> AttemptRow \cup {Absent}]
    BY <1>4 DEF ReserveGrantAndStartAttempt, MayReserve, Committing, AttemptRow, AttemptStates
  <2> QED BY <1>4, <2>3, <2>4, <2>5, <2>6 DEF ReserveGrantAndStartAttempt, MayReserve,
                            Committing
<1>5. ASSUME NEW g \in Grants, NEW d \in Drafts, NEW rev \in Revisions, NEW c \in Digests,
             RejectReservation(g, d, rev, c) \/ ExpireGrant(g, d, rev, c) \/ RevokeGrant(g)
      PROVE TypeOK'
  <2>1. grants[g] \in GrantRow
    BY <1>5, RowsAreTyped DEF RejectReservation, ExpireGrant, RevokeGrant
  <2> QED BY <1>5, <2>1 DEF RejectReservation, ExpireGrant, RevokeGrant, GrantRow
<1>6. ASSUME NEW g \in Grants, NEW a \in Attempts, NEW h \in Handles, ConsumeGrant(g, a, h)
      PROVE TypeOK'
  <2>1. grants[g] \in GrantRow
    BY <1>6, RowsAreTyped DEF ConsumeGrant, MayConsume
  <2>2. [grants[g] EXCEPT !.state = "CONSUMED", !.handle = h] \in GrantRow
    BY <2>1 DEF GrantRow
  <2>3. grants' = [grants EXCEPT ![g] = [grants[g] EXCEPT !.state = "CONSUMED", !.handle = h]]
    BY <1>6, <2>1 DEF ConsumeGrant, MayConsume, GrantRow
  <2> QED BY <1>6, <2>2, <2>3 DEF ConsumeGrant, MayConsume
<1>7. ASSUME NEW a \in Attempts, NEW d \in Drafts, NEW s \in ReceiptStates, NEW h \in Handles,
             RecordReceipt(a, d, s, h)
      PROVE TypeOK'
  BY <1>7 DEF RecordReceipt, MayRecord, ReceiptRow
<1>8. ASSUME NEW a \in Attempts, NEW s \in AttemptStates, NEW h \in Handles \cup {None},
             TransitionAttempt(a, s, h)
      PROVE TypeOK'
  <2>1. attempts[a] \in AttemptRow
    BY <1>8, RowsAreTyped DEF TransitionAttempt, MayTransition
  <2>2. PICK x \in Handles \cup {None} :
          attempts' = [attempts EXCEPT ![a] = [attempts[a] EXCEPT !.state = s, !.handle = x]]
    BY <1>8, <2>1 DEF TransitionAttempt, MayTransition, AttemptRow
  <2>3. [attempts[a] EXCEPT !.state = s, !.handle = x] \in AttemptRow
    BY <2>1 DEF AttemptRow
  <2>4. attempts' \in [Attempts -> AttemptRow \cup {Absent}]
    BY <2>2, <2>3
  <2>5. UNCHANGED <<drafts, grants, receipts>>
    BY <1>8 DEF TransitionAttempt, MayTransition
  <2> QED BY <2>4, <2>5
<1>9. CASE UNCHANGED vars
  BY <1>9 DEF vars
<1>10. ASSUME NEW g \in Grants, RevokeGrant(g) PROVE TypeOK'
  <2>1. grants[g] \in GrantRow
    BY <1>10, RowsAreTyped DEF RevokeGrant
  <2> QED BY <1>10, <2>1 DEF RevokeGrant, GrantRow
<1> QED
  BY <1>1, <1>2, <1>3, <1>4, <1>5, <1>6, <1>7, <1>8, <1>9, <1>10
     DEF Next, DraftStep, GrantStep, CloseStep

-----------------------------------------------------------------------------
(* Each operation preserves the inductive invariant. *)

LEMMA CreateDraftStep ==
  ASSUME IndInv, NEW d \in Drafts, NEW row \in DraftRow, CreateDraft(d, row)
  PROVE  IndInv'
<1>0. TypeOK'
  BY TypeStep DEF IndInv, Next, DraftStep
<1>1. drafts'[d] = row /\ \A x \in Drafts \ {d} : drafts'[x] = drafts[x]
  BY DEF CreateDraft, MayCreate, IndInv, TypeOK
<1>2. UNCHANGED <<grants, attempts, receipts>>
  BY DEF CreateDraft, MayCreate
<1>3. UniqueKeys' /\ AttemptSpendsItsGrant' /\ ReceiptsCloseAttempts' /\ ConsumedGrantClosesChain'
  BY <1>2 DEF IndInv, UniqueKeys, AttemptSpendsItsGrant, ReceiptsCloseAttempts,
              ConsumedGrantClosesChain, Succeeded
<1>4. UnrefutedAttemptHoldsDraft'
  <2> SUFFICES ASSUME NEW a \in Attempts, Unrefuted(a)', attempts[a].draft = d
               PROVE  /\ row.state \in InFlightStates \cup {"COMMITTED", "FAILED_FINAL"}
                      /\ row.revision = attempts[a].revision
                      /\ row.digest = attempts[a].digest
    BY <1>1, <1>2, RowsAreTyped
       DEF UnrefutedAttemptHoldsDraft, IndInv, Unrefuted, Succeeded, AttemptRow
  <2>1. /\ drafts[d].state \in InFlightStates \cup {"COMMITTED", "FAILED_FINAL"}
        /\ drafts[d].revision = attempts[a].revision
        /\ drafts[d].digest = attempts[a].digest
    BY <1>2 DEF UnrefutedAttemptHoldsDraft, IndInv, Unrefuted, Succeeded
  <2>2. DraftUpdateAllowed(drafts[d], row)
    BY <2>1 DEF CreateDraft, MayCreate, Exists, InFlightStates
  <2> QED
    BY <2>1, <2>2, RowsAreTyped
       DEF DraftUpdateAllowed, SealedDraftStates, InFlightStates, SameRevisionNext,
           CreateDraft, MayCreate, CreateStates, ReusableStates, OutcomeStates, DraftRow, Exists,
           IndInv, Revisions
<1>5. CommittedHasSuccessReceipt'
  BY <1>1, <1>2 DEF CommittedHasSuccessReceipt, IndInv, CreateDraft, MayCreate, CreateStates,
                    ReusableStates, Succeeded
<1> QED BY <1>0, <1>3, <1>4, <1>5 DEF IndInv

LEMMA AdvanceDraftStep ==
  ASSUME IndInv, NEW d \in Drafts, NEW s \in ObservedStates, NEW rev \in Revisions,
         NEW c \in Digests, NEW a \in Attempts, NEW p \in BOOLEAN,
         AdvanceDraft(d, s, rev, c, a, p)
  PROVE  IndInv'
<1> DEFINE cur == drafts[d]
           row == AdvancedRow(d, s, rev, c, p)
<1>0. TypeOK'
  BY TypeStep DEF IndInv, Next, DraftStep
<1>1. cur \in DraftRow
  BY RowsAreTyped DEF AdvanceDraft, MayAdvance, IndInv
<1>2. row.state = s /\ row.revision = rev /\ row.digest = c
  BY <1>1 DEF AdvancedRow, DraftRow
<1>3. /\ drafts'[d] = [row EXCEPT !.attempt = a]
      /\ \A x \in Drafts \ {d} : drafts'[x] = drafts[x]
  BY DEF AdvanceDraft, MayAdvance, IndInv, TypeOK
<1>4. /\ drafts'[d].state = s
      /\ drafts'[d].revision = rev
      /\ drafts'[d].digest = c
  BY <1>1, <1>2, <1>3 DEF AdvancedRow, DraftRow
<1>5. /\ UNCHANGED <<grants, attempts, receipts>>
      /\ DraftUpdateAllowed(cur, row)
      /\ TerminalObserved(d, cur, s, AttemptAt(cur.attempt), ReceiptAt(cur.attempt))
  BY DEF AdvanceDraft, MayAdvance
<1> HIDE DEF cur, row
<1>6. UniqueKeys' /\ AttemptSpendsItsGrant' /\ ReceiptsCloseAttempts' /\ ConsumedGrantClosesChain'
  BY <1>5 DEF IndInv, UniqueKeys, AttemptSpendsItsGrant, ReceiptsCloseAttempts,
              ConsumedGrantClosesChain, Succeeded
\* An outcome is accepted on the Receipt of an Attempt of the row's own command.
<1>7. ASSUME EffectTerminal(cur.state, s)
      PROVE  \E b \in Attempts :
               /\ Exists(attempts[b]) /\ Exists(receipts[b])
               /\ attempts[b].draft = d
               /\ attempts[b].revision = cur.revision
               /\ attempts[b].digest = cur.digest
               /\ receipts[b].state = IF s = "COMMITTED" THEN "SUCCESS" ELSE "FAILED"
  <2>1. cur.attempt \in Attempts
    BY <1>1, <1>5, <1>7, RowsExist DEF TerminalObserved, AttemptAt, DraftRow
  <2> QED BY <1>5, <1>7, <2>1 DEF TerminalObserved, AttemptAt, ReceiptAt, SameCommand, Exists
<1>8. UnrefutedAttemptHoldsDraft'
  <2>0. \A b \in Attempts : Unrefuted(b)' => Unrefuted(b) /\ attempts'[b] = attempts[b]
                                          /\ attempts[b].draft \in Drafts
    BY <1>5, RowsAreTyped DEF Unrefuted, Succeeded, IndInv, AttemptRow
  <2> SUFFICES ASSUME NEW b \in Attempts, Unrefuted(b), attempts[b].draft = d
               PROVE  /\ s \in InFlightStates \cup {"COMMITTED", "FAILED_FINAL"}
                      /\ rev = attempts[b].revision
                      /\ c = attempts[b].digest
    <3>1. \A x \in Drafts \ {d} : drafts'[x] = drafts[x]
      BY <1>3
    <3>2. ASSUME NEW b \in Attempts, Unrefuted(b)', attempts[b].draft # d
          PROVE  /\ drafts'[attempts[b].draft] = drafts[attempts[b].draft]
                 /\ Unrefuted(b) /\ attempts'[b] = attempts[b]
      BY <2>0, <3>1, <3>2
    <3> QED BY <1>4, <2>0, <3>2 DEF UnrefutedAttemptHoldsDraft, IndInv
  <2>1. /\ cur.state \in InFlightStates \cup {"COMMITTED", "FAILED_FINAL"}
        /\ cur.revision = attempts[b].revision
        /\ cur.digest = attempts[b].digest
    BY DEF UnrefutedAttemptHoldsDraft, IndInv, cur
  <2>2. cur.state \in InFlightStates /\ rev = cur.revision /\ c = cur.digest
    BY <1>1, <1>2, <1>5, <2>1
       DEF DraftUpdateAllowed, SealedDraftStates, DraftRow, Revisions
  <2>3. s # "FAILED_RETRYABLE"
    <3> SUFFICES ASSUME s = "FAILED_RETRYABLE" PROVE FALSE
      OBVIOUS
    <3>1. PICK x \in Attempts :
               /\ Exists(attempts[x]) /\ Exists(receipts[x])
               /\ attempts[x].draft = d /\ attempts[x].digest = cur.digest
               /\ receipts[x].state = "FAILED"
      BY <1>7, <2>2 DEF EffectTerminal
    <3>2. x = b
      BY <2>1, <3>1 DEF IndInv, UniqueKeys, Unrefuted
    <3> QED BY <3>1, <3>2 DEF Unrefuted, Succeeded
  <2> QED BY <2>1, <2>2, <2>3 DEF ObservedStates, OutcomeStates, InFlightStates
<1>9. CommittedHasSuccessReceipt'
  <2>1. ASSUME s = "COMMITTED"
        PROVE  \E b \in Attempts :
                 /\ Succeeded(b)
                 /\ attempts[b].draft = d /\ attempts[b].revision = rev /\ attempts[b].digest = c
    <3>1. rev = cur.revision /\ c = cur.digest
      BY <1>1, <1>2, <1>5, <2>1
         DEF DraftUpdateAllowed, DraftRow, Revisions, ReusableStates, ClosingStates
    <3> QED BY <1>7, <2>1, <3>1 DEF EffectTerminal, Succeeded
  <2> SUFFICES ASSUME NEW x \in Drafts, drafts'[x].state = "COMMITTED"
               PROVE  \E b \in Attempts :
                        /\ Succeeded(b)
                        /\ attempts[b].draft = x
                        /\ attempts[b].revision = drafts'[x].revision
                        /\ attempts[b].digest = drafts'[x].digest
    BY <1>5 DEF CommittedHasSuccessReceipt, Succeeded, SameCommand
  <2>2. CASE x = d
    BY <1>4, <2>1, <2>2
  <2>3. CASE x # d
    BY <1>3, <2>3 DEF CommittedHasSuccessReceipt, IndInv, SameCommand
  <2> QED BY <2>2, <2>3
<1> QED BY <1>0, <1>6, <1>8, <1>9 DEF IndInv

LEMMA IssueGrantStep ==
  ASSUME IndInv, NEW g \in Grants, NEW d \in Drafts, NEW rev \in Revisions,
         NEW c \in Digests, NEW card \in Cards, IssueGrant(g, d, rev, c, card)
  PROVE  IndInv'
<1>0. TypeOK'
  BY TypeStep DEF IndInv, Next, GrantStep
<1>1. /\ grants'[g].state = "ISSUED" /\ ~Exists(grants[g])
      /\ \A x \in Grants \ {g} : grants'[x] = grants[x]
      /\ UNCHANGED <<drafts, attempts, receipts>>
  BY DEF IssueGrant, MayIssue, IsNewGrant, IndInv, TypeOK
<1>2. /\ UniqueKeys' /\ ReceiptsCloseAttempts' /\ UnrefutedAttemptHoldsDraft'
      /\ CommittedHasSuccessReceipt'
  BY <1>1 DEF IndInv, UniqueKeys, ReceiptsCloseAttempts, UnrefutedAttemptHoldsDraft, Unrefuted,
              CommittedHasSuccessReceipt, Succeeded
<1>3. AttemptSpendsItsGrant'
  BY <1>1, RowsAreTyped DEF IndInv, AttemptSpendsItsGrant, AttemptRow
<1>4. ConsumedGrantClosesChain'
  BY <1>1 DEF IndInv, ConsumedGrantClosesChain, Succeeded
<1> QED BY <1>0, <1>2, <1>3, <1>4 DEF IndInv

LEMMA ReserveStep ==
  ASSUME IndInv, NEW g \in Grants, NEW a \in Attempts, NEW d \in Drafts,
         NEW rev \in Revisions, NEW c \in Digests,
         ReserveGrantAndStartAttempt(g, a, d, rev, c)
  PROVE  IndInv'
<1>0. TypeOK'
  BY TypeStep DEF IndInv, Next, GrantStep
<1>1. /\ grants[g] \in GrantRow /\ drafts[d] \in DraftRow
      /\ grants[g].draft = d /\ grants[g].revision = rev /\ grants[g].digest = c
      /\ grants[g].state = "ISSUED"
      /\ drafts[d].state = "AWAITING_AUTHORIZATION"
      /\ drafts[d].revision = rev /\ drafts[d].digest = c
  BY RowsAreTyped DEF ReserveGrantAndStartAttempt, MayReserve, Committing,
                      ReservationAllowed, GrantMatchesRequest,
                      SameCommand, GrantIssueAllowed, IndInv
<1>2. /\ ~Exists(attempts[a]) /\ ~Exists(receipts[a]) /\ ~KeyTaken(d, c)
      /\ receipts' = receipts
  BY DEF ReserveGrantAndStartAttempt, MayReserve, Committing, IndInv, ReceiptsCloseAttempts
<1>3. /\ drafts'[d].state = "COMMITTING"
      /\ drafts'[d].revision = rev /\ drafts'[d].digest = c
      /\ \A x \in Drafts \ {d} : drafts'[x] = drafts[x]
  BY <1>1 DEF ReserveGrantAndStartAttempt, MayReserve, Committing, IndInv, TypeOK, DraftRow
<1>4. /\ grants'[g].state = "RESERVED" /\ grants'[g].attempt = a
      /\ grants'[g].draft = d /\ grants'[g].revision = rev /\ grants'[g].digest = c
      /\ \A x \in Grants \ {g} : grants'[x] = grants[x]
  BY <1>1 DEF ReserveGrantAndStartAttempt, MayReserve, Committing, IndInv, TypeOK, GrantRow
<1>5. /\ attempts'[a] = [state |-> "STARTED", draft |-> d, revision |-> rev, digest |-> c,
                         grant |-> g, handle |-> None]
      /\ \A x \in Attempts \ {a} : attempts'[x] = attempts[x]
  BY DEF ReserveGrantAndStartAttempt, MayReserve, Committing, IndInv, TypeOK
<1>6. UniqueKeys'
  <2> SUFFICES ASSUME NEW x \in Attempts \ {a}, Exists(attempts[x]),
                      attempts[x].draft = d, attempts[x].digest = c
               PROVE  FALSE
    BY <1>5 DEF UniqueKeys, IndInv, Exists
  <2> QED BY <1>2 DEF KeyTaken, AttemptOf
\* The Grant was ISSUED, so no earlier Attempt came from it.
<1>7. AttemptSpendsItsGrant'
  <2> SUFFICES ASSUME NEW x \in Attempts, Exists(attempts'[x])
               PROVE  /\ Exists(grants'[attempts'[x].grant])
                      /\ grants'[attempts'[x].grant].state \in {"RESERVED", "CONSUMED", "REVOKED"}
                      /\ grants'[attempts'[x].grant].attempt = x
                      /\ SameCommand(grants'[attempts'[x].grant], attempts'[x])
    BY DEF AttemptSpendsItsGrant, Exists
  <2>1. CASE x = a
    BY <1>4, <1>5, <2>1 DEF SameCommand, Exists
  <2>2. CASE x # a
    <3>1. attempts[x].grant \in Grants \ {g}
      BY <1>1, <1>5, <2>2, RowsAreTyped DEF IndInv, AttemptSpendsItsGrant, AttemptRow
    <3> QED BY <1>4, <1>5, <2>2, <3>1 DEF IndInv, AttemptSpendsItsGrant
  <2> QED BY <2>1, <2>2
<1>8. ReceiptsCloseAttempts'
  BY <1>2, <1>5 DEF IndInv, ReceiptsCloseAttempts, Exists, SealedAttemptStates
\* The Draft was AWAITING_AUTHORIZATION, so every earlier Attempt of it is refuted.
<1>9. UnrefutedAttemptHoldsDraft'
  <2> SUFFICES ASSUME NEW x \in Attempts, Unrefuted(x)'
               PROVE  /\ drafts'[attempts'[x].draft].state
                           \in InFlightStates \cup {"COMMITTED", "FAILED_FINAL"}
                      /\ drafts'[attempts'[x].draft].revision = attempts'[x].revision
                      /\ drafts'[attempts'[x].draft].digest = attempts'[x].digest
    BY DEF UnrefutedAttemptHoldsDraft
  <2>1. CASE x = a
    BY <1>3, <1>5, <2>1 DEF InFlightStates
  <2>2. CASE x # a
    <3>1. Unrefuted(x) /\ attempts[x].draft \in Drafts
      BY <1>2, <1>5, <2>2, RowsAreTyped DEF Unrefuted, Succeeded, IndInv, AttemptRow
    <3>2. attempts[x].draft # d
      BY <1>1, <3>1 DEF IndInv, UnrefutedAttemptHoldsDraft, InFlightStates
    <3> QED BY <1>3, <1>5, <2>2, <3>1, <3>2 DEF IndInv, UnrefutedAttemptHoldsDraft
  <2> QED BY <2>1, <2>2
<1>10. CommittedHasSuccessReceipt'
  <2> SUFFICES ASSUME NEW x \in Drafts, drafts'[x].state = "COMMITTED"
               PROVE  \E b \in Attempts :
                        /\ Succeeded(b)' /\ attempts'[b].draft = x
                        /\ attempts'[b].revision = drafts'[x].revision
                        /\ attempts'[b].digest = drafts'[x].digest
    BY DEF CommittedHasSuccessReceipt, SameCommand
  <2>1. x # d /\ drafts'[x] = drafts[x]
    BY <1>3
  <2>2. PICK b \in Attempts : /\ Succeeded(b) /\ attempts[b].draft = x
                              /\ attempts[b].revision = drafts[x].revision
                              /\ attempts[b].digest = drafts[x].digest
    BY <2>1 DEF IndInv, CommittedHasSuccessReceipt, SameCommand
  <2>3. b # a
    BY <1>2, <2>2 DEF Succeeded
  <2> QED BY <1>2, <1>5, <2>1, <2>2, <2>3 DEF Succeeded
<1>11. ConsumedGrantClosesChain'
  <2> SUFFICES ASSUME NEW x \in Grants, grants'[x].state = "CONSUMED"
               PROVE  /\ grants'[x].attempt \in Attempts
                      /\ attempts'[grants'[x].attempt].state = "ACKED"
                      /\ attempts'[grants'[x].attempt].grant = x
                      /\ Exists(receipts'[grants'[x].attempt])
                      /\ receipts'[grants'[x].attempt].state = "SUCCESS"
                      /\ grants'[x].handle = receipts'[grants'[x].attempt].handle
                      /\ attempts'[grants'[x].attempt].handle
                            = receipts'[grants'[x].attempt].handle
    BY DEF ConsumedGrantClosesChain, Succeeded, Exists
  <2>1. grants'[x] = grants[x]
    BY <1>4
  <2>2. /\ grants[x].attempt \in Attempts \ {a}
        /\ attempts[grants[x].attempt].state = "ACKED"
    BY <1>2, <2>1 DEF IndInv, ConsumedGrantClosesChain, Exists, Succeeded
  <2>3. attempts'[grants[x].attempt] = attempts[grants[x].attempt]
    BY <1>5, <2>2
  <2> QED BY <1>2, <2>1, <2>2, <2>3 DEF IndInv, ConsumedGrantClosesChain, Succeeded
<1> QED BY <1>0, <1>6, <1>7, <1>8, <1>9, <1>10, <1>11 DEF IndInv

LEMMA CloseGrantStep ==
  ASSUME IndInv, NEW g \in Grants, Exists(grants[g]), grants[g].state \in {"ISSUED", "RESERVED"},
         NEW s \in {"REVOKED", "EXPIRED"}, s = "EXPIRED" => grants[g].state = "ISSUED",
         grants' = [grants EXCEPT ![g].state = s], UNCHANGED <<drafts, attempts, receipts>>,
         TypeOK'
  PROVE  IndInv'
<1>1. grants[g] \in GrantRow
  BY RowsAreTyped DEF IndInv
<1>2. /\ grants'[g].state = s /\ grants'[g].attempt = grants[g].attempt
      /\ grants'[g].draft = grants[g].draft /\ grants'[g].revision = grants[g].revision
      /\ grants'[g].digest = grants[g].digest
      /\ \A x \in Grants \ {g} : grants'[x] = grants[x]
  BY <1>1 DEF IndInv, TypeOK, GrantRow
<1>3. /\ UniqueKeys' /\ ReceiptsCloseAttempts' /\ UnrefutedAttemptHoldsDraft'
      /\ CommittedHasSuccessReceipt'
  BY DEF IndInv, UniqueKeys, ReceiptsCloseAttempts, UnrefutedAttemptHoldsDraft, Unrefuted,
         CommittedHasSuccessReceipt, Succeeded
\* An EXPIRED Grant was only ISSUED, and no Attempt comes from such a Grant.
<1>4. AttemptSpendsItsGrant'
  <2> SUFFICES ASSUME NEW a \in Attempts, Exists(attempts[a])
               PROVE  /\ Exists(grants'[attempts[a].grant])
                      /\ grants'[attempts[a].grant].state \in {"RESERVED", "CONSUMED", "REVOKED"}
                      /\ grants'[attempts[a].grant].attempt = a
                      /\ SameCommand(grants'[attempts[a].grant], attempts[a])
    BY DEF AttemptSpendsItsGrant, Exists
  <2>1. attempts[a].grant \in Grants
    BY RowsAreTyped DEF IndInv, AttemptRow
  <2>2. CASE attempts[a].grant = g
    BY <1>2, <2>2 DEF IndInv, AttemptSpendsItsGrant, SameCommand, Exists
  <2>3. CASE attempts[a].grant # g
    BY <1>2, <2>1, <2>3 DEF IndInv, AttemptSpendsItsGrant
  <2> QED BY <2>2, <2>3
<1>5. ConsumedGrantClosesChain'
  BY <1>2 DEF IndInv, ConsumedGrantClosesChain, Succeeded
<1> QED BY <1>3, <1>4, <1>5 DEF IndInv

LEMMA ConsumeGrantStep ==
  ASSUME IndInv, NEW g \in Grants, NEW a \in Attempts, NEW h \in Handles, ConsumeGrant(g, a, h)
  PROVE  IndInv'
<1>0. TypeOK'
  BY TypeStep DEF IndInv, Next, CloseStep
<1>1. grants[g] \in GrantRow
  BY RowsAreTyped DEF IndInv, ConsumeGrant, MayConsume
<1>2. /\ grants'[g].state = "CONSUMED" /\ grants'[g].attempt = a /\ grants'[g].handle = h
      /\ grants'[g].draft = grants[g].draft /\ grants'[g].revision = grants[g].revision
      /\ grants'[g].digest = grants[g].digest
      /\ \A x \in Grants \ {g} : grants'[x] = grants[x]
      /\ UNCHANGED <<drafts, attempts, receipts>>
  BY <1>1 DEF IndInv, TypeOK, GrantRow, ConsumeGrant, MayConsume, GrantConsumptionAllowed
<1>3. /\ UniqueKeys' /\ ReceiptsCloseAttempts' /\ UnrefutedAttemptHoldsDraft'
      /\ CommittedHasSuccessReceipt'
  BY <1>2 DEF IndInv, UniqueKeys, ReceiptsCloseAttempts, UnrefutedAttemptHoldsDraft, Unrefuted,
         CommittedHasSuccessReceipt, Succeeded
<1>4. AttemptSpendsItsGrant'
  <2> SUFFICES ASSUME NEW x \in Attempts, Exists(attempts[x])
               PROVE  /\ Exists(grants'[attempts[x].grant])
                      /\ grants'[attempts[x].grant].state \in {"RESERVED", "CONSUMED", "REVOKED"}
                      /\ grants'[attempts[x].grant].attempt = x
                      /\ SameCommand(grants'[attempts[x].grant], attempts[x])
    BY <1>2 DEF AttemptSpendsItsGrant, Exists
  <2>1. attempts[x].grant \in Grants
    BY RowsAreTyped DEF IndInv, AttemptRow
  <2>2. CASE attempts[x].grant = g
    BY <1>2, <2>2 DEF IndInv, AttemptSpendsItsGrant, SameCommand, Exists, ConsumeGrant,
                      MayConsume,
                      GrantConsumptionAllowed
  <2>3. CASE attempts[x].grant # g
    BY <1>2, <2>1, <2>3 DEF IndInv, AttemptSpendsItsGrant
  <2> QED BY <2>2, <2>3
<1>5. ConsumedGrantClosesChain'
  <2>1. /\ attempts[a].state = "ACKED" /\ attempts[a].grant = g
        /\ attempts[a].handle = h /\ receipts[a].handle = h
        /\ Exists(receipts[a]) /\ receipts[a].state = "SUCCESS"
    BY DEF ConsumeGrant, MayConsume, GrantConsumptionAllowed, Exists
  <2>2. \A x \in Grants \ {g} : grants'[x] = grants[x]
    BY <1>2
  <2> QED BY <1>2, <2>1, <2>2 DEF IndInv, ConsumedGrantClosesChain, Succeeded
<1> QED BY <1>0, <1>3, <1>4, <1>5 DEF IndInv

LEMMA RecordReceiptStep ==
  ASSUME IndInv, NEW a \in Attempts, NEW d \in Drafts, NEW s \in ReceiptStates, NEW h \in Handles,
         RecordReceipt(a, d, s, h)
  PROVE  IndInv'
<1>0. TypeOK'
  BY TypeStep DEF IndInv, Next, CloseStep
<1>1. /\ receipts'[a].state = s /\ ~Exists(receipts[a]) /\ Exists(attempts[a])
      /\ \A x \in Attempts \ {a} : receipts'[x] = receipts[x]
      /\ UNCHANGED <<drafts, grants, attempts>>
  BY DEF IndInv, TypeOK, RecordReceipt, MayRecord
<1>2. UniqueKeys' /\ AttemptSpendsItsGrant'
  BY <1>1 DEF IndInv, UniqueKeys, AttemptSpendsItsGrant
<1>3. ReceiptsCloseAttempts'
  BY <1>1 DEF IndInv, ReceiptsCloseAttempts
<1>4. UnrefutedAttemptHoldsDraft'
  BY <1>1 DEF IndInv, UnrefutedAttemptHoldsDraft, Unrefuted, Succeeded
<1>5. \A x \in Attempts : Succeeded(x) => x # a /\ Succeeded(x)'
  BY <1>1 DEF Succeeded
<1>6. CommittedHasSuccessReceipt'
  BY <1>1, <1>5 DEF IndInv, CommittedHasSuccessReceipt
<1>7. ConsumedGrantClosesChain'
  <2> SUFFICES ASSUME NEW x \in Grants, grants[x].state = "CONSUMED"
               PROVE  receipts'[grants[x].attempt] = receipts[grants[x].attempt]
    BY <1>1, <1>5 DEF IndInv, ConsumedGrantClosesChain, Succeeded
  <2> QED BY <1>1, <1>5 DEF IndInv, ConsumedGrantClosesChain
<1> QED BY <1>0, <1>2, <1>3, <1>4, <1>6, <1>7 DEF IndInv

LEMMA TransitionAttemptStep ==
  ASSUME IndInv, NEW a \in Attempts, NEW s \in AttemptStates \ {"STARTED"},
         NEW h \in Handles \cup {None}, TransitionAttempt(a, s, h)
  PROVE  IndInv'
<1>0. TypeOK'
  BY TypeStep DEF IndInv, Next, CloseStep
<1>1. attempts[a] \in AttemptRow
  BY RowsAreTyped DEF IndInv, TransitionAttempt, MayTransition
<1>2. /\ attempts'[a].state = s /\ attempts'[a].draft = attempts[a].draft
      /\ attempts'[a].revision = attempts[a].revision /\ attempts'[a].digest = attempts[a].digest
      /\ attempts'[a].grant = attempts[a].grant
      /\ Exists(attempts[a]) /\ Exists(attempts'[a])
      /\ \A x \in Attempts \ {a} : attempts'[x] = attempts[x]
      /\ UNCHANGED <<drafts, grants, receipts>>
  <2>1. s # "NONE"
    BY DEF AttemptStates, SealedAttemptStates
  <2> QED BY <1>1, <2>1 DEF IndInv, TypeOK, TransitionAttempt, MayTransition, AttemptRow,
                            Exists
<1>3. \A x \in Attempts : /\ Exists(attempts'[x]) <=> Exists(attempts[x])
                          /\ Exists(attempts[x]) =>
                               /\ attempts'[x].draft = attempts[x].draft
                               /\ attempts'[x].revision = attempts[x].revision
                               /\ attempts'[x].digest = attempts[x].digest
                               /\ attempts'[x].grant = attempts[x].grant
  BY <1>2
<1>4. UniqueKeys'
  BY <1>3 DEF IndInv, UniqueKeys, Exists
<1>5. AttemptSpendsItsGrant'
  BY <1>2, <1>3 DEF IndInv, AttemptSpendsItsGrant, SameCommand, Exists
<1>6. ReceiptsCloseAttempts'
  <2>1. s \in SealedAttemptStates => Exists(receipts[a]) /\ OutcomeAgrees(s, receipts[a].state)
    BY DEF TransitionAttempt, MayTransition, AttemptUpdateAllowed, Exists
  <2>2. ASSUME NEW x \in Attempts PROVE Exists(receipts[x])' => Exists(attempts[x])'
    BY <1>2, <1>3, <2>2 DEF IndInv, ReceiptsCloseAttempts, Exists
  <2>3. ASSUME NEW x \in Attempts, Exists(attempts[x])', attempts'[x].state \in SealedAttemptStates
        PROVE  Exists(receipts[x])' /\ OutcomeAgrees(attempts[x].state, receipts[x].state)'
    <3>1. CASE x = a
      BY <1>2, <2>1, <3>1, <2>3 DEF Exists, OutcomeAgrees
    <3>2. CASE x # a
      BY <1>2, <1>3, <3>2, <2>3 DEF IndInv, ReceiptsCloseAttempts, Exists, OutcomeAgrees
    <3> QED BY <3>1, <3>2
  <2> QED BY <2>2, <2>3 DEF ReceiptsCloseAttempts
<1>7. UnrefutedAttemptHoldsDraft'
  BY <1>2, <1>3 DEF IndInv, UnrefutedAttemptHoldsDraft, Unrefuted, Succeeded, Exists
<1>8. CommittedHasSuccessReceipt'
  <2>1. \A x \in Attempts : Succeeded(x) => Exists(attempts[x]) /\ Succeeded(x)'
    BY <1>2 DEF IndInv, ReceiptsCloseAttempts, Succeeded
  <2> QED BY <1>2, <1>3, <2>1 DEF IndInv, CommittedHasSuccessReceipt, SameCommand
<1>9. ConsumedGrantClosesChain'
  <2> SUFFICES ASSUME NEW x \in Grants, grants[x].state = "CONSUMED"
               PROVE  attempts'[grants[x].attempt] = attempts[grants[x].attempt]
    BY <1>2 DEF IndInv, ConsumedGrantClosesChain, Succeeded
  <2>1. grants[x].attempt # a
    BY DEF IndInv, ConsumedGrantClosesChain, TransitionAttempt, MayTransition,
           AttemptUpdateAllowed,
           SealedAttemptStates
  <2> QED BY <1>2, <2>1 DEF IndInv, ConsumedGrantClosesChain
<1> QED BY <1>0, <1>4, <1>5, <1>6, <1>7, <1>8, <1>9 DEF IndInv

-----------------------------------------------------------------------------
LEMMA InvStep == IndInv /\ [Next]_vars => IndInv'
<1> SUFFICES ASSUME IndInv, [Next]_vars PROVE IndInv'
  OBVIOUS
<1>0. TypeOK'
  BY TypeStep DEF IndInv
<1>1. CASE DraftStep
  BY <1>1, CreateDraftStep, AdvanceDraftStep DEF DraftStep
<1>2. ASSUME NEW g \in Grants, NEW d \in Drafts, NEW rev \in Revisions, NEW c \in Digests,
             RejectReservation(g, d, rev, c) \/ ExpireGrant(g, d, rev, c)
      PROVE IndInv'
  BY <1>0, <1>2, CloseGrantStep DEF RejectReservation, ExpireGrant, GrantMatchesRequest
<1>3. ASSUME NEW g \in Grants, RevokeGrant(g) PROVE IndInv'
  BY <1>0, <1>3, CloseGrantStep DEF RevokeGrant
<1>4. CASE GrantStep
  BY <1>2, <1>4, IssueGrantStep, ReserveStep DEF GrantStep
<1>5. CASE CloseStep
  BY <1>3, <1>5, RecordReceiptStep, ConsumeGrantStep, TransitionAttemptStep DEF CloseStep
<1>6. CASE UNCHANGED vars
  BY <1>6 DEF vars, IndInv, TypeOK, UniqueKeys, AttemptSpendsItsGrant, ReceiptsCloseAttempts,
     UnrefutedAttemptHoldsDraft, Unrefuted, CommittedHasSuccessReceipt, ConsumedGrantClosesChain,
     Succeeded
<1> QED BY <1>1, <1>4, <1>5, <1>6 DEF Next

LEMMA InitInv == Init => IndInv
<1> SUFFICES ASSUME Init PROVE IndInv
  OBVIOUS
<1>1. TypeOK
  BY DEF Init, TypeOK
<1>2. /\ \A d \in Drafts : drafts[d].state = "NONE"
      /\ \A g \in Grants : grants[g].state = "NONE"
      /\ \A a \in Attempts : attempts[a].state = "NONE" /\ receipts[a].state = "NONE"
  BY DEF Init, Absent
<1> QED
  BY <1>1, <1>2 DEF IndInv, UniqueKeys, AttemptSpendsItsGrant, ReceiptsCloseAttempts, Exists,
     UnrefutedAttemptHoldsDraft, Unrefuted, CommittedHasSuccessReceipt, ConsumedGrantClosesChain

(* Every reachable state of the repository, under any callers and any        *)
(* bounds, satisfies the inductive invariant (and so TypeOK).                *)
THEOREM Invariance == Spec => []IndInv
  BY InitInv, InvStep, PTL DEF Spec

(* Every stored row is a row of its table, whatever the callers send         *)
(* (TransactionLifecycleStore).                                              *)
THEOREM TypeCorrect == Spec => []TypeOK
  BY Invariance, PTL DEF IndInv

(* No sequence of store calls gives a Draft two submissions of unknown       *)
(* outcome.                                                                  *)
THEOREM OneOpenAttempt == Spec => []AtMostOneOpenAttempt
<1>1. IndInv => AtMostOneOpenAttempt
  <2> SUFFICES ASSUME IndInv, NEW a \in Attempts, NEW b \in Attempts, Open(a), Open(b),
                      attempts[a].draft = attempts[b].draft
               PROVE  a = b
    BY DEF AtMostOneOpenAttempt
  <2>1. attempts[a].digest = attempts[b].digest
    BY DEF IndInv, UnrefutedAttemptHoldsDraft, Unrefuted, Open
  <2> QED BY <2>1 DEF IndInv, UniqueKeys, Open
<1> QED BY <1>1, Invariance, PTL

(* After a SUCCESS Receipt no other Attempt of the Draft is open or          *)
(* successful.                                                               *)
THEOREM SuccessIsLast == Spec => []NothingFollowsSuccess
<1>1. IndInv => NothingFollowsSuccess
  <2> SUFFICES ASSUME IndInv, NEW a \in Attempts, NEW b \in Attempts, Succeeded(a),
                      Exists(attempts[b]), attempts[a].draft = attempts[b].draft,
                      ~(Exists(receipts[b]) /\ receipts[b].state = "FAILED")
               PROVE  a = b
    BY DEF NothingFollowsSuccess
  <2>1. Unrefuted(a)
    BY DEF IndInv, ReceiptsCloseAttempts, Unrefuted, Succeeded
  <2>2. Unrefuted(b)
    BY RowsAreTyped DEF IndInv, Unrefuted, Succeeded, ReceiptRow, ReceiptStates
  <2>3. attempts[a].digest = attempts[b].digest
    BY <2>1, <2>2 DEF IndInv, UnrefutedAttemptHoldsDraft
  <2> QED BY <2>1, <2>3 DEF IndInv, UniqueKeys, Unrefuted
<1> QED BY <1>1, Invariance, PTL

(* A COMMITTED Draft has the SUCCESS Receipt of the very command its row     *)
(* holds (advance_draft).                                                    *)
THEOREM CommittedRestsOnReceipt == Spec => []CommittedHasSuccessReceipt
<1>1. IndInv => CommittedHasSuccessReceipt
  BY DEF IndInv
<1> QED BY <1>1, Invariance, PTL

(* A CONSUMED Grant closes one exact chain: its own ACKED Attempt and that   *)
(* Attempt's SUCCESS Receipt, under one handle (consume_grant).              *)
THEOREM ConsumedGrantsCloseChains == Spec => []ConsumedGrantClosesChain
<1>1. IndInv => ConsumedGrantClosesChain
  BY DEF IndInv
<1> QED BY <1>1, Invariance, PTL

(* A Grant is spent on at most one Attempt, of exactly the command it was    *)
(* issued for (reserve_grant_and_start_attempt).                             *)
THEOREM AttemptsSpendTheirGrants == Spec => []AttemptSpendsItsGrant
<1>1. IndInv => AttemptSpendsItsGrant
  BY DEF IndInv
<1> QED BY <1>1, Invariance, PTL

\* A step of the repository, of whatever caller.
LEMMA StepKeepsOutcomes ==
  ASSUME IndInv, [Next]_vars
  PROVE  OutcomesAreFinal
<1> USE DEF IndInv, TypeOK
<1>1. ASSUME NEW d \in Drafts, drafts[d].state \in SealedDraftStates
      PROVE  drafts'[d] = drafts[d]
  <2>1. drafts[d].state # "AWAITING_AUTHORIZATION" /\ Exists(drafts[d])
    BY <1>1 DEF SealedDraftStates, Exists
  <2>2. CASE DraftStep
    <3>1. ASSUME NEW e \in Drafts, NEW row \in DraftRow, CreateDraft(e, row)
          PROVE  drafts'[d] = drafts[d]
      BY <1>1, <2>1, <3>1 DEF CreateDraft, MayCreate, DraftUpdateAllowed
    <3>2. ASSUME NEW e \in Drafts, NEW s, NEW rev, NEW c, NEW a, NEW p,
                 AdvanceDraft(e, s, rev, c, a, p)
          PROVE  drafts'[d] = drafts[d]
      BY <1>1, <3>2 DEF AdvanceDraft, MayAdvance, DraftUpdateAllowed
    <3> QED BY <2>2, <3>1, <3>2 DEF DraftStep
  <2>3. CASE GrantStep
    <3>1. ASSUME NEW g \in Grants, NEW a, NEW e \in Drafts, NEW rev, NEW c,
                 ReserveGrantAndStartAttempt(g, a, e, rev, c)
          PROVE  drafts'[d] = drafts[d]
      BY <2>1, <3>1 DEF ReserveGrantAndStartAttempt, MayReserve, Committing,
                        ReservationAllowed, GrantIssueAllowed,
         GrantMatchesRequest, SameCommand
    <3> QED BY <2>3, <3>1 DEF GrantStep, IssueGrant, MayIssue, IsNewGrant,
                          RejectReservation, ExpireGrant
  <2>4. CASE CloseStep \/ UNCHANGED vars
    BY <2>4 DEF CloseStep, RecordReceipt, MayRecord, ConsumeGrant, MayConsume,
                TransitionAttempt, MayTransition, RevokeGrant, vars
  <2> QED BY <2>2, <2>3, <2>4 DEF Next
<1>2. ASSUME NEW a \in Attempts
      PROVE  /\ Exists(attempts[a]) /\ attempts[a].state \in SealedAttemptStates
                  => attempts'[a] = attempts[a]
             /\ Exists(receipts[a]) => receipts'[a] = receipts[a]
  <2>1. CASE DraftStep
    BY <2>1 DEF DraftStep, CreateDraft, MayCreate, AdvanceDraft, MayAdvance
  <2>2. CASE GrantStep
    <3>1. ASSUME NEW g \in Grants, NEW b \in Attempts, NEW d, NEW rev, NEW c,
                 ReserveGrantAndStartAttempt(g, b, d, rev, c)
          PROVE  /\ Exists(attempts[a]) => attempts'[a] = attempts[a]
                 /\ receipts' = receipts
      BY <3>1 DEF ReserveGrantAndStartAttempt, MayReserve, Committing
    <3> QED BY <2>2, <3>1 DEF GrantStep, IssueGrant, MayIssue, IsNewGrant,
                          RejectReservation, ExpireGrant
  <2>3. ASSUME NEW b \in Attempts, NEW s, NEW h, TransitionAttempt(b, s, h)
        PROVE  /\ attempts[a].state \in SealedAttemptStates => attempts'[a] = attempts[a]
               /\ receipts' = receipts
    BY <2>3 DEF TransitionAttempt, MayTransition, AttemptUpdateAllowed
  <2>4. ASSUME NEW b \in Attempts, NEW d, NEW s, NEW h, RecordReceipt(b, d, s, h)
        PROVE  /\ attempts' = attempts
               /\ Exists(receipts[a]) => receipts'[a] = receipts[a]
    BY <2>4 DEF RecordReceipt, MayRecord
  <2>5. CASE CloseStep
    BY <2>3, <2>4, <2>5 DEF CloseStep, ConsumeGrant, MayConsume, RevokeGrant
  <2>6. CASE UNCHANGED vars
    BY <2>6 DEF vars
  <2> QED BY <2>1, <2>2, <2>5, <2>6 DEF Next
<1>3. ASSUME NEW g \in Grants, grants[g].state \in {"CONSUMED", "REVOKED", "EXPIRED"}
      PROVE  grants'[g] = grants[g]
  <2>1. CASE DraftStep
    BY <2>1 DEF DraftStep, CreateDraft, MayCreate, AdvanceDraft, MayAdvance
  <2>2. ASSUME NEW x \in Grants, grants'[x] # grants[x], [Next]_vars,
               ~DraftStep
        PROVE  grants[x].state \in {"NONE", "ISSUED", "RESERVED"}
    <3>1. ASSUME NEW y \in Grants, NEW d, NEW rev, NEW c, NEW card, IssueGrant(y, d, rev, c, card)
          PROVE  grants[x].state \in {"NONE", "ISSUED", "RESERVED"}
      BY <2>2, <3>1 DEF IssueGrant, MayIssue, IsNewGrant, Exists
    <3>2. ASSUME NEW y \in Grants, NEW a, NEW d, NEW rev, NEW c,
                 ReserveGrantAndStartAttempt(y, a, d, rev, c)
          PROVE  grants[x].state \in {"NONE", "ISSUED", "RESERVED"}
      BY <2>2, <3>2 DEF ReserveGrantAndStartAttempt, MayReserve, Committing,
                        GrantMatchesRequest
    <3>3. ASSUME NEW y \in Grants, NEW d, NEW rev, NEW c,
                 RejectReservation(y, d, rev, c) \/ ExpireGrant(y, d, rev, c)
          PROVE  grants[x].state \in {"NONE", "ISSUED", "RESERVED"}
      BY <2>2, <3>3 DEF RejectReservation, ExpireGrant, GrantMatchesRequest
    <3>4. CASE GrantStep
      BY <3>1, <3>2, <3>3, <3>4 DEF GrantStep
    <3>5. ASSUME NEW y \in Grants, NEW a, NEW h, ConsumeGrant(y, a, h) \/ RevokeGrant(y)
          PROVE  grants[x].state \in {"NONE", "ISSUED", "RESERVED"}
      BY <2>2, <3>5 DEF ConsumeGrant, MayConsume, RevokeGrant, GrantConsumptionAllowed
    <3>6. CASE CloseStep
      BY <2>2, <3>5, <3>6 DEF CloseStep, RecordReceipt, MayRecord, TransitionAttempt,
                          MayTransition
    <3> QED BY <2>2, <3>4, <3>6 DEF Next, vars
  <2> QED BY <1>3, <2>1, <2>2
<1> QED BY <1>1, <1>2, <1>3 DEF OutcomesAreFinal

(* No later call, of any caller, rewrites a durable outcome.                 *)
THEOREM OutcomesStayFinal == Spec => NoResurrection
<1>1. IndInv /\ [Next]_vars => OutcomesAreFinal
  BY StepKeepsOutcomes
<1> QED BY <1>1, Invariance, PTL DEF Spec, NoResurrection

-----------------------------------------------------------------------------
(* Refinement of SubmissionLedger *)

\* What a command's result is depends on its own Attempts and their Receipts only.
LEMMA ResultFrame ==
  ASSUME NEW d \in Drafts, NEW c \in Digests,
         \A a \in Attempts : AttemptOf(a, d, c)' <=> AttemptOf(a, d, c),
         \A a \in Attempts : AttemptOf(a, d, c) => receipts'[a] = receipts[a]
  PROVE  CommandResult(d, c)' = CommandResult(d, c)
<1>1. KeyTaken(d, c)' <=> KeyTaken(d, c)
  BY DEF KeyTaken
<1>2. \A a \in Attempts : AttemptOf(a, d, c) =>
        /\ Succeeded(a)' <=> Succeeded(a)
        /\ Open(a)' <=> Open(a)
  BY DEF Succeeded, Open, AttemptOf
<1> QED BY <1>1, <1>2 DEF CommandResult

LEMMA ResultsFrame ==
  ASSUME UNCHANGED receipts,
         \A a \in Attempts, d \in Drafts, c \in Digests : AttemptOf(a, d, c)' <=> AttemptOf(a, d, c)
  PROVE  CommandResults' = CommandResults
  BY ResultFrame DEF CommandResults

\* A step that changes the result of one command changes the ledger there only.
LEMMA ResultChange ==
  ASSUME NEW d \in Drafts, NEW c \in Digests, NEW o,
         CommandResult(d, c)' = o,
         \A e \in Drafts, x \in Digests :
           e # d \/ x # c => CommandResult(e, x)' = CommandResult(e, x)
  PROVE  CommandResults' = [CommandResults EXCEPT ![d][c] = o]
<1>1. ASSUME NEW e \in Drafts, e # d
      PROVE  [x \in Digests |-> CommandResult(e, x)'] = [x \in Digests |-> CommandResult(e, x)]
  BY <1>1
<1>2. [x \in Digests |-> CommandResult(d, x)']
        = [[x \in Digests |-> CommandResult(d, x)] EXCEPT ![c] = o]
  OBVIOUS
<1>3. \A e \in Drafts : CommandResults[e] = [x \in Digests |-> CommandResult(e, x)]
  BY DEF CommandResults
<1>4. CommandResults' = [e \in Drafts |-> [x \in Digests |-> CommandResult(e, x)']]
  BY DEF CommandResults
<1>5. ASSUME NEW e \in Drafts
      PROVE  [x \in Digests |-> CommandResult(e, x)']
               = IF e = d THEN [CommandResults[d] EXCEPT ![c] = o] ELSE CommandResults[e]
  <2>1. CASE e = d
    BY <1>2, <1>3, <2>1
  <2>2. CASE e # d
    BY <1>1, <1>3, <2>2
  <2> QED BY <2>1, <2>2
<1>6. CommandResults' = [e \in Drafts |-> IF e = d THEN [CommandResults[d] EXCEPT ![c] = o]
                                                 ELSE CommandResults[e]]
  BY <1>4, <1>5
<1>7. DOMAIN CommandResults = Drafts
  BY DEF CommandResults
<1> HIDE DEF CommandResults
<1> QED BY <1>6, <1>7

(* Reserving a Grant submits the command: the Draft was awaiting authority,  *)
(* so no earlier Attempt of it is open or has succeeded.                     *)
LEMMA ReserveSubmits ==
  ASSUME IndInv, NEW g \in Grants, NEW a \in Attempts, NEW d \in Drafts,
         NEW rev \in Revisions, NEW c \in Digests,
         ReserveGrantAndStartAttempt(g, a, d, rev, c)
  PROVE  Ledger!Submit(d, c)
<1>1. /\ drafts[d].state = "AWAITING_AUTHORIZATION"
      /\ ~Exists(attempts[a]) /\ ~Exists(receipts[a]) /\ ~KeyTaken(d, c)
      /\ receipts' = receipts
      /\ Exists(attempts'[a]) /\ attempts'[a].draft = d /\ attempts'[a].digest = c
      /\ \A x \in Attempts \ {a} : attempts'[x] = attempts[x]
  BY DEF ReserveGrantAndStartAttempt, MayReserve, Committing, ReservationAllowed,
         GrantMatchesRequest, SameCommand,
         GrantIssueAllowed, IndInv, TypeOK, ReceiptsCloseAttempts, Exists
<1>2. CommandResults[d][c] = "unsubmitted"
  BY <1>1 DEF CommandResults, CommandResult
<1>3. \A x \in Attempts : Exists(attempts[x]) /\ attempts[x].draft = d => ~Unrefuted(x)
  BY <1>1 DEF IndInv, UnrefutedAttemptHoldsDraft, InFlightStates
<1>4. ASSUME NEW x \in Digests PROVE CommandResults[d][x] \in {"unsubmitted", "failed"}
  <2>1. \A y \in Attempts : AttemptOf(y, d, x) => ~Succeeded(y) /\ ~Open(y)
    BY <1>3 DEF AttemptOf, Unrefuted, Succeeded, Open
  <2> QED BY <2>1 DEF CommandResults, CommandResult
<1>5. CommandResult(d, c)' = "open"
  <2>1. AttemptOf(a, d, c)' /\ Open(a)'
    BY <1>1 DEF AttemptOf, Open
  <2>2. \A x \in Attempts : AttemptOf(x, d, c)' => x = a
    BY <1>1 DEF AttemptOf, KeyTaken
  <2>3. ~Succeeded(a)'
    BY <1>1 DEF Succeeded
  <2> QED BY <2>1, <2>2, <2>3 DEF CommandResult, KeyTaken
<1>6. ASSUME NEW e \in Drafts, NEW x \in Digests, e # d \/ x # c
      PROVE  CommandResult(e, x)' = CommandResult(e, x)
  <2>1. \A y \in Attempts : AttemptOf(y, e, x)' <=> AttemptOf(y, e, x)
    BY <1>1, <1>6 DEF AttemptOf
  <2> QED BY <1>1, <2>1, ResultFrame
<1>7. CommandResults' = [CommandResults EXCEPT ![d][c] = "open"]
  BY <1>5, <1>6, ResultChange
<1> QED BY <1>2, <1>4, <1>7 DEF Ledger!Submit

\* The first Receipt of an Attempt resolves its command.
LEMMA ReceiptResolves ==
  ASSUME IndInv, NEW a \in Attempts, NEW d \in Drafts, NEW s \in ReceiptStates, NEW h \in Handles,
         RecordReceipt(a, d, s, h)
  PROVE  \E c \in Digests, o \in Ledger!Outcomes : Ledger!Resolve(d, c, o)
<1>0. attempts[a] \in AttemptRow
  BY RowsAreTyped DEF RecordReceipt, MayRecord, IndInv
<1> PICK c \in Digests : c = attempts[a].digest
  BY <1>0 DEF AttemptRow
<1> PICK o : o = IF s = "SUCCESS" THEN "succeeded" ELSE "failed"
  OBVIOUS
<1>1. /\ attempts[a].draft = d
      /\ Exists(attempts[a]) /\ ~Exists(receipts[a])
      /\ receipts'[a].state = s /\ s # "NONE"
      /\ \A x \in Attempts \ {a} : receipts'[x] = receipts[x]
      /\ UNCHANGED attempts
  BY DEF RecordReceipt, MayRecord, ReceiptBindingValid, IndInv, TypeOK, ReceiptStates
<1>2. \A x \in Attempts : AttemptOf(x, d, c) <=> x = a
  BY <1>1 DEF AttemptOf, IndInv, UniqueKeys
<1>3. \A x \in Attempts, e \in Drafts, y \in Digests : AttemptOf(x, e, y)' <=> AttemptOf(x, e, y)
  BY <1>1 DEF AttemptOf
<1>4. CommandResults[d][c] = "open"
  BY <1>1, <1>2 DEF CommandResults, CommandResult, KeyTaken, Succeeded, Open
<1>5. CommandResult(d, c)' = o
  <2>1. \A x \in Attempts : AttemptOf(x, d, c)' <=> x = a
    BY <1>1, <1>2, <1>3
  <2>2. (Succeeded(a)' <=> s = "SUCCESS") /\ ~Open(a)'
    BY <1>1 DEF Succeeded, Open, Exists
  <2> QED BY <2>1, <2>2 DEF CommandResult, KeyTaken
<1>6. ASSUME NEW e \in Drafts, NEW x \in Digests, e # d \/ x # c
      PROVE  CommandResult(e, x)' = CommandResult(e, x)
  <2>1. \A y \in Attempts : AttemptOf(y, e, x) => y # a
    BY <1>1, <1>6 DEF AttemptOf
  <2> QED BY <1>1, <1>3, <2>1, ResultFrame
<1>7. CommandResults' = [CommandResults EXCEPT ![d][c] = o]
  BY <1>5, <1>6, ResultChange
<1>8. o \in Ledger!Outcomes
  BY DEF Ledger!Outcomes
<1> QED BY <1>1, <1>4, <1>7, <1>8 DEF Ledger!Resolve

(* The repository implements the one-at-a-time, at-most-once submission      *)
(* ledger: reservations map to Submit, first Receipts to Resolve, and every  *)
(* other operation to a stuttering step.                                     *)
THEOREM Refinement == Spec => ImplementsSubmissionLedger
<1>1. Init => Ledger!Init
  <2> SUFFICES ASSUME Init PROVE Ledger!Init
    OBVIOUS
  <2>1. \A a \in Attempts : ~Exists(attempts[a])
    BY DEF Init, Absent, Exists
  <2>2. \A d \in Drafts, c \in Digests : CommandResult(d, c) = "unsubmitted"
    BY <2>1 DEF CommandResult, KeyTaken, AttemptOf
  <2> QED BY <2>2 DEF Ledger!Init, CommandResults
<1>2. IndInv /\ [Next]_vars => [Ledger!Next]_CommandResults
  <2> SUFFICES ASSUME IndInv, [Next]_vars PROVE Ledger!Next \/ CommandResults' = CommandResults
    OBVIOUS
  <2>1. ASSUME UNCHANGED <<attempts, receipts>> PROVE CommandResults' = CommandResults
    BY <2>1, ResultsFrame DEF AttemptOf
  <2>2. CASE DraftStep \/ UNCHANGED vars
    BY <2>1, <2>2 DEF DraftStep, CreateDraft, MayCreate, AdvanceDraft, MayAdvance, vars
  <2>3. CASE GrantStep
    <3>1. ASSUME NEW g \in Grants, NEW a \in Attempts, NEW d \in Drafts,
                 NEW rev \in Revisions, NEW c \in Digests,
                 ReserveGrantAndStartAttempt(g, a, d, rev, c)
          PROVE  Ledger!Next
      BY <3>1, ReserveSubmits DEF Ledger!Next
    <3> QED BY <2>1, <2>3, <3>1 DEF GrantStep, IssueGrant, MayIssue, IsNewGrant,
                            RejectReservation, ExpireGrant
  <2>4. ASSUME NEW a \in Attempts, NEW s \in AttemptStates \ {"STARTED"},
               NEW h \in Handles \cup {None}, TransitionAttempt(a, s, h)
        PROVE  CommandResults' = CommandResults
    <3>1. attempts[a] \in AttemptRow /\ s # "NONE"
      BY <2>4, RowsAreTyped DEF TransitionAttempt, MayTransition, IndInv, AttemptStates,
                            SealedAttemptStates
    <3>2. \A x \in Attempts, d \in Drafts, c \in Digests :
            AttemptOf(x, d, c)' <=> AttemptOf(x, d, c)
      BY <2>4, <3>1 DEF TransitionAttempt, MayTransition, IndInv, TypeOK, AttemptRow,
                        AttemptOf, Exists
    <3> QED BY <2>4, <3>2, ResultsFrame DEF TransitionAttempt, MayTransition
  <2>5. ASSUME NEW a \in Attempts, NEW d \in Drafts, NEW s \in ReceiptStates, NEW h \in Handles,
               RecordReceipt(a, d, s, h)
        PROVE  Ledger!Next
    BY <2>5, ReceiptResolves DEF Ledger!Next
  <2>6. CASE CloseStep
    BY <2>1, <2>4, <2>5, <2>6 DEF CloseStep, ConsumeGrant, MayConsume, RevokeGrant
  <2> QED BY <2>2, <2>3, <2>6 DEF Next
<1> QED BY <1>1, <1>2, Invariance, PTL DEF Spec, Ledger!Spec, ImplementsSubmissionLedger
=============================================================================
