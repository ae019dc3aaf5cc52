------------------------ MODULE CommitProtocol_proofs ------------------------
(***************************************************************************)
(* Proofs about turns, reconcilers and the two services together: every    *)
(* step of the protocol is a legal step of the transaction repository, an  *)
(* effect is always authorized, and a SUCCESS is always an effect, for any *)
(* number of turns, requests and crashes, with the lease or without, on    *)
(* both databases of the Business Service.                                 *)
(***************************************************************************)
EXTENDS CommitProtocol, TransactionStore_proofs

LEMMA OneDraft == Draft \in Drafts /\ \A d \in Drafts : d = Draft
  BY ProtocolAssumption DEF Draft

LEMMA Bounds ==
  /\ \A c : c \in Digests <=> c \in 1 .. MaxOrderVersion
  /\ MaxOrderVersion \in Nat /\ MaxRevision \in Nat /\ MaxVersion \in Nat
  /\ MaxOrderVersion <= MaxRevision /\ MaxRevision <= MaxVersion
  /\ Handles = Procs
  /\ None \notin Drafts \cup Digests \cup Cards \cup Grants \cup Attempts \cup Procs
  BY ProtocolAssumption, NoneAssumption, BoundAssumption

-----------------------------------------------------------------------------
(* What is never taken back *)

RowsStay ==
  /\ \A a \in Attempts : Exists(attempts[a]) =>
       /\ Exists(attempts'[a])
       /\ attempts'[a].draft = attempts[a].draft /\ attempts'[a].revision = attempts[a].revision
       /\ attempts'[a].digest = attempts[a].digest /\ attempts'[a].grant = attempts[a].grant

TimeGoesOn ==
  /\ version \in Nat /\ version' \in Nat /\ version <= version'
  /\ done \subseteq done'

LEMMA StoreKeepsRows ==
  ASSUME TypeOK, [Next]_vars
  PROVE  RowsStay
<1>1. CASE UNCHANGED vars
  BY <1>1 DEF vars, RowsStay, Exists
<1>2. CASE DraftStep
  BY <1>2 DEF DraftStep, CreateDraft, AdvanceDraft, RowsStay, Exists
<1>3. CASE GrantStep
  <2>1. ASSUME NEW g \in Grants, NEW a \in Attempts, NEW d \in Drafts, NEW rev \in Revisions,
               NEW c \in Digests, ReserveGrantAndStartAttempt(g, a, d, rev, c)
        PROVE  RowsStay
    BY <2>1 DEF TypeOK, ReserveGrantAndStartAttempt, RowsStay, Exists
  <2>2. CASE UNCHANGED attempts
    BY <2>2 DEF RowsStay, Exists
  <2> QED BY <1>3, <2>1, <2>2 DEF GrantStep, IssueGrant, RejectReservation, ExpireGrant
<1>4. CASE CloseStep
  <2>1. ASSUME NEW a \in Attempts, NEW s \in AttemptStates \ {"STARTED"},
               NEW h \in Handles \cup {None}, TransitionAttempt(a, s, h)
        PROVE  RowsStay
    <3>1. attempts[a] \in AttemptRow
      BY <2>1, RowsAreTyped DEF TransitionAttempt, MayTransition
    <3>2. /\ attempts'[a].draft = attempts[a].draft /\ attempts'[a].revision = attempts[a].revision
          /\ attempts'[a].digest = attempts[a].digest /\ attempts'[a].grant = attempts[a].grant
          /\ attempts'[a].state = s
          /\ \A x \in Attempts : x # a => attempts'[x] = attempts[x]
      BY <2>1, <3>1 DEF TypeOK, TransitionAttempt, AttemptRow
    <3>3. s # "NONE"
      BY DEF AttemptStates, SealedAttemptStates
    <3> QED BY <3>2, <3>3 DEF RowsStay, Exists
  <2>2. CASE UNCHANGED attempts
    BY <2>2 DEF RowsStay, Exists
  <2> QED BY <1>4, <2>1, <2>2 DEF CloseStep, RecordReceipt, ConsumeGrant, RevokeGrant
<1> QED BY <1>1, <1>2, <1>3, <1>4 DEF Next

LEMMA KeysStay ==
  ASSUME RowsStay
  PROVE  /\ \A a \in Attempts : \A c : AttemptOf(a, Draft, c) => AttemptOf(a, Draft, c)'
         /\ \A c : KeyTaken(Draft, c) => KeyTaken(Draft, c)'
  BY DEF RowsStay, AttemptOf, KeyTaken

\* What a turn has in hand fits its place until it acts again.
LEMMA FitsStay ==
  ASSUME RowsStay, TimeGoesOn, NEW s, NEW j, JobFits(s, j)
  PROVE  JobFits(s, j)'
<1>1. Prepared(j.revision, j.digest) => Prepared(j.revision, j.digest)'
  BY DEF TimeGoesOn, Prepared
<1>2. \A a \in Attempts : AttemptOf(a, Draft, j.digest) => AttemptOf(a, Draft, j.digest)'
  BY KeysStay
<1> QED BY <1>1, <1>2 DEF JobFits, TimeGoesOn

\* One turn moves on, the others stay where they are.
LEMMA JobsCarried ==
  ASSUME RowsStay, TimeGoesOn, JobsFit, NEW p \in Procs, NEW s, NEW j, Carry(p, s, j),
         JobFits(s, j)'
  PROVE  JobsFit'
<1>1. s \in Pcs /\ j \in JobRow
  BY DEF JobFits
<1>2. pc' \in [Procs -> Pcs] /\ job' \in [Procs -> JobRow]
  BY <1>1 DEF JobsFit, Carry
<1>3. ASSUME NEW q \in Procs PROVE JobFits(pc[q], job[q])'
  <2>1. CASE q = p
    <3>1. pc'[q] = s /\ job'[q] = j
      BY <2>1 DEF JobsFit, Carry
    <3> QED BY <3>1 DEF JobFits
  <2>2. CASE q # p
    <3>1. pc'[q] = pc[q] /\ job'[q] = job[q]
      BY <2>2 DEF JobsFit, Carry
    <3>2. JobFits(pc[q], job[q])
      BY DEF JobsFit
    <3> QED BY <3>1, <3>2, FitsStay DEF JobFits
  <2> QED BY <2>1, <2>2
<1> QED BY <1>2, <1>3 DEF JobsFit

\* A turn that only moves on carries what it had in hand.
LEMMA GotoCarries ==
  ASSUME JobsFit, NEW p \in Procs, NEW s, Goto(p, s)
  PROVE  Carry(p, s, job[p])
  BY DEF JobsFit, Goto, Carry

-----------------------------------------------------------------------------
(* Frames: what the parts of the invariant need of a step *)

LEMMA PreparedStay ==
  ASSUME RowsPrepared, RowsStay, TimeGoesOn, UNCHANGED drafts,
         \A a \in Attempts : Exists(attempts'[a]) => Exists(attempts[a])
  PROVE  RowsPrepared'
<1>1. \A r, c : Prepared(r, c) => Prepared(r, c)'
  BY DEF TimeGoesOn, Prepared
<1>2. \A a \in Attempts : Exists(attempts'[a]) =>
        Prepared(attempts[a].revision, attempts[a].digest)
          /\ attempts'[a].revision = attempts[a].revision
          /\ attempts'[a].digest = attempts[a].digest
  BY DEF RowsPrepared, RowsStay
<1> QED BY <1>1, <1>2 DEF RowsPrepared, Exists, Prepared, TimeGoesOn

LEMMA SuccessStays ==
  ASSUME IndInv, SuccessReceiptIsReal, RowsStay, TimeGoesOn, UNCHANGED receipts
  PROVE  SuccessReceiptIsReal'
  BY DEF IndInv, ReceiptsCloseAttempts, SuccessReceiptIsReal, RowsStay, TimeGoesOn, Exists

LEMMA ServiceStands ==
  ASSUME ProtocolInv, RowsStay, UNCHANGED serviceVars
  PROVE  TimeGoesOn /\ RequestsAuthorized' /\ EffectHasAttempt'
<1>1. TimeGoesOn
  BY DEF ProtocolInv, RequestsAuthorized, TimeGoesOn, serviceVars
<1>2. RequestsAuthorized'
  BY KeysStay DEF ProtocolInv, RequestsAuthorized, serviceVars
<1>3. EffectHasAttempt'
  BY KeysStay DEF ProtocolInv, EffectHasAttempt, serviceVars
<1> QED BY <1>1, <1>2, <1>3

\* A turn acts on the repository, and does not begin to wait for an answer.
LEMMA TurnActs ==
  ASSUME ProtocolInv, [Next]_vars, UNCHANGED serviceVars, NEW p \in Procs, NEW s, s # "wait",
         NEW j, Carry(p, s, j), JobFits(s, j)', RowsPrepared', SuccessReceiptIsReal'
  PROVE  ProtocolInv'
<1>1. IndInv' /\ RowsStay
  BY InvStep, StoreKeepsRows DEF ProtocolInv, IndInv
<1>2. TimeGoesOn /\ RequestsAuthorized' /\ EffectHasAttempt'
  BY <1>1, ServiceStands
<1>3. JobsFit'
  BY <1>1, <1>2, JobsCarried DEF ProtocolInv
<1>4. CallsAwaited'
  <2>1. \A q \in Procs : pc'[q] = "wait" => q # p /\ pc[q] = "wait" /\ job'[q] = job[q]
    BY DEF ProtocolInv, JobsFit, Carry
  <2>2. call' = call
    BY DEF serviceVars
  <2> QED BY <2>1, <2>2 DEF ProtocolInv, CallsAwaited
<1> QED BY <1>1, <1>2, <1>3, <1>4 DEF ProtocolInv

\* A turn acts on neither service.
LEMMA TurnMoves ==
  ASSUME ProtocolInv, UNCHANGED <<storeVars, serviceVars>>, NEW p \in Procs, NEW s, s # "wait",
         NEW j, Carry(p, s, j), JobFits(s, j)'
  PROVE  ProtocolInv'
<1>1. [Next]_vars /\ UNCHANGED serviceVars
  BY DEF storeVars
<1>2. RowsStay /\ TimeGoesOn
  BY <1>1, StoreKeepsRows, ServiceStands DEF ProtocolInv, IndInv
<1>3. RowsPrepared' /\ SuccessReceiptIsReal'
  BY <1>2, PreparedStay, SuccessStays DEF ProtocolInv, storeVars, vars
<1> QED BY <1>1, <1>3, TurnActs

\* What a turn has in hand still fits after a step of the repository.
LEMMA StillFits ==
  ASSUME ProtocolInv, [Next]_vars, UNCHANGED serviceVars, NEW p \in Procs,
         NEW s, pc[p] = s, NEW j, job[p] = j
  PROVE  JobFits(s, j) /\ JobFits(s, j)'
<1>1. RowsStay /\ TimeGoesOn
  BY StoreKeepsRows, ServiceStands DEF ProtocolInv, IndInv
<1> QED BY <1>1, FitsStay DEF ProtocolInv, JobsFit

\* The turn ends.
LEMMA FinishActs ==
  ASSUME ProtocolInv, [Next]_vars, UNCHANGED serviceVars, NEW p \in Procs, NEW end \in Resting,
         end = "committed" => job[p].digest \in done, Finish(p, end), RowsPrepared',
         SuccessReceiptIsReal'
  PROVE  ProtocolInv'
<1> PICK j : j = job[p]
  OBVIOUS
<1> DEFINE last == [NoJob EXCEPT !.digest = j.digest]
<1>1. j \in JobRow /\ end \in Pcs /\ end # "wait" /\ done' = done
  BY DEF ProtocolInv, JobsFit, Pcs, Resting, Ends, serviceVars
<1>2. CASE p \in Workers
  <2>1. last \in JobRow /\ last.digest = j.digest
    BY <1>1, Bounds DEF NoJob, JobRow
  <2>2. JobFits(end, last)'
    BY <1>1, <2>1 DEF JobFits, Resting, Ends, Approving, Submitting
  <2> QED BY <1>1, <1>2, <2>2, TurnActs DEF Finish
<1>3. CASE p \notin Workers
  <2>1. NoJob \in JobRow /\ "idle" \in Pcs
    BY Bounds DEF NoJob, JobRow, Pcs, Resting
  <2>2. JobFits("idle", NoJob)'
    BY <2>1 DEF JobFits, Resting, Ends, Approving, Submitting
  <2> QED BY <1>3, <2>2, TurnActs DEF Finish
<1> QED BY <1>2, <1>3

\* The turn ends, having done nothing.
LEMMA FinishMoves ==
  ASSUME ProtocolInv, UNCHANGED <<storeVars, serviceVars>>, NEW p \in Procs,
         NEW end \in Resting, end = "committed" => job[p].digest \in done, Finish(p, end)
  PROVE  ProtocolInv'
<1>1. [Next]_vars /\ UNCHANGED serviceVars
  BY DEF storeVars
<1>2. RowsStay /\ TimeGoesOn
  BY <1>1, StoreKeepsRows, ServiceStands DEF ProtocolInv, IndInv
<1>3. RowsPrepared' /\ SuccessReceiptIsReal'
  BY <1>2, PreparedStay, SuccessStays DEF ProtocolInv, storeVars, vars
<1> QED BY <1>1, <1>3, FinishActs

\* A Grant alone changes.
LEMMA GrantsOnly ==
  ASSUME ProtocolInv, [Next]_vars, UNCHANGED <<serviceVars, drafts, attempts, receipts>>
  PROVE  RowsPrepared' /\ SuccessReceiptIsReal'
<1>1. RowsStay /\ TimeGoesOn
  BY StoreKeepsRows, ServiceStands DEF ProtocolInv, IndInv
<1> QED BY <1>1, PreparedStay, SuccessStays DEF ProtocolInv, Exists

\* A card is persisted, for a command that was prepared.
LEMMA CardCreated ==
  ASSUME ProtocolInv, UNCHANGED serviceVars, NEW r, NEW c, NEW k \in Cards, Prepared(r, c),
         CreateDraft(Draft, CardRow(r, c, k))
  PROVE  [Next]_vars /\ RowsPrepared' /\ SuccessReceiptIsReal'
<1> DEFINE row == CardRow(r, c, k)
<1>1. r \in 1 .. MaxRevision /\ r \in 0 .. MaxVersion /\ c \in Digests
  BY Bounds DEF Prepared, ProtocolInv, RequestsAuthorized
<1>2. row \in DraftRow
  <2>1. "AWAITING_AUTHORIZATION" \in DraftStates
    BY DEF DraftStates, ReusableStates
  <2>2. 0 \in 0 .. MaxTurn /\ r \in Revisions
    BY <1>1, BoundAssumption DEF Revisions
  <2> QED BY <1>1, <2>1, <2>2 DEF CardRow, DraftRow
<1>3. [Next]_vars
  BY <1>2, OneDraft DEF Next, DraftStep
<1>4. RowsStay /\ TimeGoesOn
  BY <1>3, StoreKeepsRows, ServiceStands DEF ProtocolInv, IndInv
<1>5. drafts'[Draft] = row /\ UNCHANGED <<attempts, receipts>>
  BY OneDraft DEF CreateDraft, ProtocolInv, IndInv, TypeOK
<1>6. row.revision = r /\ row.digest = c /\ row.card = k /\ k # None
  BY Bounds DEF CardRow
<1>7. RowsPrepared'
  BY <1>4, <1>5, <1>6 DEF ProtocolInv, RowsPrepared, Prepared, TimeGoesOn, Exists
<1> QED BY <1>3, <1>4, <1>5, <1>7, SuccessStays DEF ProtocolInv

-----------------------------------------------------------------------------
(* Presentation and approval *)

LEMMA PresentCardKeeps ==
  ASSUME ProtocolInv, PresentCard
  PROVE  ProtocolInv' /\ [Next]_vars
<1>1. PICK k \in Cards : CreateDraft(Draft, CardRow(1, version, k))
  BY DEF PresentCard
<1>2. Prepared(1, version) /\ UNCHANGED <<serviceVars, pc, job>>
  BY Bounds DEF PresentCard, Prepared, ProtocolInv, RequestsAuthorized
<1> PICK c : c = version
  OBVIOUS
<1>3. [Next]_vars /\ RowsPrepared' /\ SuccessReceiptIsReal'
  BY <1>1, <1>2, CardCreated
<1>4. IndInv' /\ RowsStay
  BY <1>3, InvStep, StoreKeepsRows DEF ProtocolInv, IndInv
<1>5. TimeGoesOn /\ RequestsAuthorized' /\ EffectHasAttempt'
  BY <1>2, <1>4, ServiceStands
<1>6. JobsFit'
  BY <1>2, <1>4, <1>5, FitsStay DEF ProtocolInv, JobsFit, JobFits
<1>7. CallsAwaited'
  BY <1>2 DEF ProtocolInv, CallsAwaited, serviceVars
<1> QED BY <1>3, <1>4, <1>5, <1>6, <1>7 DEF ProtocolInv

LEMMA ApproveKeeps ==
  ASSUME ProtocolInv, NEW p \in Procs, Approve(p)
  PROVE  ProtocolInv'
<1> DEFINE d == drafts[Draft]
<1> PICK j : j = [NoJob EXCEPT !.revision = d.revision, !.digest = d.digest, !.card = d.card]
  OBVIOUS
<1>1. d \in DraftRow
  BY OneDraft, RowsAreTyped DEF Approve, ProtocolInv, IndInv, Exists
<1>2. Prepared(d.revision, d.digest) /\ d.card # None
  BY <1>1 DEF Approve, ProtocolInv, RowsPrepared, Exists
<1>3. j.revision = d.revision /\ j.digest = d.digest /\ j.card = d.card /\ j \in JobRow
  <2>1. d.revision \in 0 .. MaxRevision /\ d.digest \in Digests /\ d.card \in Cards \cup {None}
    BY <1>1, BoundAssumption DEF DraftRow, Revisions
  <2> QED BY <2>1 DEF NoJob, JobRow
<1>4. JobFits("persist", j)
  BY <1>1, <1>2, <1>3 DEF JobFits, DraftRow, Approving, Submitting, Pcs
<1>5. JobFits("persist", j)'
  BY <1>4 DEF JobFits, Approve, serviceVars, storeVars, vars, Prepared, AttemptOf
<1> QED BY <1>5, TurnMoves DEF Approve

LEMMA PersistKeeps ==
  ASSUME ProtocolInv, NEW p \in Procs, PersistAuthority(p)
  PROVE  ProtocolInv' /\ [Next]_vars
<1> PICK j : j = job[p]
  OBVIOUS
<1>1. JobFits("persist", j)
  BY DEF PersistAuthority, ProtocolInv, JobsFit
<1>2. j.card \in Cards /\ Prepared(j.revision, j.digest)
  BY <1>1 DEF JobFits, Approving
<1>3. [Next]_vars /\ RowsPrepared' /\ SuccessReceiptIsReal'
  <2>1. CASE CreateDraft(Draft, CardRow(j.revision, j.digest, j.card))
    BY <1>2, <2>1, CardCreated DEF PersistAuthority
  <2>2. CASE UNCHANGED storeVars
    BY <2>2, GrantsOnly DEF PersistAuthority, storeVars, vars
  <2> QED BY <2>1, <2>2 DEF PersistAuthority, Try, TryCreate
<1>4. CASE Goto(p, "issue")
  <2>1. JobFits("persist", j)'
    BY <1>3, StillFits DEF PersistAuthority
  <2>2. JobFits("issue", j)'
    BY <2>1 DEF JobFits, Approving, Submitting, Pcs
  <2> QED BY <1>3, <1>4, <2>2, GotoCarries, TurnActs DEF PersistAuthority, ProtocolInv
<1>5. CASE Finish(p, "stopped")
  BY <1>3, <1>5, FinishActs DEF PersistAuthority, Resting, Ends
<1> QED BY <1>3, <1>4, <1>5 DEF PersistAuthority

\* A turn goes on with what fits its new place already.
LEMMA GoesOn ==
  ASSUME ProtocolInv, [Next]_vars, UNCHANGED serviceVars, NEW p \in Procs, NEW s, s # "wait",
         NEW j, Carry(p, s, j), JobFits(s, j), RowsPrepared', SuccessReceiptIsReal'
  PROVE  ProtocolInv'
<1>1. RowsStay /\ TimeGoesOn
  BY StoreKeepsRows, ServiceStands DEF ProtocolInv, IndInv
<1>2. JobFits(s, j)'
  BY <1>1, FitsStay
<1> QED BY <1>2, TurnActs

\* So does one that only reads.
LEMMA MovesOn ==
  ASSUME ProtocolInv, UNCHANGED <<storeVars, serviceVars>>, NEW p \in Procs, NEW s, s # "wait",
         NEW j, Carry(p, s, j), JobFits(s, j)
  PROVE  ProtocolInv'
<1>1. [Next]_vars /\ UNCHANGED serviceVars
  BY DEF storeVars
<1>2. RowsStay /\ TimeGoesOn
  BY <1>1, StoreKeepsRows, ServiceStands DEF ProtocolInv, IndInv
<1>3. JobFits(s, j)'
  BY <1>2, FitsStay
<1> QED BY <1>3, TurnMoves

\* A prepared command is one of the checked instance.
LEMMA PreparedIsTyped ==
  ASSUME ProtocolInv, NEW r, NEW c, Prepared(r, c)
  PROVE  r \in Revisions /\ c \in Digests /\ r \in Nat /\ c \in Nat
  BY Bounds DEF ProtocolInv, RequestsAuthorized, Prepared, Revisions

-----------------------------------------------------------------------------
(* The calls of the repository that the turns make *)

LEMMA GrantCall ==
  ASSUME ProtocolInv, UNCHANGED serviceVars, NEW g \in Grants,
         \/ RevokeGrant(g)
         \/ \E r \in Revisions, c \in Digests, k \in Cards : IssueGrant(g, Draft, r, c, k)
         \/ \E r \in Revisions, c \in Digests :
              RejectReservation(g, Draft, r, c) \/ ExpireGrant(g, Draft, r, c)
         \/ \E a \in Attempts : \E h : ConsumeGrant(g, a, h)
  PROVE  [Next]_vars /\ RowsPrepared' /\ SuccessReceiptIsReal'
<1>1. UNCHANGED <<drafts, attempts, receipts>>
  BY DEF RevokeGrant, IssueGrant, RejectReservation, ExpireGrant, ConsumeGrant
<1>2. CASE \E a \in Attempts : \E h : ConsumeGrant(g, a, h)
  <2>1. PICK a \in Attempts : \E h : ConsumeGrant(g, a, h)
    BY <1>2
  <2> PICK h : ConsumeGrant(g, a, h)
    BY <2>1
  <2>2. receipts[a] \in ReceiptRow /\ receipts[a].handle = h
    BY <2>1, RowsAreTyped DEF ConsumeGrant, MayConsume, GrantConsumptionAllowed, ProtocolInv,
       IndInv, Exists
  <2>3. h \in Handles
    BY <2>2 DEF ReceiptRow
  <2> QED BY <2>1, <2>3, <1>1, GrantsOnly DEF Next, CloseStep
<1>3. CASE ~\E a \in Attempts : \E h : ConsumeGrant(g, a, h)
  BY <1>1, <1>3, OneDraft, GrantsOnly DEF Next, CloseStep, GrantStep
<1> QED BY <1>2, <1>3

LEMMA AttemptCall ==
  ASSUME ProtocolInv, UNCHANGED serviceVars, NEW a \in Attempts,
         NEW s \in AttemptStates \ {"STARTED"}, NEW h \in Handles \cup {None},
         TransitionAttempt(a, s, h)
  PROVE  [Next]_vars /\ RowsPrepared' /\ SuccessReceiptIsReal'
<1>1. [Next]_vars
  BY DEF Next, CloseStep
<1>2. RowsStay /\ TimeGoesOn
  BY <1>1, StoreKeepsRows, ServiceStands DEF ProtocolInv, IndInv
<1>3. UNCHANGED <<drafts, receipts>>
  BY DEF TransitionAttempt
<1>4. \A x \in Attempts : Exists(attempts'[x]) => Exists(attempts[x])
  <2>1. Exists(attempts[a]) /\ \A x \in Attempts : x # a => attempts'[x] = attempts[x]
    BY DEF TransitionAttempt, MayTransition, ProtocolInv, IndInv, TypeOK
  <2> QED BY <2>1
<1> QED BY <1>1, <1>2, <1>3, <1>4, PreparedStay, SuccessStays DEF ProtocolInv

LEMMA ReceiptCall ==
  ASSUME ProtocolInv, UNCHANGED serviceVars, NEW a \in Attempts, NEW s \in ReceiptStates,
         NEW h \in Handles, RecordReceipt(a, Draft, s, h),
         s = "SUCCESS" => attempts[a].digest \in done
  PROVE  [Next]_vars /\ RowsPrepared' /\ SuccessReceiptIsReal'
<1>1. [Next]_vars
  BY OneDraft DEF Next, CloseStep
<1>2. RowsStay /\ TimeGoesOn
  BY <1>1, StoreKeepsRows, ServiceStands DEF ProtocolInv, IndInv
<1>3. UNCHANGED <<drafts, attempts>>
  BY DEF RecordReceipt
<1>4. RowsPrepared'
  BY <1>2, <1>3, PreparedStay DEF ProtocolInv
<1>5. SuccessReceiptIsReal'
  <2>1. receipts'[a].state = s /\ \A x \in Attempts : x # a => receipts'[x] = receipts[x]
    BY DEF RecordReceipt, ProtocolInv, IndInv, TypeOK
  <2> QED BY <1>2, <1>3, <2>1 DEF ProtocolInv, SuccessReceiptIsReal, Exists, TimeGoesOn
<1> QED BY <1>1, <1>4, <1>5

LEMMA AdvanceCall ==
  ASSUME ProtocolInv, UNCHANGED serviceVars, NEW s \in ObservedStates, NEW r, NEW c,
         Prepared(r, c), NEW a \in Attempts, NEW b \in BOOLEAN, AdvanceDraft(Draft, s, r, c, a, b)
  PROVE  [Next]_vars /\ RowsPrepared' /\ SuccessReceiptIsReal'
<1>1. [Next]_vars
  BY OneDraft, PreparedIsTyped DEF Next, DraftStep
<1>2. RowsStay /\ TimeGoesOn
  BY <1>1, StoreKeepsRows, ServiceStands DEF ProtocolInv, IndInv
<1>3. UNCHANGED <<attempts, receipts>>
  BY DEF AdvanceDraft
<1>4. drafts'[Draft].state = s /\ drafts'[Draft].revision = r /\ drafts'[Draft].digest = c
  <2>1. drafts[Draft] \in DraftRow
    BY OneDraft, RowsAreTyped DEF AdvanceDraft, MayAdvance, ProtocolInv, IndInv
  <2>2. drafts'[Draft] = [AdvancedRow(Draft, s, r, c, b) EXCEPT !.attempt = a]
    BY OneDraft DEF AdvanceDraft, ProtocolInv, IndInv, TypeOK
  <2> QED BY <2>1, <2>2 DEF AdvancedRow, DraftRow
<1>5. s # "AWAITING_AUTHORIZATION"
  BY DEF ObservedStates, OutcomeStates
<1>6. RowsPrepared'
  BY <1>2, <1>3, <1>4, <1>5 DEF ProtocolInv, RowsPrepared, Prepared, TimeGoesOn, Exists
<1> QED BY <1>1, <1>2, <1>3, <1>6, SuccessStays DEF ProtocolInv

LEMMA ReserveCall ==
  ASSUME ProtocolInv, UNCHANGED serviceVars, NEW g \in Grants, NEW a \in Attempts, NEW r, NEW c,
         Prepared(r, c), ReserveGrantAndStartAttempt(g, a, Draft, r, c)
  PROVE  [Next]_vars /\ RowsPrepared' /\ SuccessReceiptIsReal' /\ AttemptOf(a, Draft, c)'
<1>1. [Next]_vars
  BY OneDraft, PreparedIsTyped DEF Next, GrantStep
<1>2. RowsStay /\ TimeGoesOn
  BY <1>1, StoreKeepsRows, ServiceStands DEF ProtocolInv, IndInv
<1>3. receipts' = receipts
  BY DEF ReserveGrantAndStartAttempt
<1>4. Exists(drafts[Draft]) /\ drafts[Draft] \in DraftRow
  <2>1. grants[g].draft = Draft /\ Exists(drafts[grants[g].draft])
    BY DEF ReserveGrantAndStartAttempt, MayReserve, GrantMatchesRequest, SameCommand,
           ReservationAllowed
  <2> QED BY <2>1, OneDraft, RowsAreTyped DEF ProtocolInv, IndInv
<1>5. /\ drafts'[Draft].state = "COMMITTING" /\ drafts'[Draft].revision = drafts[Draft].revision
      /\ drafts'[Draft].digest = drafts[Draft].digest
  <2>1. drafts'[Draft] = Committing(Draft, g, a)
    BY OneDraft DEF ReserveGrantAndStartAttempt, ProtocolInv, IndInv, TypeOK
  <2> QED BY <1>4, <2>1 DEF Committing, DraftRow
<1>6. /\ attempts'[a] = [state |-> "STARTED", draft |-> Draft, revision |-> r, digest |-> c,
                         grant |-> g, handle |-> None]
      /\ \A x \in Attempts : x # a => attempts'[x] = attempts[x]
  BY DEF ReserveGrantAndStartAttempt, ProtocolInv, IndInv, TypeOK
<1>7. AttemptOf(a, Draft, c)'
  BY <1>6 DEF AttemptOf, Exists
<1>8. RowsPrepared'
  BY <1>2, <1>4, <1>5, <1>6 DEF ProtocolInv, RowsPrepared, Prepared, TimeGoesOn, Exists
<1> QED BY <1>1, <1>2, <1>3, <1>7, <1>8, SuccessStays DEF ProtocolInv

LEMMA IssueKeeps ==
  ASSUME ProtocolInv, NEW p \in Procs, Issue(p)
  PROVE  ProtocolInv' /\ [Next]_vars
<1> PICK j : j = job[p]
  OBVIOUS
<1>1. JobFits("issue", j) /\ "issue" \in Approving
  BY DEF Issue, ProtocolInv, JobsFit, Approving
<1>2. j \in JobRow /\ j.card \in Cards /\ Prepared(j.revision, j.digest)
  BY <1>1 DEF JobFits
<1>3. ASSUME NEW g \in Grants PROVE JobFits("preflight", [j EXCEPT !.grant = g])
  BY <1>2 DEF JobFits, JobRow, Approving, Submitting, Pcs
<1>4. CASE UNCHANGED storeVars /\ Finish(p, "stopped")
  BY <1>4, FinishMoves DEF Issue, Resting, Ends, storeVars
<1>5. CASE UNCHANGED storeVars /\ \E g \in Grants : Carry(p, "preflight", [j EXCEPT !.grant = g])
  BY <1>3, <1>5, MovesOn DEF Issue, storeVars
<1>6. ASSUME NEW g \in Grants, IssueGrant(g, Draft, j.revision, j.digest, j.card),
             Carry(p, "preflight", [j EXCEPT !.grant = g])
      PROVE  ProtocolInv' /\ [Next]_vars
  <2>1. [Next]_vars /\ RowsPrepared' /\ SuccessReceiptIsReal'
    BY <1>2, <1>6, PreparedIsTyped, GrantCall DEF Issue
  <2> QED BY <1>3, <1>6, <2>1, GoesOn DEF Issue
<1> QED BY <1>4, <1>5, <1>6 DEF Issue

-----------------------------------------------------------------------------
(* Commitment *)

LEMMA PreflightKeeps ==
  ASSUME ProtocolInv, NEW p \in Procs, Preflight(p)
  PROVE  ProtocolInv'
<1> PICK j : j = job[p]
  OBVIOUS
<1>1. JobFits("preflight", j) /\ j \in JobRow /\ JobsFit
  BY DEF Preflight, ProtocolInv, JobsFit, JobFits
<1>2. JobFits("reserve", j) /\ JobFits("void", j)
  BY <1>1 DEF JobFits, Approving, Submitting, Pcs
<1>3. CASE Goto(p, "reserve") \/ Goto(p, "void")
  BY <1>1, <1>2, <1>3, GotoCarries, MovesOn DEF Preflight
<1>4. CASE version # j.digest /\ Carry(p, "reconfirm", [j EXCEPT !.digest = version])
  <2>1. Prepared(j.revision, j.digest) /\ j.card \in Cards /\ j.grant \in Grants
    BY <1>1 DEF JobFits, Approving
  <2>2. version \in Digests /\ Prepared(j.revision, version) /\ j.revision < version
    BY <1>4, <2>1, Bounds DEF Prepared, ProtocolInv, RequestsAuthorized
  <2>3. JobFits("reconfirm", [j EXCEPT !.digest = version])
    BY <1>1, <2>1, <2>2 DEF JobFits, JobRow, Approving, Submitting, Pcs
  <2> QED BY <1>4, <2>3, MovesOn DEF Preflight
<1> QED BY <1>3, <1>4 DEF Preflight

LEMMA VoidKeeps ==
  ASSUME ProtocolInv, NEW p \in Procs, Void(p)
  PROVE  ProtocolInv' /\ [Next]_vars
<1>1. job[p].grant \in Grants
  BY DEF Void, ProtocolInv, JobsFit, JobFits, Approving
<1>2. CASE RevokeGrant(job[p].grant)
  <2>1. [Next]_vars /\ RowsPrepared' /\ SuccessReceiptIsReal'
    BY <1>1, <1>2, GrantCall DEF Void
  <2> QED BY <2>1, FinishActs DEF Void, Resting, Ends
<1>3. CASE UNCHANGED storeVars
  BY <1>3, FinishMoves DEF Void, Resting, Ends, storeVars
<1> QED BY <1>2, <1>3 DEF Void, Revoke

LEMMA ReconfirmKeeps ==
  ASSUME ProtocolInv, NEW p \in Procs, Reconfirm(p)
  PROVE  ProtocolInv' /\ [Next]_vars
<1> PICK j : j = job[p]
  OBVIOUS
<1>1. JobFits("reconfirm", j) /\ JobsFit
  BY DEF Reconfirm, ProtocolInv, JobsFit
<1>2. JobFits("represent", j) /\ j.grant \in Grants
  BY <1>1 DEF JobFits, Approving, Submitting, Pcs
<1>3. Carry(p, "represent", j)
  BY <1>1, GotoCarries DEF Reconfirm
<1>4. CASE RevokeGrant(j.grant)
  <2>1. [Next]_vars /\ RowsPrepared' /\ SuccessReceiptIsReal'
    BY <1>2, <1>4, GrantCall DEF Reconfirm
  <2> QED BY <1>2, <1>3, <2>1, GoesOn DEF Reconfirm
<1>5. CASE UNCHANGED storeVars
  BY <1>2, <1>3, <1>5, MovesOn DEF Reconfirm, storeVars
<1> QED BY <1>4, <1>5 DEF Reconfirm, Revoke

LEMMA RepresentKeeps ==
  ASSUME ProtocolInv, NEW p \in Procs, Represent(p)
  PROVE  ProtocolInv' /\ [Next]_vars
<1> PICK j : j = job[p]
  OBVIOUS
<1>1. JobFits("represent", j)
  BY DEF Represent, ProtocolInv, JobsFit
<1>2. Prepared(j.revision + 1, j.digest)
  BY <1>1, PreparedIsTyped DEF JobFits, Approving, Prepared
<1>3. CASE \E k \in UnusedCards : CreateDraft(Draft, CardRow(j.revision + 1, j.digest, k))
  <2>1. PICK k \in Cards : CreateDraft(Draft, CardRow(j.revision + 1, j.digest, k))
    BY <1>3 DEF UnusedCards
  <2>2. [Next]_vars /\ RowsPrepared' /\ SuccessReceiptIsReal'
    BY <1>2, <2>1, CardCreated DEF Represent
  <2> QED BY <2>2, FinishActs DEF Represent, Resting, Ends
<1>4. CASE UNCHANGED storeVars
  BY <1>4, FinishMoves DEF Represent, Resting, Ends, storeVars
<1> QED BY <1>3, <1>4 DEF Represent, Try, TryCreate

LEMMA ReserveKeeps ==
  ASSUME ProtocolInv, NEW p \in Procs, Reserve(p)
  PROVE  ProtocolInv' /\ [Next]_vars
<1> PICK j : j = job[p]
  OBVIOUS
<1>1. JobFits("reserve", j) /\ j \in JobRow
  BY DEF Reserve, ProtocolInv, JobsFit, JobFits
<1>2. /\ j.card \in Cards /\ j.grant \in Grants /\ Prepared(j.revision, j.digest)
      /\ j.revision \in Revisions /\ j.digest \in Digests
  BY <1>1, PreparedIsTyped DEF JobFits, Approving
<1>3. ASSUME NEW a \in Attempts, AttemptOf(a, Draft, j.digest),
             Carry(p, "taken", [j EXCEPT !.attempt = a, !.result = attempts[a].state]),
             UNCHANGED storeVars
      PROVE  ProtocolInv' /\ [Next]_vars
  <2>1. attempts[a].state \in AttemptStates
    BY <1>3, RowsAreTyped DEF AttemptOf, ProtocolInv, IndInv, AttemptRow
  <2>2. JobFits("taken", [j EXCEPT !.attempt = a, !.result = attempts[a].state])
    BY <1>1, <1>2, <1>3, <2>1 DEF JobFits, JobRow, Approving, Submitting, Pcs
  <2> QED BY <1>3, <2>2, MovesOn DEF Reserve, storeVars
<1>4. ASSUME NEW a \in Attempts, Carry(p, "send", [j EXCEPT !.attempt = a]),
             ReserveGrantAndStartAttempt(j.grant, a, Draft, j.revision, j.digest)
      PROVE  ProtocolInv' /\ [Next]_vars
  <2>1. [Next]_vars /\ RowsPrepared' /\ SuccessReceiptIsReal' /\ AttemptOf(a, Draft, j.digest)'
    BY <1>2, <1>4, ReserveCall DEF Reserve
  <2>2. Prepared(j.revision, j.digest)'
    BY <1>2 DEF Reserve, serviceVars, Prepared
  <2>3. JobFits("send", [j EXCEPT !.attempt = a])'
    BY <1>1, <1>2, <2>1, <2>2 DEF JobFits, JobRow, Approving, Submitting, Pcs
  <2> QED BY <1>4, <2>1, <2>3, TurnActs DEF Reserve
<1>5. CASE /\ \/ RejectReservation(j.grant, Draft, j.revision, j.digest)
              \/ ExpireGrant(j.grant, Draft, j.revision, j.digest)
           /\ Finish(p, "unknown")
  <2>1. [Next]_vars /\ RowsPrepared' /\ SuccessReceiptIsReal'
    BY <1>2, <1>5, GrantCall DEF Reserve
  <2> QED BY <1>5, <2>1, FinishActs DEF Reserve, Resting, Ends
<1>6. CASE UNCHANGED storeVars /\ Finish(p, "unknown")
  BY <1>6, FinishMoves DEF Reserve, Resting, Ends, storeVars
<1> QED BY <1>3, <1>4, <1>5, <1>6 DEF Reserve

LEMMA TakenKeeps ==
  ASSUME ProtocolInv, NEW p \in Procs, Taken(p)
  PROVE  ProtocolInv'
<1> PICK j : j = job[p]
  OBVIOUS
<1>1. JobFits("taken", j) /\ j \in JobRow
  BY DEF Taken, ProtocolInv, JobsFit, JobFits
<1>2. /\ j.grant \in Grants /\ j.attempt \in Attempts /\ AttemptOf(j.attempt, Draft, j.digest)
      /\ Prepared(j.revision, j.digest)
  BY <1>1 DEF JobFits, Submitting
<1>3. PICK r \in ObservedStates : Carry(p, "advance", [j EXCEPT !.result = r])
                                    /\ (r = "COMMITTED" => Succeeded(j.attempt))
  BY DEF Taken, ObservedStates, OutcomeStates, Succeeded
<1>4. r = "COMMITTED" => j.digest \in done
  BY <1>2, <1>3 DEF ProtocolInv, SuccessReceiptIsReal, Succeeded, AttemptOf
<1>5. JobFits("advance", [j EXCEPT !.result = r])
  BY <1>1, <1>2, <1>4 DEF JobFits, JobRow, Approving, Submitting, Pcs
<1> QED BY <1>3, <1>5, MovesOn DEF Taken

-----------------------------------------------------------------------------
(* Submission and recovery *)

LEMMA SendKeeps ==
  ASSUME ProtocolInv, NEW p \in Procs, SendCommand(p)
  PROVE  ProtocolInv'
<1> PICK j : j = job[p]
  OBVIOUS
<1>1. JobFits("send", j) /\ j \in JobRow
  BY DEF SendCommand, ProtocolInv, JobsFit, JobFits
<1>2. /\ j.grant \in Grants /\ j.attempt \in Attempts /\ AttemptOf(j.attempt, Draft, j.digest)
      /\ Prepared(j.revision, j.digest) /\ j.digest \in Digests
  BY <1>1, PreparedIsTyped DEF JobFits, Submitting
<1>3. PICK i \in Calls : /\ call[i] = [state |-> "idle", cmd |-> None]
                         /\ call' = [call EXCEPT ![i] = [state |-> "sent", cmd |-> j.digest]]
                         /\ UNCHANGED <<version, open, done>>
                         /\ Carry(p, "wait", [j EXCEPT !.call = i])
  BY DEF SendCommand, Service!Send, Service!Idle, Service!order
<1>4. UNCHANGED vars /\ IndInv
  BY DEF SendCommand, storeVars, ProtocolInv
<1>5. IndInv' /\ RowsStay
  BY <1>4, InvStep, StoreKeepsRows DEF IndInv
<1>6. TimeGoesOn
  BY <1>3 DEF TimeGoesOn, ProtocolInv, RequestsAuthorized
<1>7. RowsPrepared' /\ SuccessReceiptIsReal' /\ EffectHasAttempt'
  BY <1>3, <1>4, <1>5, <1>6, PreparedStay, SuccessStays, KeysStay
     DEF ProtocolInv, vars, EffectHasAttempt
<1>8. JobsFit'
  <2>1. JobFits("wait", [j EXCEPT !.call = i])
    BY <1>1, <1>2 DEF JobFits, JobRow, Approving, Submitting, Pcs
  <2>2. JobFits("wait", [j EXCEPT !.call = i])'
    BY <1>5, <1>6, <2>1, FitsStay
  <2> QED BY <1>3, <1>5, <1>6, <2>2, JobsCarried DEF ProtocolInv
<1>9. RequestsAuthorized'
  <2>1. KeyTaken(Draft, j.digest)'
    BY <1>2, <1>5, KeysStay DEF KeyTaken
  <2> QED BY <1>2, <1>3, <1>5, <2>1, KeysStay DEF ProtocolInv, RequestsAuthorized
<1>10. CallsAwaited'
  <2>1. /\ pc'[p] = "wait" /\ job'[p].call = i /\ job'[p].digest = j.digest
        /\ \A q \in Procs : q # p => pc'[q] = pc[q] /\ job'[q] = job[q]
    BY <1>1, <1>3 DEF Carry, ProtocolInv, JobsFit, JobRow
  <2>2. call'[i].state = "sent" /\ call'[i].cmd = j.digest
    BY <1>3 DEF ProtocolInv, RequestsAuthorized
  <2>3. ASSUME NEW q \in Procs, q # p, pc[q] = "wait"
        PROVE  job[q].call # i /\ call'[job[q].call] = call[job[q].call]
    BY <1>3, <2>3 DEF ProtocolInv, CallsAwaited, JobsFit, JobFits
  <2> QED BY <2>1, <2>2, <2>3 DEF ProtocolInv, CallsAwaited
<1> QED BY <1>5, <1>7, <1>8, <1>9, <1>10 DEF ProtocolInv

\* The service acts, or a turn takes its answer; the requests still awaited stay what they are.
LEMMA ServiceActs ==
  ASSUME ProtocolInv, UNCHANGED storeVars, TimeGoesOn, JobsFit', RequestsAuthorized',
         EffectHasAttempt',
         \A q \in Procs : pc'[q] = "wait" =>
           /\ pc[q] = "wait" /\ job'[q] = job[q]
           /\ call'[job[q].call].state # "idle"
           /\ call'[job[q].call].cmd = call[job[q].call].cmd
  PROVE  ProtocolInv'
<1>1. UNCHANGED vars /\ IndInv
  BY DEF storeVars, ProtocolInv
<1>2. IndInv' /\ RowsStay
  BY <1>1, InvStep, StoreKeepsRows DEF IndInv
<1>3. RowsPrepared' /\ SuccessReceiptIsReal'
  BY <1>1, <1>2, PreparedStay, SuccessStays DEF ProtocolInv, vars
<1>4. CallsAwaited'
  BY DEF ProtocolInv, CallsAwaited
<1> QED BY <1>2, <1>3, <1>4 DEF ProtocolInv

LEMMA ReceiveKeeps ==
  ASSUME ProtocolInv, NEW p \in Procs, Receive(p)
  PROVE  ProtocolInv'
<1> PICK j : j = job[p]
  OBVIOUS
<1> PICK i : i = j.call
  OBVIOUS
<1>1. JobFits("wait", j) /\ j \in JobRow
  BY DEF Receive, ProtocolInv, JobsFit, JobFits
<1>2. /\ j.grant \in Grants /\ j.attempt \in Attempts /\ AttemptOf(j.attempt, Draft, j.digest)
      /\ Prepared(j.revision, j.digest) /\ i \in Calls
  BY <1>1 DEF JobFits, Submitting
<1>3. /\ pc[p] = "wait" /\ call' = [call EXCEPT ![i] = [state |-> "idle", cmd |-> None]]
      /\ UNCHANGED <<version, open, done>> /\ UNCHANGED vars
  BY DEF Receive, Service!Forget, Service!Idle, Service!order, storeVars
<1>4. PICK r \in ObservedStates : /\ Carry(p, "record", [j EXCEPT !.call = None, !.result = r])
                                  /\ r = "COMMITTED" => call[i].state = "ok"
  BY DEF Receive, ObservedStates, OutcomeStates
<1>5. r = "COMMITTED" => j.digest \in done
  BY <1>2, <1>3, <1>4 DEF ProtocolInv, CallsAwaited, RequestsAuthorized
<1>6. JobFits("record", [j EXCEPT !.call = None, !.result = r])
  BY <1>1, <1>2, <1>5 DEF JobFits, JobRow, Approving, Submitting, Pcs
<1>7. RowsStay /\ TimeGoesOn
  BY <1>3, StoreKeepsRows DEF ProtocolInv, IndInv, TimeGoesOn, RequestsAuthorized
<1>8. JobsFit'
  <2>1. JobFits("record", [j EXCEPT !.call = None, !.result = r])'
    BY <1>6, <1>7, FitsStay
  <2> QED BY <1>4, <1>7, <2>1, JobsCarried DEF ProtocolInv
<1>9. RequestsAuthorized' /\ EffectHasAttempt'
  BY <1>3, <1>7, KeysStay DEF ProtocolInv, RequestsAuthorized, EffectHasAttempt
<1>10. ASSUME NEW q \in Procs, pc'[q] = "wait"
       PROVE  /\ pc[q] = "wait" /\ job'[q] = job[q]
              /\ call'[job[q].call].state # "idle"
              /\ call'[job[q].call].cmd = call[job[q].call].cmd
  <2>1. q # p /\ pc[q] = "wait" /\ job'[q] = job[q]
    BY <1>4, <1>10 DEF Carry, ProtocolInv, JobsFit
  <2>2. job[q].call # i /\ job[q].call \in Calls
    BY <1>3, <2>1 DEF ProtocolInv, CallsAwaited, JobsFit, JobFits
  <2>3. call'[job[q].call] = call[job[q].call]
    BY <1>3, <2>2 DEF ProtocolInv, RequestsAuthorized
  <2> QED BY <2>1, <2>3 DEF ProtocolInv, CallsAwaited
<1> QED BY <1>3, <1>7, <1>8, <1>9, <1>10, ServiceActs DEF storeVars

LEMMA TimeOutKeeps ==
  ASSUME ProtocolInv, NEW p \in Procs, TimeOut(p)
  PROVE  ProtocolInv'
<1> PICK j : j = job[p]
  OBVIOUS
<1> PICK late : late = [j EXCEPT !.call = None, !.result = "SUBMISSION_UNKNOWN"]
  OBVIOUS
<1>1. JobFits("wait", j) /\ j \in JobRow
  BY DEF TimeOut, ProtocolInv, JobsFit, JobFits
<1>2. "SUBMISSION_UNKNOWN" \in ObservedStates
  BY DEF ObservedStates
<1>3. JobFits("mark", late)
  BY <1>1, <1>2 DEF JobFits, JobRow, Approving, Submitting, Pcs
<1> QED BY <1>3, MovesOn DEF TimeOut

LEMMA MarkKeeps ==
  ASSUME ProtocolInv, NEW p \in Procs, Mark(p)
  PROVE  ProtocolInv' /\ [Next]_vars
<1> PICK j : j = job[p]
  OBVIOUS
<1>1. JobFits("mark", j) /\ JobsFit
  BY DEF Mark, ProtocolInv, JobsFit
<1>2. JobFits("advance", j) /\ j.attempt \in Attempts
  BY <1>1 DEF JobFits, Approving, Submitting, Pcs
<1>3. Carry(p, "advance", j)
  BY <1>1, GotoCarries DEF Mark
<1>4. CASE TransitionAttempt(j.attempt, "SUBMISSION_UNKNOWN", None)
  <2>1. "SUBMISSION_UNKNOWN" \in AttemptStates \ {"STARTED"}
    BY DEF AttemptStates
  <2>2. [Next]_vars /\ RowsPrepared' /\ SuccessReceiptIsReal'
    BY <1>2, <1>4, <2>1, AttemptCall DEF Mark
  <2> QED BY <1>2, <1>3, <2>2, GoesOn DEF Mark
<1>5. CASE UNCHANGED storeVars
  BY <1>2, <1>3, <1>5, MovesOn DEF Mark, storeVars
<1> QED BY <1>4, <1>5 DEF Mark, Try, TryTransition

LEMMA RecordKeeps ==
  ASSUME ProtocolInv, NEW p \in Procs, Record(p)
  PROVE  ProtocolInv' /\ [Next]_vars
<1> PICK j : j = job[p]
  OBVIOUS
<1> PICK s : s = IF j.result = "COMMITTED" THEN "SUCCESS" ELSE "FAILED"
  OBVIOUS
<1>1. JobFits("record", j) /\ j \in JobRow
  BY DEF Record, ProtocolInv, JobsFit, JobFits
<1>2. /\ j.attempt \in Attempts /\ AttemptOf(j.attempt, Draft, j.digest)
      /\ j.result = "COMMITTED" => j.digest \in done
      /\ s \in ReceiptStates /\ p \in Handles
  BY <1>1, Bounds DEF JobFits, Submitting, ReceiptStates
<1>3. JobFits("advance", [j EXCEPT !.handle = p])
  BY <1>1 DEF JobFits, JobRow, Approving, Submitting, Pcs
<1>4. CASE RecordReceipt(j.attempt, Draft, s, p) /\ Carry(p, "advance", [j EXCEPT !.handle = p])
  <2>1. [Next]_vars /\ RowsPrepared' /\ SuccessReceiptIsReal'
    BY <1>2, <1>4, ReceiptCall DEF Record, AttemptOf
  <2> QED BY <1>3, <1>4, <2>1, GoesOn DEF Record
<1>5. CASE UNCHANGED storeVars /\ Carry(p, "advance", [j EXCEPT !.handle = p])
  BY <1>3, <1>5, MovesOn DEF Record, storeVars
<1>6. CASE UNCHANGED storeVars /\ Finish(p, "stopped")
  BY <1>6, FinishMoves DEF Record, Resting, Ends, storeVars
<1> QED BY <1>4, <1>5, <1>6 DEF Record

LEMMA AdvanceKeeps ==
  ASSUME ProtocolInv, NEW p \in Procs, Advance(p)
  PROVE  ProtocolInv' /\ [Next]_vars
<1> PICK j : j = job[p]
  OBVIOUS
<1>1. JobFits("advance", j) /\ JobsFit
  BY DEF Advance, ProtocolInv, JobsFit
<1>2. /\ j.attempt \in Attempts /\ j.result \in ObservedStates /\ Prepared(j.revision, j.digest)
      /\ JobFits("seal", j) /\ JobFits("settle", j)
  BY <1>1 DEF JobFits, Approving, Submitting, Pcs
<1>3. [Next]_vars /\ RowsPrepared' /\ SuccessReceiptIsReal'
  <2>1. CASE AdvanceDraft(Draft, j.result, j.revision, j.digest, j.attempt, TRUE)
    BY <1>2, <2>1, AdvanceCall DEF Advance
  <2>2. CASE AdvanceDraft(Draft, j.result, drafts[Draft].revision, drafts[Draft].digest,
                          j.attempt, FALSE)
    <3>1. Prepared(drafts[Draft].revision, drafts[Draft].digest)
      BY <2>2 DEF AdvanceDraft, MayAdvance, ProtocolInv, RowsPrepared
    <3> QED BY <1>2, <2>2, <3>1, AdvanceCall DEF Advance
  <2>3. CASE UNCHANGED storeVars
    BY <2>3, GrantsOnly DEF Advance, storeVars, vars
  <2> QED BY <2>1, <2>2, <2>3 DEF Advance, Try, TryAdvance
<1>4. CASE Goto(p, "seal") \/ Goto(p, "settle")
  BY <1>1, <1>2, <1>3, <1>4, GotoCarries, GoesOn DEF Advance
<1>5. CASE Finish(p, "unknown")
  BY <1>3, <1>5, FinishActs DEF Advance, Resting, Ends
<1> QED BY <1>3, <1>4, <1>5 DEF Advance

LEMMA SealKeeps ==
  ASSUME ProtocolInv, NEW p \in Procs, Seal(p)
  PROVE  ProtocolInv' /\ [Next]_vars
<1> PICK j : j = job[p]
  OBVIOUS
<1> PICK s : s = IF j.result = "COMMITTED" THEN "ACKED" ELSE j.result
  OBVIOUS
<1>1. JobFits("seal", j) /\ JobsFit /\ j \in JobRow
  BY DEF Seal, ProtocolInv, JobsFit, JobFits
<1>2. /\ j.attempt \in Attempts /\ j.handle \in Handles \cup {None} /\ JobFits("settle", j)
      /\ j.result \in ObservedStates
  BY <1>1, Bounds DEF JobFits, JobRow, Approving, Submitting, Pcs
<1>3. s \in AttemptStates \ {"STARTED"}
  BY <1>2 DEF AttemptStates, SealedAttemptStates, ObservedStates, OutcomeStates
<1>4. Carry(p, "settle", j)
  BY <1>1, GotoCarries DEF Seal
<1>5. CASE TransitionAttempt(j.attempt, s, j.handle)
  <2>1. [Next]_vars /\ RowsPrepared' /\ SuccessReceiptIsReal'
    BY <1>2, <1>3, <1>5, AttemptCall DEF Seal
  <2> QED BY <1>2, <1>4, <2>1, GoesOn DEF Seal
<1>6. CASE UNCHANGED storeVars
  BY <1>2, <1>4, <1>6, MovesOn DEF Seal, storeVars
<1> QED BY <1>5, <1>6 DEF Seal, Try, TryTransition

LEMMA SettleKeeps ==
  ASSUME ProtocolInv, NEW p \in Procs, Settle(p)
  PROVE  ProtocolInv' /\ [Next]_vars
<1> PICK j : j = job[p]
  OBVIOUS
<1> PICK end \in {"committed", "failed"} :
      end = IF j.result = "COMMITTED" THEN "committed" ELSE "failed"
  OBVIOUS
<1>1. JobFits("settle", j)
  BY DEF Settle, ProtocolInv, JobsFit
<1>2. /\ j.attempt \in Attempts /\ j.grant \in Grants
      /\ end = "committed" => job[p].digest \in done
  BY <1>1 DEF JobFits, Submitting
<1>3. end \in Resting /\ Finish(p, end)
  BY DEF Settle, Resting, Ends
<1>4. CASE ConsumeGrant(j.grant, j.attempt, j.handle) \/ RevokeGrant(j.grant)
  <2>1. [Next]_vars /\ RowsPrepared' /\ SuccessReceiptIsReal'
    BY <1>2, <1>4, GrantCall DEF Settle
  <2> QED BY <1>2, <1>3, <2>1, FinishActs DEF Settle
<1>5. CASE UNCHANGED storeVars
  BY <1>2, <1>3, <1>5, FinishMoves DEF Settle, storeVars
<1> QED BY <1>4, <1>5 DEF Settle, Try, TryConsume, Revoke

LEMMA PickKeeps ==
  ASSUME ProtocolInv, NEW p \in Procs, Pick(p)
  PROVE  ProtocolInv'
<1>1. PICK a \in Attempts :
        /\ attempts[a].state \in {"STARTED", "SUBMISSION_UNKNOWN"}
        /\ Carry(p, "recover", [NoJob EXCEPT !.revision = attempts[a].revision,
             !.digest = attempts[a].digest, !.grant = attempts[a].grant, !.attempt = a])
  BY DEF Pick, Listed
<1> PICK x : x = attempts[a]
  OBVIOUS
<1> PICK j : j = [NoJob EXCEPT !.revision = x.revision, !.digest = x.digest,
                               !.grant = x.grant, !.attempt = a]
  OBVIOUS
<1>2. Exists(x) /\ x \in AttemptRow
  BY <1>1, RowsAreTyped DEF Exists, ProtocolInv, IndInv
<1>3. x.revision \in 0 .. MaxRevision /\ x.digest \in Digests /\ x.grant \in Grants
  BY <1>2, BoundAssumption DEF AttemptRow, Revisions
<1>4. Prepared(x.revision, x.digest) /\ AttemptOf(a, Draft, x.digest)
  BY <1>2, OneDraft DEF ProtocolInv, RowsPrepared, AttemptOf, AttemptRow
<1>5. j \in JobRow
  BY <1>3 DEF NoJob, JobRow
<1>6. JobFits("recover", j)
  BY <1>3, <1>4, <1>5 DEF NoJob, JobFits, Approving, Submitting, Pcs
<1> QED BY <1>1, <1>6, MovesOn DEF Pick, Listed

LEMMA RecoverKeeps ==
  ASSUME ProtocolInv, NEW p \in Procs, Recover(p)
  PROVE  ProtocolInv' /\ [Next]_vars
<1> PICK j : j = job[p]
  OBVIOUS
<1>1. JobFits("recover", j) /\ JobsFit
  BY DEF Recover, ProtocolInv, JobsFit
<1>2. j.attempt \in Attempts /\ JobFits("send", j)
  BY <1>1 DEF JobFits, Approving, Submitting, Pcs
<1> PICK row : row = receipts[j.attempt]
  OBVIOUS
<1>3. CASE Exists(row) /\ UNCHANGED storeVars /\ Finish(p, "idle")
  BY <1>3, FinishMoves DEF Recover, Resting, storeVars
<1>4. CASE UNCHANGED storeVars /\ Goto(p, "send")
  BY <1>1, <1>2, <1>4, GotoCarries, MovesOn DEF Recover, storeVars
<1>5. ASSUME NEW s \in {"ACKED", "FAILED_FINAL"}, Exists(row), Finish(p, "idle"),
             TransitionAttempt(j.attempt, s, row.handle)
      PROVE  ProtocolInv' /\ [Next]_vars
  <2>1. row.handle \in Handles /\ s \in AttemptStates \ {"STARTED"}
    BY <1>2, <1>5, RowsAreTyped DEF ProtocolInv, IndInv, ReceiptRow, AttemptStates,
       SealedAttemptStates
  <2>2. [Next]_vars /\ RowsPrepared' /\ SuccessReceiptIsReal'
    BY <1>2, <1>5, <2>1, AttemptCall DEF Recover
  <2> QED BY <1>5, <2>2, FinishActs DEF Recover, Resting
<1> QED BY <1>3, <1>4, <1>5 DEF Recover, Try, TryTransition

LEMMA CrashKeeps ==
  ASSUME ProtocolInv, NEW p \in Procs, Crash(p)
  PROVE  ProtocolInv'
  BY FinishMoves DEF Crash, Resting, Ends

-----------------------------------------------------------------------------
(* The Business Service and the rest of the world *)

\* No turn acts: what each has in hand still fits.
LEMMA TurnsStand ==
  ASSUME ProtocolInv, UNCHANGED <<storeVars, pc, job>>, TimeGoesOn
  PROVE  RowsStay /\ JobsFit'
<1>1. RowsStay
  BY StoreKeepsRows DEF ProtocolInv, IndInv, storeVars
<1>2. ASSUME NEW q \in Procs PROVE JobFits(pc[q], job[q])'
  <2> PICK s, j : s = pc[q] /\ j = job[q]
    OBVIOUS
  <2>1. JobFits(s, j)'
    BY <1>1, FitsStay DEF ProtocolInv, JobsFit
  <2> QED BY <2>1 DEF JobFits
<1>3. pc' \in [Procs -> Pcs] /\ job' \in [Procs -> JobRow]
  BY DEF ProtocolInv, JobsFit
<1> QED BY <1>1, <1>2, <1>3 DEF JobsFit

(* The commands of this protocol open applications, and leave the order as it *)
(* is (refund_decision).                                                      *)
LEMMA Applications ==
  ASSUME NEW c \in Digests
  PROVE  Service!Acceptable(c) <=> version = c /\ open = {}
<1>1. Service!Eligible["apply"] = {"signed"}
  BY DEF Service!Eligible
<1> QED BY <1>1 DEF Service!Acceptable

LEMMA ApplicationAccepted ==
  ASSUME NEW i \in Calls, Service!Accept(i), call[i].cmd \in Digests
  PROVE  /\ version = call[i].cmd /\ open = {}
         /\ version' = version /\ done' = done \cup {call[i].cmd}
  BY Applications DEF Service!Accept

LEMMA ServeKeeps ==
  ASSUME ProtocolInv, NEW i \in Calls, Serve(i) \/ ServeOverlapping(i)
  PROVE  ProtocolInv'
<1>1. /\ call[i].state = "sent" /\ call[i].cmd \in Digests /\ KeyTaken(Draft, call[i].cmd)
      /\ UNCHANGED <<version, storeVars, pc, job>>
  <2>1. call[i].state = "sent" /\ UNCHANGED <<storeVars, pc, job>>
    BY DEF Serve, ServeOverlapping, ServerError, Service!Accept, Service!Replay, Service!Refuse,
       Service!Lose
  <2>2. KeyTaken(Draft, call[i].cmd)
    BY <2>1 DEF ProtocolInv, RequestsAuthorized
  <2>3. call[i].cmd \in Digests
    BY <2>2, RowsAreTyped DEF KeyTaken, AttemptOf, AttemptRow, ProtocolInv, IndInv
  <2>4. version' = version
    BY <2>3, ApplicationAccepted
       DEF Serve, ServeOverlapping, ServerError, Service!Replay, Service!Refuse, Service!Lose,
           Service!order
  <2> QED BY <2>1, <2>2, <2>3, <2>4
<1>2. /\ done \subseteq done' /\ done' \subseteq done \cup {call[i].cmd}
      /\ call' \in [Calls -> [state : {"idle", "sent", "ok", "refused", "lost"},
                              cmd : Digests \cup {None}]]
      /\ \A k \in Calls : /\ call'[k].cmd = call[k].cmd
                          /\ call'[k].state = "idle" <=> call[k].state = "idle"
                          /\ call'[k].state = "ok" => call'[k].cmd \in done'
  <2>1. CASE Service!Accept(i)
    <3>1. /\ done' = done \cup {call[i].cmd} /\ call'[i] = [call[i] EXCEPT !.state = "ok"]
          /\ call' = [call EXCEPT ![i] = [call[i] EXCEPT !.state = "ok"]]
      BY <2>1 DEF Service!Accept, Service!Answer, ProtocolInv, RequestsAuthorized
    <3> QED BY <1>1, <3>1 DEF ProtocolInv, RequestsAuthorized
  <2>2. CASE Service!Replay(i)
    BY <2>2 DEF Service!Replay, Service!Answer, ProtocolInv, RequestsAuthorized
  <2>3. CASE Service!Refuse(i)
    BY <2>3 DEF Service!Refuse, Service!Answer, ProtocolInv, RequestsAuthorized
  <2>4. CASE ServerError(i)
    BY <2>4 DEF ServerError, Service!Lose, Service!Answer, ProtocolInv, RequestsAuthorized
  <2>5. CASE ServeOverlapping(i)
    <3> DEFINE same == {j \in Calls \ {i} : call[j] = [state |-> "sent", cmd |-> call[i].cmd]}
    <3>1. PICK refused \in SUBSET same \ {{}} :
            /\ call' = [k \in Calls |-> CASE k = i       -> [call[i] EXCEPT !.state = "ok"]
                                          [] k \in refused -> [call[k] EXCEPT !.state = "refused"]
                                          [] OTHER       -> call[k]]
            /\ done' = done \cup {call[i].cmd}
      BY <2>5 DEF ServeOverlapping
    <3>2. \A k \in refused : k \in Calls /\ k # i /\ call[k].state = "sent"
      OBVIOUS
    <3>3. /\ call'[i] = [call[i] EXCEPT !.state = "ok"]
          /\ \A k \in refused : call'[k] = [call[k] EXCEPT !.state = "refused"]
          /\ \A k \in Calls : k # i /\ k \notin refused => call'[k] = call[k]
      BY <3>1, <3>2
    <3>4. DOMAIN call' = Calls /\ call' = [k \in Calls |-> call'[k]]
      BY <3>1
    <3> HIDE DEF same
    <3>5. done \subseteq done' /\ done' \subseteq done \cup {call[i].cmd} /\ call[i].cmd \in done'
      BY <3>1
    <3>6. ASSUME NEW k \in Calls
          PROVE
            /\ call'[k] \in [state : {"idle", "sent", "ok", "refused", "lost"},
                            cmd : Digests \cup {None}]
            /\ call'[k].cmd = call[k].cmd
            /\ call'[k].state = "idle" <=> call[k].state = "idle"
            /\ call'[k].state = "ok" => call'[k].cmd \in done'
      <4>1. /\ call[k] \in [state : {"idle", "sent", "ok", "refused", "lost"},
                           cmd : Digests \cup {None}]
            /\ call[k].state = "ok" => call[k].cmd \in done
        BY DEF ProtocolInv, RequestsAuthorized
      <4>2. CASE k = i
        BY <1>1, <3>3, <3>5, <4>1, <4>2
      <4>3. CASE k # i /\ k \in refused
        <5>1. call'[k] = [call[k] EXCEPT !.state = "refused"] /\ call[k].state = "sent"
          BY <3>2, <3>3, <4>3
        <5> QED BY <4>1, <5>1
      <4>4. CASE k # i /\ k \notin refused
        BY <3>3, <3>5, <4>1, <4>4
      <4> QED BY <4>2, <4>3, <4>4
    <3> QED BY <3>4, <3>5, <3>6
  <2> QED BY <2>1, <2>2, <2>3, <2>4, <2>5 DEF Serve
<1>3. TimeGoesOn
  BY <1>1, <1>2 DEF TimeGoesOn, ProtocolInv, RequestsAuthorized
<1>4. RowsStay /\ JobsFit'
  BY <1>1, <1>3, TurnsStand
<1>5. EffectHasAttempt'
  BY <1>1, <1>2, <1>4, KeysStay DEF ProtocolInv, EffectHasAttempt
<1>6. RequestsAuthorized'
  BY <1>1, <1>2, <1>4, KeysStay DEF ProtocolInv, RequestsAuthorized
<1>7. ASSUME NEW q \in Procs, pc'[q] = "wait"
      PROVE  /\ pc[q] = "wait" /\ job'[q] = job[q]
             /\ call'[job[q].call].state # "idle"
             /\ call'[job[q].call].cmd = call[job[q].call].cmd
  BY <1>1, <1>2, <1>7 DEF ProtocolInv, CallsAwaited, JobsFit, JobFits
<1> QED BY <1>1, <1>3, <1>4, <1>5, <1>6, <1>7, ServiceActs

LEMMA AbandonKeeps ==
  ASSUME ProtocolInv, NEW i \in Calls, Abandon(i)
  PROVE  ProtocolInv'
<1>1. /\ call' = [call EXCEPT ![i] = [state |-> "idle", cmd |-> None]]
      /\ UNCHANGED <<version, open, done, storeVars, pc, job>>
  BY DEF Abandon, Service!Forget, Service!Idle, Service!order
<1>2. TimeGoesOn
  BY <1>1 DEF TimeGoesOn, ProtocolInv, RequestsAuthorized
<1>3. RowsStay /\ JobsFit'
  BY <1>1, <1>2, TurnsStand
<1>4. EffectHasAttempt' /\ RequestsAuthorized'
  BY <1>1, <1>3, KeysStay DEF ProtocolInv, EffectHasAttempt, RequestsAuthorized
<1>5. ASSUME NEW q \in Procs, pc'[q] = "wait"
      PROVE  /\ pc[q] = "wait" /\ job'[q] = job[q]
             /\ call'[job[q].call].state # "idle"
             /\ call'[job[q].call].cmd = call[job[q].call].cmd
  <2>1. pc[q] = "wait" /\ job[q].call \in Calls /\ job[q].call # i
    BY <1>1, <1>5 DEF Abandon, WaitingCalls, ProtocolInv, JobsFit, JobFits
  <2> QED BY <1>1, <2>1 DEF ProtocolInv, CallsAwaited, RequestsAuthorized
<1> QED BY <1>1, <1>2, <1>3, <1>4, <1>5, ServiceActs

LEMMA OrderKeeps ==
  ASSUME ProtocolInv, Order
  PROVE  ProtocolInv'
<1>1. UNCHANGED <<done, call, storeVars, pc, job>>
  BY DEF Order, Service!TouchOrder, Service!ApplyElsewhere, Service!CloseApplications, Service!order
<1>2. version' \in 1 .. MaxOrderVersion /\ version <= version'
  BY Bounds DEF Order, Service!TouchOrder, Service!ApplyElsewhere,
     Service!CloseApplications, Service!order, ProtocolInv, RequestsAuthorized
<1>3. TimeGoesOn
  BY <1>1, <1>2 DEF TimeGoesOn, ProtocolInv, RequestsAuthorized
<1>4. RowsStay /\ JobsFit'
  BY <1>1, <1>3, TurnsStand
<1>5. EffectHasAttempt' /\ RequestsAuthorized'
  BY <1>1, <1>2, <1>4, KeysStay DEF ProtocolInv, EffectHasAttempt, RequestsAuthorized
<1>6. \A q \in Procs : pc'[q] = "wait" =>
        /\ pc[q] = "wait" /\ job'[q] = job[q]
        /\ call'[job[q].call].state # "idle"
        /\ call'[job[q].call].cmd = call[job[q].call].cmd
  BY <1>1 DEF ProtocolInv, CallsAwaited
<1> QED BY <1>1, <1>3, <1>4, <1>5, <1>6, ServiceActs

-----------------------------------------------------------------------------
(* The protocol *)

LEMMA ProtocolBegins == ProtocolInit => ProtocolInv
<1> SUFFICES ASSUME ProtocolInit PROVE ProtocolInv
  OBVIOUS
<1>1. IndInv
  BY InitInv DEF ProtocolInit
<1>2. /\ version = 1 /\ done = {} /\ call = [i \in Calls |-> [state |-> "idle", cmd |-> None]]
      /\ pc = [p \in Procs |-> "idle"] /\ job = [p \in Procs |-> NoJob]
      /\ \A d \in Drafts : drafts[d] = Absent
      /\ \A a \in Attempts : attempts[a] = Absent /\ receipts[a] = Absent
  BY DEF ProtocolInit, Init, Service!Init, Service!Idle
<1>3. JobsFit
  <2>1. NoJob \in JobRow /\ "idle" \in Pcs
    BY Bounds DEF NoJob, JobRow, Pcs, Resting
  <2>2. JobFits("idle", NoJob)
    BY <2>1 DEF JobFits, Approving, Submitting
  <2> QED BY <1>2, <2>1, <2>2 DEF JobsFit
<1>4. CallsAwaited
  BY <1>2 DEF CallsAwaited
<1>5. RowsPrepared /\ SuccessReceiptIsReal
  BY <1>2, OneDraft DEF RowsPrepared, SuccessReceiptIsReal, Exists, Absent
<1>6. RequestsAuthorized /\ EffectHasAttempt
  <2>1. version \in 1 .. MaxOrderVersion
    BY <1>2, Bounds, ProtocolAssumption
  <2> QED BY <1>2, <2>1 DEF RequestsAuthorized, EffectHasAttempt
<1> QED BY <1>1, <1>3, <1>4, <1>5, <1>6 DEF ProtocolInv

LEMMA ProtocolStep ==
  ASSUME ProtocolInv, [ProtocolNext]_protocolVars
  PROVE  ProtocolInv' /\ [Next]_vars
<1>1. CASE PresentCard
  BY <1>1, PresentCardKeeps
<1>2. ASSUME NEW w \in Workers, Approve(w) \/ WorkerStep(w)
      PROVE  ProtocolInv' /\ [Next]_vars
  <2> w \in Procs
    BY DEF Procs
  <2>1. CASE Approve(w) \/ Preflight(w) \/ Taken(w) \/ SendCommand(w)
    <3>1. UNCHANGED vars
      BY <2>1 DEF Approve, Preflight, Taken, SendCommand, storeVars
    <3> QED BY <2>1, <3>1, ApproveKeeps, PreflightKeeps, TakenKeeps, SendKeeps
  <2>2. CASE \/ PersistAuthority(w) \/ Issue(w) \/ Void(w) \/ Reconfirm(w)
             \/ Represent(w) \/ Reserve(w)
    BY <2>2, PersistKeeps, IssueKeeps, VoidKeeps, ReconfirmKeeps, RepresentKeeps, ReserveKeeps
  <2>3. CASE Mark(w) \/ Record(w) \/ Advance(w) \/ Seal(w) \/ Settle(w)
    BY <2>3, MarkKeeps, RecordKeeps, AdvanceKeeps, SealKeeps, SettleKeeps
  <2> QED BY <1>2, <2>1, <2>2, <2>3 DEF WorkerStep, Submission
<1>3. ASSUME NEW r \in Reconcilers, Pick(r) \/ ReconcilerStep(r)
      PROVE  ProtocolInv' /\ [Next]_vars
  <2> r \in Procs
    BY DEF Procs
  <2>1. CASE Pick(r) \/ SendCommand(r)
    <3>1. UNCHANGED vars
      BY <2>1 DEF Pick, Listed, SendCommand, storeVars
    <3> QED BY <2>1, <3>1, PickKeeps, SendKeeps
  <2>2. CASE Recover(r)
    BY <2>2, RecoverKeeps
  <2>3. CASE Mark(r) \/ Record(r) \/ Advance(r) \/ Seal(r) \/ Settle(r)
    BY <2>3, MarkKeeps, RecordKeeps, AdvanceKeeps, SealKeeps, SettleKeeps
  <2> QED BY <1>3, <2>1, <2>2, <2>3 DEF ReconcilerStep, Submission
<1>4. ASSUME NEW p \in Procs, Receive(p) \/ TimeOut(p) \/ Crash(p)
      PROVE  ProtocolInv' /\ [Next]_vars
  <2>1. UNCHANGED vars
    BY <1>4 DEF Receive, TimeOut, Crash, storeVars
  <2> QED BY <1>4, <2>1, ReceiveKeeps, TimeOutKeeps, CrashKeeps
<1>5. ASSUME NEW i \in Calls, ServiceStep(i)
      PROVE  ProtocolInv' /\ [Next]_vars
  <2>1. UNCHANGED vars
    BY <1>5 DEF ServiceStep, Serve, ServeOverlapping, Abandon, storeVars
  <2> QED BY <1>5, <2>1, ServeKeeps, AbandonKeeps DEF ServiceStep
<1>6. CASE Order
  <2>1. UNCHANGED vars
    BY <1>6 DEF Order, storeVars
  <2> QED BY <1>6, <2>1, OrderKeeps
<1>7. CASE UNCHANGED protocolVars
  <2>1. UNCHANGED <<storeVars, pc, job, version, open, done, call>> /\ UNCHANGED vars
    BY <1>7 DEF protocolVars, serviceVars, storeVars
  <2>2. TimeGoesOn
    BY <2>1 DEF TimeGoesOn, ProtocolInv, RequestsAuthorized
  <2>3. RowsStay /\ JobsFit'
    BY <2>1, <2>2, TurnsStand
  <2>4. EffectHasAttempt' /\ RequestsAuthorized'
    BY <2>1, <2>3, KeysStay DEF ProtocolInv, EffectHasAttempt, RequestsAuthorized
  <2>5. \A q \in Procs : pc'[q] = "wait" =>
          /\ pc[q] = "wait" /\ job'[q] = job[q]
          /\ call'[job[q].call].state # "idle"
          /\ call'[job[q].call].cmd = call[job[q].call].cmd
    BY <2>1 DEF ProtocolInv, CallsAwaited
  <2> QED BY <2>1, <2>2, <2>3, <2>4, <2>5, ServiceActs
<1> QED BY <1>1, <1>2, <1>3, <1>4, <1>5, <1>6, <1>7 DEF ProtocolNext

(* The inductive invariant holds in every state of the protocol, whatever    *)
(* turns overlap, die or time out, and in every setting.                     *)
THEOREM ProtocolInvariance == ProtocolSpec => []ProtocolInv
<1>1. ProtocolInv /\ [ProtocolNext]_protocolVars => ProtocolInv'
  BY ProtocolStep
<1> QED BY <1>1, ProtocolBegins, PTL DEF ProtocolSpec

(* Turns and reconcilers use the transaction repository within its           *)
(* contract: every step of the protocol is a step of TransactionStore or     *)
(* leaves its rows alone, so what is proved of the repository holds of it.   *)
THEOREM ProtocolUsesStore == ProtocolSpec => Spec
<1>1. ProtocolInit => Init
  BY DEF ProtocolInit
<1>2. ProtocolInv /\ [ProtocolNext]_protocolVars => [Next]_vars
  BY ProtocolStep
<1> QED BY <1>1, <1>2, ProtocolInvariance, PTL DEF ProtocolSpec, Spec

(* Turns and reconcilers together implement the submission ledger: seen      *)
(* through its Receipts, a Draft submits one command at a time, each at most *)
(* once, and none after a success (reserve_grant_and_start_attempt).         *)
THEOREM ProtocolImplementsLedger == ProtocolSpec => ImplementsSubmissionLedger
  BY ProtocolUsesStore, Refinement

ServiceState == <<version, open, done, call>>

\* A step on SQLite as the service sees it.
LEMMA ServiceSees ==
  ASSUME ProtocolInv, [ProtocolNext]_protocolVars, setting.database = "sqlite"
  PROVE  [Service!Next]_ServiceState
<1>1. ASSUME NEW p \in Procs, Approve(p) \/ WorkerStep(p) \/ Pick(p) \/ ReconcilerStep(p)
                              \/ TimeOut(p) \/ Crash(p)
      PROVE  [Service!Next]_ServiceState
  <2>1. CASE SendCommand(p)
    <3>1. job[p].digest \in Digests
      BY <2>1, PreparedIsTyped DEF SendCommand, ProtocolInv, JobsFit, JobFits, Submitting
    <3> QED BY <2>1, <3>1 DEF SendCommand, Service!Next
  <2>2. CASE ~SendCommand(p)
    BY <1>1, <2>2 DEF Approve, WorkerStep, PersistAuthority, Issue, Preflight, Void, Reconfirm,
       Represent, Reserve, Taken, Submission, Mark, Record, Advance, Seal, Settle, Pick, Listed,
       ReconcilerStep, Recover, TimeOut, Crash, ServiceState, serviceVars
  <2> QED BY <2>1, <2>2
<1>2. ASSUME NEW p \in Procs, Receive(p)
      PROVE  [Service!Next]_ServiceState
  <2>1. job[p].call \in Calls
    BY <1>2 DEF Receive, ProtocolInv, JobsFit, JobFits
  <2> QED BY <1>2, <2>1 DEF Receive, Service!Next
<1>3. ASSUME NEW i \in Calls, ServiceStep(i)
      PROVE  [Service!Next]_ServiceState
  BY <1>3 DEF ServiceStep, Serve, ServerError, ServeOverlapping, Abandon, Service!Next
<1>4. CASE Order
  BY <1>4 DEF Order, Service!Next
<1>5. CASE PresentCard \/ UNCHANGED protocolVars
  BY <1>5 DEF PresentCard, protocolVars, serviceVars, ServiceState
<1> QED BY <1>1, <1>2, <1>3, <1>4, <1>5 DEF ProtocolNext, Procs

(* On SQLite the turns use the Business Service within its contract: each of *)
(* their steps, and each of the service's own, is one of CommandService or   *)
(* leaves it alone (BusinessServiceClient._request, _idempotent).            *)
THEOREM ProtocolUsesService ==
  ProtocolSpec => Service!Init /\ [][setting.database = "sqlite" => Service!Next]_ServiceState
<1>1. ProtocolInit => Service!Init
  BY DEF ProtocolInit
<1>2. ProtocolInv /\ [ProtocolNext]_protocolVars
        => [setting.database = "sqlite" => Service!Next]_ServiceState
  BY ServiceSees
<1> QED BY <1>1, <1>2, ProtocolInvariance, PTL DEF ProtocolSpec

(* However turns of one conversation overlap, a Draft never has two          *)
(* submissions whose outcome is unknown (commit_action_node).                *)
THEOREM ProtocolKeepsOneOpen == ProtocolSpec => []AtMostOneOpenAttempt
  BY ProtocolUsesStore, OneOpenAttempt, PTL

(* Whatever turns, reconcilers and late requests do, every command of the    *)
(* Business Service that took effect was sent for an Attempt that the        *)
(* repository holds for it (commit_action_node, reconcile_attempts).         *)
THEOREM EffectsAreAuthorized == ProtocolSpec => []EffectHasAttempt
<1>1. ProtocolInv => EffectHasAttempt
  BY DEF ProtocolInv
<1> QED BY <1>1, ProtocolInvariance, PTL

(* A SUCCESS Receipt is only ever recorded for a command that took effect,   *)
(* on both databases and without the lease (record_transaction_receipt).     *)
THEOREM SuccessReceiptsAreReal == ProtocolSpec => []SuccessReceiptIsReal
<1>1. ProtocolInv => SuccessReceiptIsReal
  BY DEF ProtocolInv
<1> QED BY <1>1, ProtocolInvariance, PTL

(* The values of the state, and that two turns never wait on one request.    *)
THEOREM ProtocolTypeCorrect == ProtocolSpec => []ProtocolTypeOK
<1>1. ProtocolInv => ProtocolTypeOK
  BY DEF ProtocolInv, IndInv, JobsFit, JobFits, CallsAwaited, ProtocolTypeOK
<1> QED BY <1>1, ProtocolInvariance, PTL

-----------------------------------------------------------------------------
(* Refusals *)

StaysRefused(c) == c \notin done' /\ (version' # c \/ open' # {})

\* A turn step that neither takes an answer nor records one leaves refusals as they are.
LEMMA TurnKeepsRefusals ==
  ASSUME ProtocolInv, [Next]_vars, FirmRefusals, RefusalsStand, UNCHANGED <<serviceVars, receipts>>,
         NEW p \in Procs, NEW s, s # "record", NEW j, Carry(p, s, j)
  PROVE  RefusalsStand'
<1>1. RowsStay
  BY StoreKeepsRows DEF ProtocolInv, IndInv
<1>2. UNCHANGED <<setting, version, open, done, call>>
  BY DEF serviceVars
<1>3. \A c : RefusedForGood(c) => StaysRefused(c)
  BY <1>2 DEF RefusedForGood, StaysRefused
<1>4. \A i \in Calls : call'[i].state \in {"refused", "lost"} => StaysRefused(call'[i].cmd)
  BY <1>2, <1>3 DEF RefusalsStand
<1>5. \A q \in Procs : pc'[q] = "record" => pc[q] = "record" /\ job'[q] = job[q]
  BY DEF Carry, ProtocolInv, JobsFit
<1>6. \A a \in Attempts : Exists(receipts'[a]) => attempts'[a].digest = attempts[a].digest
  BY <1>1 DEF RowsStay, ProtocolInv, IndInv, ReceiptsCloseAttempts
<1> QED BY <1>3, <1>4, <1>5, <1>6 DEF RefusalsStand, RefusedForGood, StaysRefused, Exists

\* Every place a turn goes to but "record", where it goes with an answer.
LEMMA FinishCarries ==
  ASSUME ProtocolInv, NEW p \in Procs, NEW end \in Resting, Finish(p, end)
  PROVE  \E s \in Resting : \E j : Carry(p, s, j)
  BY DEF Finish, Resting

\* Requests are for commands of the order.
LEMMA RequestsAreTyped ==
  ASSUME ProtocolInv, NEW i \in Calls, call[i].state # "idle"
  PROVE  KeyTaken(Draft, call[i].cmd) /\ call[i].cmd \in Digests /\ call[i].cmd \in 1 .. version
<1>1. KeyTaken(Draft, call[i].cmd)
  BY DEF ProtocolInv, RequestsAuthorized
<1>2. PICK a \in Attempts : AttemptOf(a, Draft, call[i].cmd)
  BY <1>1 DEF KeyTaken
<1>3. Prepared(attempts[a].revision, call[i].cmd)
  BY <1>2 DEF AttemptOf, ProtocolInv, RowsPrepared
<1> QED BY <1>1, <1>3, PreparedIsTyped DEF Prepared

\* The order and the service go on: what was refused for good stays so.
LEMMA RefusedStays ==
  ASSUME ProtocolInv, FirmRefusals, NEW c, c \in 1 .. version, RefusedForGood(c),
         \/ \E i \in Calls : ServiceStep(i)
         \/ Order
         \/ UNCHANGED <<version, open, done, setting>>
  PROVE  StaysRefused(c) /\ FirmRefusals'
<1>1. ASSUME NEW i \in Calls, Serve(i) \/ Abandon(i)
      PROVE  StaysRefused(c) /\ FirmRefusals'
  <2>1. CASE Service!Accept(i) /\ UNCHANGED setting
    <3>1. call[i].cmd \in Digests
      BY <2>1, RequestsAreTyped DEF Service!Accept
    <3>2. /\ version = call[i].cmd /\ open = {}
          /\ version' = version /\ done' = done \cup {call[i].cmd}
      BY <2>1, <3>1, ApplicationAccepted
    <3> QED BY <2>1, <3>2 DEF RefusedForGood, StaysRefused, FirmRefusals
  <2>2. CASE UNCHANGED <<version, open, done, setting>>
    BY <2>2 DEF RefusedForGood, StaysRefused, FirmRefusals
  <2> QED BY <1>1, <2>1, <2>2 DEF Serve, ServerError, Abandon, FirmRefusals, Service!Replay,
             Service!Refuse, Service!Forget, Service!order
<1>2. CASE \E i \in Calls : ServeOverlapping(i)
  BY <1>2 DEF ServeOverlapping, FirmRefusals
<1>3. CASE Order
  BY <1>3 DEF Order, Service!TouchOrder, Service!ApplyElsewhere, Service!CloseApplications,
     Service!order,
     RefusedForGood, StaysRefused, ProtocolInv, RequestsAuthorized, FirmRefusals
<1>4. CASE UNCHANGED <<version, open, done, setting>>
  BY <1>4 DEF RefusedForGood, StaysRefused, FirmRefusals
<1> QED BY <1>1, <1>2, <1>3, <1>4 DEF ServiceStep

\* Nobody records a Receipt: refusals stand if the requests' and the turns' do.
LEMMA RefusalsCarried ==
  ASSUME ProtocolInv, FirmRefusals, RefusalsStand, UNCHANGED storeVars,
         \/ \E i \in Calls : ServiceStep(i)
         \/ Order
         \/ UNCHANGED <<version, open, done, setting>>,
         \A i \in Calls : call'[i].state \in {"refused", "lost"} =>
           \/ call[i].state \in {"refused", "lost"} /\ call'[i].cmd = call[i].cmd
           \/ StaysRefused(call'[i].cmd),
         \A q \in Procs : pc'[q] = "record" /\ job'[q].result # "COMMITTED" =>
           \/ pc[q] = "record" /\ job'[q] = job[q]
           \/ StaysRefused(job'[q].digest)
  PROVE  RefusalsStand'
<1>1. \A c \in 1 .. version : RefusedForGood(c) => StaysRefused(c)
  BY RefusedStays DEF ProtocolInv
<1>2. ASSUME NEW i \in Calls, call'[i].state \in {"refused", "lost"}
      PROVE  StaysRefused(call'[i].cmd)
  <2>1. CASE call[i].state \in {"refused", "lost"} /\ call'[i].cmd = call[i].cmd
    <3>1. RefusedForGood(call[i].cmd)
      BY <2>1 DEF RefusalsStand
    <3>2. call[i].cmd \in 1 .. version
      BY <2>1, RequestsAreTyped
    <3> QED BY <1>1, <2>1, <3>1, <3>2
  <2> QED BY <1>2, <2>1
<1>3. ASSUME NEW q \in Procs, pc'[q] = "record", job'[q].result # "COMMITTED"
      PROVE  StaysRefused(job'[q].digest)
  <2>1. CASE pc[q] = "record" /\ job'[q] = job[q]
    <3>1. RefusedForGood(job[q].digest) /\ JobFits("record", job[q])
      BY <1>3, <2>1 DEF RefusalsStand, ProtocolInv, JobsFit
    <3>2. job[q].digest \in 1 .. version
      BY <3>1 DEF JobFits, Submitting, Prepared
    <3> QED BY <1>1, <2>1, <3>1, <3>2
  <2> QED BY <1>3, <2>1
<1>4. ASSUME NEW a \in Attempts, Exists(receipts[a]), receipts[a].state = "FAILED"
      PROVE  StaysRefused(attempts[a].digest)
  <2>1. RefusedForGood(attempts[a].digest) /\ Exists(attempts[a])
    BY <1>4 DEF RefusalsStand, ProtocolInv, IndInv, ReceiptsCloseAttempts
  <2>2. attempts[a].digest \in 1 .. version
    BY <2>1 DEF ProtocolInv, RowsPrepared, Prepared
  <2>3. attempts'[a] = attempts[a]
    BY DEF storeVars, vars
  <2> QED BY <1>1, <2>1, <2>2, <2>3
<1>5. UNCHANGED <<attempts, receipts>>
  BY DEF storeVars, vars
<1> QED BY <1>2, <1>3, <1>4, <1>5 DEF RefusalsStand, RefusedForGood, StaysRefused, Exists

\* A turn that takes no answer and records none goes elsewhere than to "record".
LEMMA TurnsGoElsewhere ==
  ASSUME ProtocolInv, NEW p \in Procs,
         \/ Approve(p) \/ PersistAuthority(p) \/ Issue(p) \/ Preflight(p) \/ Void(p)
         \/ Reconfirm(p) \/ Represent(p) \/ Reserve(p) \/ Taken(p) \/ TimeOut(p) \/ Mark(p)
         \/ Advance(p) \/ Seal(p) \/ Settle(p) \/ Pick(p) \/ Recover(p) \/ Crash(p)
  PROVE  /\ UNCHANGED <<serviceVars, receipts>>
         /\ \E s, j : s # "record" /\ Carry(p, s, j)
<1>1. UNCHANGED <<serviceVars, receipts>>
  BY DEF Approve, PersistAuthority, Issue, Preflight, Void, Reconfirm, Represent, Reserve, Taken,
     TimeOut, Mark, Advance, Seal, Settle, Pick, Listed, Recover, Crash, Try, TryCreate,
     TryTransition, TryConsume, TryAdvance, Revoke, CreateDraft,
     AdvanceDraft, IssueGrant, RevokeGrant, ConsumeGrant, ReserveGrantAndStartAttempt,
     RejectReservation, ExpireGrant, TransitionAttempt, storeVars, vars
<1>2. ASSUME NEW s, Goto(p, s), s # "record"
      PROVE  \E t, j : t # "record" /\ Carry(p, t, j)
  BY <1>2, GotoCarries DEF ProtocolInv
<1>3. ASSUME NEW end \in Resting, Finish(p, end)
      PROVE  \E t, j : t # "record" /\ Carry(p, t, j)
  BY <1>3, FinishCarries DEF Resting, Ends
<1>4. CASE Approve(p) \/ Pick(p) \/ Taken(p) \/ TimeOut(p)
  <2>1. \E t \in {"persist", "recover", "advance", "mark"} : \E j : Carry(p, t, j)
    BY <1>4 DEF Approve, Pick, Listed, Taken, TimeOut
  <2> QED BY <1>1, <2>1
<1>5. CASE Issue(p)
  <2>1. Finish(p, "stopped") \/ \E j : Carry(p, "preflight", j)
    BY <1>5 DEF Issue
  <2> QED BY <1>1, <1>3, <2>1 DEF Resting, Ends
<1>6. CASE Preflight(p)
  <2>1. Goto(p, "reserve") \/ Goto(p, "void") \/ \E j : Carry(p, "reconfirm", j)
    BY <1>6 DEF Preflight
  <2> QED BY <1>1, <1>2, <2>1
<1>7. CASE Reserve(p)
  <2>1. Finish(p, "unknown") \/ \E t \in {"taken", "send"} : \E j : Carry(p, t, j)
    BY <1>7 DEF Reserve
  <2> QED BY <1>1, <1>3, <2>1 DEF Resting, Ends
<1>8. CASE \/ PersistAuthority(p) \/ Void(p) \/ Reconfirm(p) \/ Represent(p) \/ Mark(p)
           \/ Advance(p) \/ Seal(p) \/ Settle(p) \/ Recover(p) \/ Crash(p)
  <2>1. \/ \E t \in {"issue", "represent", "advance", "seal", "settle", "send"} : Goto(p, t)
        \/ \E end \in {"idle", "stopped", "failed", "unknown", "committed"} : Finish(p, end)
    <3>1. CASE PersistAuthority(p) \/ Void(p) \/ Reconfirm(p) \/ Represent(p) \/ Crash(p)
      BY <3>1 DEF PersistAuthority, Void, Reconfirm, Represent, Crash
    <3>2. CASE Mark(p) \/ Advance(p) \/ Seal(p)
      BY <3>2 DEF Mark, Advance, Seal
    <3>3. CASE Settle(p) \/ Recover(p)
      BY <3>3 DEF Settle, Recover
    <3> QED BY <1>8, <3>1, <3>2, <3>3
  <2> QED BY <1>1, <1>2, <1>3, <2>1 DEF Resting, Ends
<1> QED BY <1>4, <1>5, <1>6, <1>7, <1>8

LEMMA RecordKeepsRefusals ==
  ASSUME ProtocolInv, FirmRefusals, RefusalsStand, NEW p \in Procs, Record(p)
  PROVE  RefusalsStand'
<1> PICK j : j = job[p]
  OBVIOUS
<1>1. JobFits("record", j) /\ pc[p] = "record"
  BY DEF Record, ProtocolInv, JobsFit
<1>2. j.attempt \in Attempts /\ attempts[j.attempt].digest = j.digest
  BY <1>1 DEF JobFits, Submitting, AttemptOf
<1>3. /\ UNCHANGED <<setting, version, open, done, call>>
      /\ attempts' = attempts
      /\ \/ UNCHANGED receipts
         \/ \E h : receipts' = [receipts EXCEPT ![j.attempt] =
              [state |-> IF j.result = "COMMITTED" THEN "SUCCESS" ELSE "FAILED", handle |-> h]]
  BY DEF Record, RecordReceipt, storeVars, vars, serviceVars
<1>4. \A q \in Procs : pc'[q] = "record" => pc[q] = "record" /\ job'[q] = job[q]
  <2>1. PICK s, k : s # "record" /\ Carry(p, s, k)
    BY FinishCarries DEF Record, Resting, Ends
  <2> QED BY <2>1 DEF Carry, ProtocolInv, JobsFit
<1>5. ASSUME NEW a \in Attempts, Exists(receipts'[a]), receipts'[a].state = "FAILED"
      PROVE  RefusedForGood(attempts[a].digest)
  <2>1. CASE receipts'[a] = receipts[a]
    BY <1>5, <2>1 DEF RefusalsStand, Exists
  <2>2. CASE receipts'[a] # receipts[a]
    <3>1. PICK h : receipts' = [receipts EXCEPT ![j.attempt] =
            [state |-> IF j.result = "COMMITTED" THEN "SUCCESS" ELSE "FAILED", handle |-> h]]
      BY <1>3, <2>2
    <3>2. a = j.attempt
      BY <2>2, <3>1 DEF ProtocolInv, IndInv, TypeOK
    <3>3. receipts'[a].state = IF j.result = "COMMITTED" THEN "SUCCESS" ELSE "FAILED"
      BY <1>2, <3>1, <3>2 DEF ProtocolInv, IndInv, TypeOK
    <3> QED BY <1>1, <1>2, <1>5, <3>2, <3>3 DEF RefusalsStand
  <2> QED BY <2>1, <2>2
<1>6. \A c : RefusedForGood(c) => StaysRefused(c)
  BY <1>3 DEF RefusedForGood, StaysRefused
<1> QED BY <1>3, <1>4, <1>5, <1>6 DEF RefusalsStand, RefusedForGood, StaysRefused, Exists

LEMMA ReceiveKeepsRefusals ==
  ASSUME ProtocolInv, FirmRefusals, RefusalsStand, NEW p \in Procs, Receive(p)
  PROVE  RefusalsStand'
<1> PICK i : i = job[p].call
  OBVIOUS
<1>1. /\ pc[p] = "wait" /\ UNCHANGED <<version, open, done, setting, storeVars>>
      /\ call[i].state \in {"ok", "refused", "lost"}
      /\ call' = [call EXCEPT ![i] = [state |-> "idle", cmd |-> None]]
  BY DEF Receive, Service!Forget, Service!Idle, Service!order
<1>2. PICK r : /\ Carry(p, "record", [job[p] EXCEPT !.call = None, !.result = r])
               /\ r # "COMMITTED" => call[i].state # "ok"
  BY DEF Receive
<1>3. i \in Calls /\ call[i].cmd = job[p].digest
  BY <1>1 DEF ProtocolInv, JobsFit, JobFits, CallsAwaited
<1>4. r # "COMMITTED" => RefusedForGood(job[p].digest)
  BY <1>1, <1>2, <1>3 DEF RefusalsStand, ProtocolInv, RequestsAuthorized
<1>5. ASSUME NEW q \in Procs, pc'[q] = "record", job'[q].result # "COMMITTED"
      PROVE  \/ pc[q] = "record" /\ job'[q] = job[q]
             \/ StaysRefused(job'[q].digest)
  <2>1. CASE q = p
    <3>1. job'[q].result = r /\ job'[q].digest = job[p].digest
      BY <1>2, <2>1 DEF Carry, ProtocolInv, JobsFit, JobRow
    <3> QED BY <1>1, <1>4, <1>5, <3>1 DEF RefusedForGood, StaysRefused
  <2>2. CASE q # p
    BY <1>2, <1>5, <2>2 DEF Carry, ProtocolInv, JobsFit
  <2> QED BY <2>1, <2>2
<1>6. \A k \in Calls : call'[k].state \in {"refused", "lost"} =>
        call[k].state \in {"refused", "lost"} /\ call'[k].cmd = call[k].cmd
  BY <1>1 DEF ProtocolInv, RequestsAuthorized
<1> QED BY <1>1, <1>5, <1>6, RefusalsCarried

LEMMA SendKeepsRefusals ==
  ASSUME ProtocolInv, FirmRefusals, RefusalsStand, NEW p \in Procs, SendCommand(p)
  PROVE  RefusalsStand'
<1>1. PICK i \in Calls : /\ call' = [call EXCEPT ![i] = [state |-> "sent", cmd |-> job[p].digest]]
                         /\ UNCHANGED <<version, open, done, setting, storeVars>>
                         /\ Carry(p, "wait", [job[p] EXCEPT !.call = i])
  BY DEF SendCommand, Service!Send, Service!order
<1>2. \A k \in Calls : call'[k].state \in {"refused", "lost"} =>
        call[k].state \in {"refused", "lost"} /\ call'[k].cmd = call[k].cmd
  BY <1>1 DEF ProtocolInv, RequestsAuthorized
<1>3. \A q \in Procs : pc'[q] = "record" => pc[q] = "record" /\ job'[q] = job[q]
  BY <1>1 DEF Carry, ProtocolInv, JobsFit
<1> QED BY <1>1, <1>2, <1>3, RefusalsCarried

LEMMA ServiceKeepsRefusals ==
  ASSUME ProtocolInv, FirmRefusals, RefusalsStand, NEW i \in Calls, ServiceStep(i)
  PROVE  RefusalsStand'
<1>1. UNCHANGED <<storeVars, pc, job>>
  BY DEF ServiceStep, Serve, ServeOverlapping, Abandon
<1>2. ASSUME NEW k \in Calls, call'[k].state \in {"refused", "lost"}
      PROVE  \/ call[k].state \in {"refused", "lost"} /\ call'[k].cmd = call[k].cmd
             \/ StaysRefused(call'[k].cmd)
  <2>1. CASE Service!Refuse(i) /\ k = i
    <3>1. call[i].cmd \in Digests
      BY <2>1, RequestsAreTyped DEF Service!Refuse
    <3>2. /\ call[i].cmd \notin done /\ (version # call[i].cmd \/ open # {})
          /\ UNCHANGED <<version, open, done>> /\ call'[i].cmd = call[i].cmd
      BY <2>1, <3>1, Applications
         DEF Service!Refuse, Service!Answer, Service!order, ProtocolInv, RequestsAuthorized
    <3> QED BY <2>1, <3>2 DEF StaysRefused
  <2>2. CASE Service!Refuse(i) /\ k # i
    BY <1>2, <2>2 DEF Service!Refuse, Service!Answer, ProtocolInv, RequestsAuthorized
  <2>3. CASE Service!Accept(i) \/ Service!Replay(i)
    BY <1>2, <2>3 DEF Service!Accept, Service!Replay, Service!Answer, ProtocolInv,
       RequestsAuthorized
  <2>4. CASE Abandon(i)
    BY <1>2, <2>4 DEF Abandon, Service!Forget, Service!Idle, ProtocolInv, RequestsAuthorized
  <2>5. CASE ServeOverlapping(i)
    BY <2>5 DEF ServeOverlapping, FirmRefusals
  <2> QED BY <2>1, <2>2, <2>3, <2>4, <2>5 DEF ServiceStep, Serve, ServerError, FirmRefusals
<1>3. \A q \in Procs : pc'[q] = "record" => pc[q] = "record" /\ job'[q] = job[q]
  BY <1>1
<1> QED BY <1>1, <1>2, <1>3, RefusalsCarried

LEMMA RefusalsStep ==
  ASSUME ProtocolInv, RefusalsStand, [ProtocolNext]_protocolVars
  PROVE  RefusalsStand'
<1>1. [Next]_vars
  BY ProtocolStep
<1>2. setting' = setting
  BY TurnsGoElsewhere DEF ProtocolNext, protocolVars, serviceVars, PresentCard, WorkerStep,
     ReconcilerStep, Submission, SendCommand, Record, Receive, ServiceStep, Serve,
     ServeOverlapping, Abandon, Order, Procs
<1>3. CASE ~FirmRefusals
  BY <1>2, <1>3 DEF RefusalsStand, FirmRefusals
<1>4. CASE FirmRefusals
  <2>1. ASSUME NEW p \in Procs,
               \/ Approve(p) \/ WorkerStep(p) \/ Pick(p) \/ ReconcilerStep(p)
               \/ Receive(p) \/ TimeOut(p) \/ Crash(p)
        PROVE  RefusalsStand'
    <3>1. CASE Receive(p) \/ Record(p) \/ SendCommand(p)
      BY <1>4, <3>1, ReceiveKeepsRefusals, RecordKeepsRefusals, SendKeepsRefusals
    <3>2. CASE ~(Receive(p) \/ Record(p) \/ SendCommand(p))
      <4>1. /\ UNCHANGED <<serviceVars, receipts>>
            /\ \E s, j : s # "record" /\ Carry(p, s, j)
        BY <2>1, <3>2, TurnsGoElsewhere DEF WorkerStep, ReconcilerStep, Submission
      <4> QED BY <1>1, <1>4, <4>1, TurnKeepsRefusals
    <3> QED BY <3>1, <3>2
  <2>2. CASE Order \/ UNCHANGED protocolVars
    <3>1. UNCHANGED <<call, storeVars, pc, job>>
      BY <2>2 DEF Order, Service!TouchOrder, Service!ApplyElsewhere, Service!CloseApplications,
         protocolVars, serviceVars
    <3>2. Order \/ UNCHANGED <<version, open, done, setting>>
      BY <2>2 DEF protocolVars, serviceVars
    <3> QED BY <1>4, <3>1, <3>2, RefusalsCarried
  <2>3. CASE PresentCard
    <3>1. UNCHANGED <<setting, version, open, done, call, pc, job, attempts, receipts>>
      BY <2>3 DEF PresentCard, serviceVars, CreateDraft
    <3> QED BY <3>1 DEF RefusalsStand, RefusedForGood, FirmRefusals
  <2> QED BY <1>4, <2>1, <2>2, <2>3, ServiceKeepsRefusals DEF ProtocolNext, Procs
<1> QED BY <1>3, <1>4

(* A Receipt tells the effect: SUCCESS of a command that took effect and, on *)
(* SQLite while nobody closes applications, FAILED of one that has no effect *)
(* and will have none, whatever requests are late or repeated                *)
(* (record_transaction_receipt, classify_business_failure).                  *)
THEOREM ReceiptsTellTheEffect == ProtocolSpec => []ReceiptTellsTheEffect
<1>1. ProtocolInit => RefusalsStand
  BY DEF ProtocolInit, Init, Absent, Exists, Service!Init, Service!Idle, RefusalsStand
<1>2. ProtocolInv /\ RefusalsStand /\ [ProtocolNext]_protocolVars => RefusalsStand'
  BY RefusalsStep
<1>3. ProtocolInv /\ RefusalsStand => ReceiptTellsTheEffect
  BY DEF ProtocolInv, RefusalsStand, RefusedForGood, ReceiptTellsTheEffect, FailedReceiptIsReal
<1> QED BY <1>1, <1>2, <1>3, ProtocolInvariance, PTL DEF ProtocolSpec

(* No turn ever tells its customer "committed" of a command that has no      *)
(* effect (commit_action_node).                                              *)
THEOREM ToldSuccessIsTrue == ProtocolSpec => []ToldSuccess
<1>1. ProtocolInv => ToldSuccess
  BY DEF ProtocolInv, JobsFit, JobFits, ToldSuccess, Procs
<1> QED BY <1>1, ProtocolInvariance, PTL
=============================================================================
