------------------------- MODULE CommitRecovery_proofs -------------------------
(***************************************************************************)
(* Recovery while the lease keeps turns apart: whatever turns die, an      *)
(* Attempt that is not sealed can be reconciled; and if none dies, every   *)
(* outcome is recorded in all four tables.                                 *)
(***************************************************************************)
EXTENDS CommitLease_proofs

\* A step under the lease, with the Grants that turns have in hand.
RecoveryStep == LeaseStep /\ GrantsInHand

LEMMA TypesHold == ASSUME LeaseStep PROVE TypeOK /\ IndInv /\ ProtocolInv
  BY DEF LeaseStep, ProtocolInv, IndInv

-----------------------------------------------------------------------------
(* The reservations *)

\* The Grant of a command that is not submitted yet is no Attempt's.
LEMMA FreshGrant ==
  ASSUME LeaseStep, drafts[Draft].state = "AWAITING_AUTHORIZATION",
         NEW g \in Grants, grants[g].digest = drafts[Draft].digest,
         NEW a \in Attempts, Exists(attempts[a]), attempts[a].grant = g
  PROVE  FALSE
<1>1. attempts[a] \in AttemptRow
  BY TypesHold, RowsAreTyped
<1>2. attempts[a].draft = Draft /\ attempts[a].digest = grants[g].digest
  BY <1>1, OneDraft, TypesHold DEF AttemptRow, IndInv, AttemptSpendsItsGrant, SameCommand
<1> QED BY <1>2 DEF LeaseStep, TurnsApart, CardIsFresh, KeyTaken, AttemptOf

\* A command's Grant is its own Attempt's.
LEMMA OwnGrant ==
  ASSUME LeaseStep, NEW b \in Attempts, NEW c, AttemptOf(b, Draft, c),
         NEW g \in Grants, grants[g].digest = c,
         NEW a \in Attempts, Exists(attempts[a]), attempts[a].grant = g
  PROVE  a = b
<1>1. attempts[a] \in AttemptRow
  BY TypesHold, RowsAreTyped
<1>2. attempts[a].draft = Draft /\ attempts[a].digest = c
  BY <1>1, OneDraft, TypesHold DEF AttemptRow, IndInv, AttemptSpendsItsGrant, SameCommand
<1> QED BY <1>2, TypesHold DEF IndInv, UniqueKeys, AttemptOf

\* One Grant changes that belongs to no open Attempt.
LEMMA GrantLeaves ==
  ASSUME RecoveryStep, UNCHANGED <<attempts, receipts>>, NEW g,
         \A x \in Grants : x # g => grants'[x] = grants[x],
         \A a \in Attempts : Exists(attempts[a]) /\ attempts[a].grant = g => Exists(receipts[a])
  PROVE  ReservationsStand' /\ AttemptsAreListed'
<1>1. \A a \in Attempts : Exists(attempts[a]) => attempts[a].grant \in Grants
  BY TypesHold, RowsAreTyped DEF RecoveryStep, AttemptRow
<1>2. ReservationsStand /\ AttemptsAreListed
  BY DEF RecoveryStep, LeaseStep, GrantsInHand
<1>3. ReservationsStand'
  <2> SUFFICES ASSUME NEW a \in Attempts, Open(a)'
               PROVE  grants'[attempts'[a].grant].state = "RESERVED"
    BY DEF ReservationsStand
  <2>1. Open(a) /\ attempts'[a].grant = attempts[a].grant /\ attempts[a].grant # g
    BY DEF Open, Exists
  <2>2. attempts[a].grant \in Grants
    BY <1>1, <2>1 DEF Open
  <2> QED BY <1>2, <2>1, <2>2 DEF ReservationsStand
<1>4. AttemptsAreListed'
  BY <1>2 DEF AttemptsAreListed, Exists
<1> QED BY <1>3, <1>4

\* What revoke_grant and the other calls on one Grant leave alone.
LEMMA GrantCallLeaves ==
  ASSUME RecoveryStep, NEW g \in Grants,
         \/ Revoke(g)
         \/ \E a, h : ConsumeGrant(g, a, h)
         \/ \E r, c : RejectReservation(g, Draft, r, c) \/ ExpireGrant(g, Draft, r, c)
         \/ UNCHANGED storeVars,
         \A a \in Attempts : Exists(attempts[a]) /\ attempts[a].grant = g => Exists(receipts[a])
  PROVE  ReservationsStand' /\ AttemptsAreListed'
<1>1. UNCHANGED <<attempts, receipts>>
  BY DEF Revoke, RevokeGrant, ConsumeGrant, RejectReservation, ExpireGrant, storeVars, vars
<1>2. \A x \in Grants : x # g => grants'[x] = grants[x]
  BY TypesHold DEF RecoveryStep, TypeOK, Revoke, RevokeGrant, ConsumeGrant, RejectReservation,
     ExpireGrant, storeVars, vars
<1> QED BY <1>1, <1>2, GrantLeaves

\* Neither a Grant nor an Attempt changes.
LEMMA NoGrantChanges ==
  ASSUME RecoveryStep, UNCHANGED <<grants, attempts>>
  PROVE  ReservationsStand' /\ AttemptsAreListed'
  BY DEF RecoveryStep, LeaseStep, GrantsInHand, ReservationsStand, AttemptsAreListed, Open,
     ReceiptsStay, Exists

\* An Attempt is marked or sealed.
LEMMA AttemptMoves ==
  ASSUME RecoveryStep, NEW a \in Attempts, NEW s, s # "RECONCILIATION_REQUIRED", NEW h,
         TransitionAttempt(a, s, h)
  PROVE  ReservationsStand' /\ AttemptsAreListed'
<1>1. /\ attempts[a] \in AttemptRow /\ Exists(attempts[a])
      /\ attempts[a].state \notin SealedAttemptStates
      /\ s \notin SealedAttemptStates => h = None
  BY TypesHold, RowsAreTyped DEF RecoveryStep, TransitionAttempt, MayTransition,
     AttemptUpdateAllowed
<1>2. attempts[a].handle = None
  BY <1>1 DEF RecoveryStep, LeaseStep, GrantsInHand, AttemptsAreListed, AttemptRow, AttemptStates
<1>3. /\ attempts'[a].state = s /\ (h = None => attempts'[a].handle = None)
      /\ \A x \in Attempts : x # a => attempts'[x] = attempts[x]
      /\ UNCHANGED <<grants, receipts>>
  <2>1. attempts' = [attempts EXCEPT ![a] =
           [attempts[a] EXCEPT !.state = s, !.handle = IF h # None THEN h ELSE @]]
    BY <1>1 DEF TransitionAttempt, AttemptRow
  <2> QED BY <1>1, <1>2, <2>1, TypesHold DEF RecoveryStep, TypeOK, TransitionAttempt, AttemptRow
<1>4. ReservationsStand'
  BY <1>1, <1>3 DEF RecoveryStep, LeaseStep, RowsStay, GrantsInHand, ReservationsStand, Open, Exists
<1>5. AttemptsAreListed'
  BY <1>1, <1>3 DEF RecoveryStep, LeaseStep, GrantsInHand, AttemptsAreListed, SealedAttemptStates,
     Exists
<1> QED BY <1>4, <1>5

-----------------------------------------------------------------------------
(* The turns *)

\* The turn that acts takes its Grant along; all others rest.
LEMMA GrantGoesAlong ==
  ASSUME RecoveryStep, NEW p \in Procs, Alone(p), NEW s, NEW j, Carry(p, s, j), GrantFits(s, j)',
         ReservationsStand', AttemptsAreListed'
  PROVE  GrantsInHand'
<1>1. /\ pc'[p] = s /\ job'[p] = j
      /\ \A q \in Procs : q # p => pc'[q] = pc[q] /\ job'[q] = job[q] /\ pc[q] \in Resting
  BY DEF Carry, RecoveryStep, LeaseStep, ProtocolInv, JobsFit, Alone
<1>2. ASSUME NEW q \in Procs PROVE GrantFits(pc[q], job[q])'
  <2>1. CASE q = p
    BY <1>1, <2>1 DEF GrantFits, HasRecorded
  <2>2. CASE q # p
    BY <1>1, <2>2 DEF GrantFits, HasRecorded, Resting, Ends, Submitting
  <2> QED BY <2>1, <2>2
<1> QED BY <1>2 DEF GrantsInHand

LEMMA TurnEnds ==
  ASSUME RecoveryStep, NEW p \in Procs, Alone(p), NEW end \in Resting, Finish(p, end),
         ReservationsStand', AttemptsAreListed'
  PROVE  GrantsInHand'
<1>1. PICK j : \E s \in Resting : Carry(p, s, j)
  BY DEF Finish, Resting
<1>2. PICK s \in Resting : Carry(p, s, j)
  BY <1>1
<1>3. GrantFits(s, j)'
  BY DEF GrantFits, HasRecorded, Resting, Ends, Submitting
<1> QED BY <1>2, <1>3, GrantGoesAlong

\* A Grant in hand stays what it is.
LEMMA GrantStaysInHand ==
  ASSUME RecoveryStep, NEW j, j.grant \in Grants, Exists(grants[j.grant]),
         grants[j.grant].digest = j.digest, NEW s, s # "reconfirm",
         HasRecorded(s, j) => Exists(receipts'[j.attempt])
  PROVE  GrantFits(s, j)'
  BY DEF RecoveryStep, LeaseStep, GrantsStay, GrantFits, HasRecorded, Exists

\* What a turn at s has in hand when it acts.
LEMMA TurnHasGrant ==
  ASSUME RecoveryStep, NEW p \in Procs, NEW s, s \notin Resting, pc[p] = s
  PROVE  /\ Alone(p) /\ job[p] \in JobRow /\ JobFits(s, job[p]) /\ GrantFits(s, job[p])
         /\ p \in Workers => WorkerIsRight(s, job[p])
         /\ LeaseStep /\ ProtocolInv
  BY TurnActsAlone DEF RecoveryStep, LeaseStep, GrantsInHand

-----------------------------------------------------------------------------
(* Approval and preflight *)

LEMMA ApproveKeepsGrants ==
  ASSUME RecoveryStep, NEW w \in Workers, Approve(w)
  PROVE  GrantsInHand'
<1>1. PICK j : Carry(w, "persist", j)
  BY DEF Approve
<1>2. w \in Procs /\ Alone(w)
  BY ActsAlone DEF Approve, MayStart, RecoveryStep, LeaseStep, Procs
<1>3. ReservationsStand' /\ AttemptsAreListed'
  BY NoGrantChanges DEF Approve, storeVars, vars
<1>4. GrantFits("persist", j)'
  BY DEF GrantFits, HasRecorded, Submitting
<1> QED BY <1>1, <1>2, <1>3, <1>4, GrantGoesAlong

LEMMA PersistKeepsGrants ==
  ASSUME RecoveryStep, NEW w \in Workers, PersistAuthority(w)
  PROVE  GrantsInHand'
<1> PICK j : j = job[w]
  OBVIOUS
<1>1. w \in Procs /\ Alone(w) /\ ProtocolInv
  BY TurnHasGrant DEF PersistAuthority, Resting, Ends, Procs
<1>2. ReservationsStand' /\ AttemptsAreListed'
  BY NoGrantChanges DEF PersistAuthority, Try, TryCreate, CreateDraft, storeVars, vars
<1>3. CASE Goto(w, "issue")
  <2>1. Carry(w, "issue", j)
    BY <1>1, <1>3, GotoCarries DEF ProtocolInv
  <2>2. GrantFits("issue", j)'
    BY DEF GrantFits, HasRecorded, Submitting
  <2> QED BY <1>1, <1>2, <2>1, <2>2, GrantGoesAlong
<1>4. CASE Finish(w, "stopped")
  BY <1>1, <1>2, <1>4, TurnEnds DEF Resting, Ends
<1> QED BY <1>3, <1>4 DEF PersistAuthority

(* A new Grant is nobody's yet; one that is found is the command's. *)
LEMMA IssueKeepsGrants ==
  ASSUME RecoveryStep, NEW w \in Workers, Issue(w)
  PROVE  GrantsInHand'
<1> PICK j : j = job[w]
  OBVIOUS
<1>1. w \in Procs /\ Alone(w) /\ j \in JobRow
  BY TurnHasGrant DEF Issue, Resting, Ends, Procs
<1>2. CASE UNCHANGED storeVars /\ Finish(w, "stopped")
  <2>1. ReservationsStand' /\ AttemptsAreListed'
    BY <1>2, NoGrantChanges DEF storeVars, vars
  <2> QED BY <1>1, <1>2, <2>1, TurnEnds DEF Resting, Ends
<1>3. ASSUME NEW g \in Grants, Carry(w, "preflight", [j EXCEPT !.grant = g]),
             Exists(grants'[g]), grants'[g].digest = j.digest,
             ReservationsStand', AttemptsAreListed'
      PROVE  GrantsInHand'
  <2> PICK k : k = [j EXCEPT !.grant = g]
    OBVIOUS
  <2>1. k.grant = g /\ k.digest = j.digest
    BY <1>1 DEF JobRow
  <2>2. GrantFits("preflight", k)'
    BY <1>3, <2>1 DEF GrantFits, HasRecorded, Submitting, Exists
  <2> QED BY <1>1, <1>3, <2>2, GrantGoesAlong
<1>4. ASSUME NEW g \in Grants, Exists(grants[g]), SameCommand(grants[g], Command(j)),
             Carry(w, "preflight", [j EXCEPT !.grant = g]), UNCHANGED storeVars
      PROVE  GrantsInHand'
  <2>1. ReservationsStand' /\ AttemptsAreListed'
    BY <1>4, NoGrantChanges DEF storeVars, vars
  <2>2. Exists(grants'[g]) /\ grants'[g].digest = j.digest
    BY <1>4 DEF storeVars, vars, SameCommand, Command
  <2> QED BY <1>3, <1>4, <2>1, <2>2
<1>5. ASSUME NEW g \in Grants, IssueGrant(g, Draft, j.revision, j.digest, j.card),
             Carry(w, "preflight", [j EXCEPT !.grant = g])
      PROVE  GrantsInHand'
  <2>1. /\ ~Exists(grants[g]) /\ UNCHANGED <<attempts, receipts>>
        /\ \A x \in Grants : x # g => grants'[x] = grants[x]
        /\ Exists(grants'[g]) /\ grants'[g].digest = j.digest
    BY <1>5, TypesHold DEF IssueGrant, IsNewGrant, RecoveryStep, TypeOK, Exists
  <2>2. \A a \in Attempts : Exists(attempts[a]) => attempts[a].grant # g
    BY <2>1, TypesHold DEF RecoveryStep, IndInv, AttemptSpendsItsGrant
  <2>3. ReservationsStand' /\ AttemptsAreListed'
    BY <2>1, <2>2, GrantLeaves
  <2> QED BY <1>3, <1>5, <2>1, <2>3
<1> QED BY <1>2, <1>4, <1>5 DEF Issue

LEMMA PreflightKeepsGrants ==
  ASSUME RecoveryStep, NEW w \in Workers, Preflight(w)
  PROVE  GrantsInHand'
<1> PICK j : j = job[w]
  OBVIOUS
<1>1. /\ w \in Procs /\ Alone(w) /\ j \in JobRow /\ JobFits("preflight", j)
      /\ GrantFits("preflight", j) /\ WorkerIsRight("preflight", j) /\ ProtocolInv
  BY TurnHasGrant DEF Preflight, Resting, Ends, Procs
<1>2. /\ ReservationsStand' /\ AttemptsAreListed' /\ UNCHANGED <<drafts, grants>>
      /\ j.grant \in Grants /\ Exists(grants[j.grant]) /\ grants[j.grant].digest = j.digest
      /\ drafts[Draft].digest = j.digest
  BY <1>1, NoGrantChanges DEF Preflight, storeVars, vars, JobFits, Approving, GrantFits,
     WorkerIsRight, HoldsRow
<1>3. ASSUME NEW t \in {"reserve", "void"}, Goto(w, t)
      PROVE  GrantsInHand'
  <2>1. GrantFits(t, j)'
    BY <1>2, GrantStaysInHand DEF HasRecorded, Submitting
  <2>2. Carry(w, t, j)
    BY <1>1, <1>3, GotoCarries DEF ProtocolInv
  <2> QED BY <1>1, <1>2, <2>1, <2>2, GrantGoesAlong
<1>4. CASE Carry(w, "reconfirm", [j EXCEPT !.digest = version])
  <2> PICK k : k = [j EXCEPT !.digest = version]
    OBVIOUS
  <2>1. k.grant = j.grant
    BY <1>1 DEF JobRow
  <2>2. GrantFits("reconfirm", k)'
    BY <1>2, <2>1 DEF GrantFits, HasRecorded, Submitting, Exists
  <2> QED BY <1>1, <1>2, <1>4, <2>2, GrantGoesAlong
<1> QED BY <1>3, <1>4 DEF Preflight

(* The Grant of a command that was not submitted is revoked. *)
LEMMA VoidKeepsGrants ==
  ASSUME RecoveryStep, NEW w \in Workers, Void(w)
  PROVE  GrantsInHand'
<1> PICK j : j = job[w]
  OBVIOUS
<1>1. /\ w \in Procs /\ Alone(w) /\ JobFits("void", j) /\ GrantFits("void", j)
      /\ WorkerIsRight("void", j) /\ LeaseStep
  BY TurnHasGrant DEF Void, Resting, Ends, Procs
<1>2. /\ j.grant \in Grants /\ grants[j.grant].digest = drafts[Draft].digest
      /\ drafts[Draft].state = "AWAITING_AUTHORIZATION"
  BY <1>1 DEF JobFits, Approving, GrantFits, WorkerIsRight, HoldsRow
<1>3. ReservationsStand' /\ AttemptsAreListed'
  BY <1>1, <1>2, FreshGrant, GrantCallLeaves DEF Void
<1> QED BY <1>1, <1>3, TurnEnds DEF Void, Resting, Ends

LEMMA ReconfirmKeepsGrants ==
  ASSUME RecoveryStep, NEW w \in Workers, Reconfirm(w)
  PROVE  GrantsInHand'
<1> PICK j : j = job[w]
  OBVIOUS
<1>1. /\ w \in Procs /\ Alone(w) /\ JobFits("reconfirm", j) /\ GrantFits("reconfirm", j)
      /\ WorkerIsRight("reconfirm", j) /\ LeaseStep /\ ProtocolInv
  BY TurnHasGrant DEF Reconfirm, Resting, Ends, Procs
<1>2. /\ j.grant \in Grants /\ grants[j.grant].digest = drafts[Draft].digest
      /\ drafts[Draft].state = "AWAITING_AUTHORIZATION"
  BY <1>1 DEF JobFits, Approving, GrantFits, WorkerIsRight, HoldsRow
<1>3. ReservationsStand' /\ AttemptsAreListed'
  BY <1>1, <1>2, FreshGrant, GrantCallLeaves DEF Reconfirm
<1>4. Carry(w, "represent", j)
  BY <1>1, GotoCarries DEF Reconfirm, ProtocolInv
<1>5. GrantFits("represent", j)'
  BY DEF GrantFits, HasRecorded, Submitting
<1> QED BY <1>1, <1>3, <1>4, <1>5, GrantGoesAlong

LEMMA RepresentKeepsGrants ==
  ASSUME RecoveryStep, NEW w \in Workers, Represent(w)
  PROVE  GrantsInHand'
<1>1. w \in Procs /\ Alone(w)
  BY TurnHasGrant DEF Represent, Resting, Ends, Procs
<1>2. ReservationsStand' /\ AttemptsAreListed'
  BY NoGrantChanges DEF Represent, Try, TryCreate, CreateDraft, storeVars, vars
<1> QED BY <1>1, <1>2, TurnEnds DEF Represent, Resting, Ends

(* The Grant a command reserves was no Attempt's before, and is RESERVED now. *)
LEMMA ReserveKeepsGrants ==
  ASSUME RecoveryStep, NEW w \in Workers, Reserve(w)
  PROVE  GrantsInHand'
<1> PICK j : j = job[w]
  OBVIOUS
<1>1. /\ w \in Procs /\ Alone(w) /\ j \in JobRow /\ JobFits("reserve", j)
      /\ GrantFits("reserve", j) /\ WorkerIsRight("reserve", j) /\ LeaseStep
  BY TurnHasGrant DEF Reserve, Resting, Ends, Procs
<1>2. /\ j.grant \in Grants /\ Exists(grants[j.grant]) /\ grants[j.grant].digest = j.digest
      /\ drafts[Draft].state = "AWAITING_AUTHORIZATION" /\ drafts[Draft].digest = j.digest
  BY <1>1 DEF JobFits, Approving, GrantFits, WorkerIsRight, HoldsRow
<1>3. \A b \in Attempts : ~(Exists(attempts[b]) /\ attempts[b].grant = j.grant)
  BY <1>1, <1>2, FreshGrant
<1>4. CASE /\ Finish(w, "unknown")
           /\ \/ RejectReservation(j.grant, Draft, j.revision, j.digest)
              \/ ExpireGrant(j.grant, Draft, j.revision, j.digest)
              \/ UNCHANGED storeVars
  <2>1. ReservationsStand' /\ AttemptsAreListed'
    BY <1>2, <1>3, <1>4, GrantCallLeaves
  <2> QED BY <1>1, <1>4, <2>1, TurnEnds DEF Resting, Ends
<1>5. ASSUME NEW a \in Attempts,
             ReserveGrantAndStartAttempt(j.grant, a, Draft, j.revision, j.digest),
             Carry(w, "send", [j EXCEPT !.attempt = a])
      PROVE  GrantsInHand'
  <2> PICK k : k = [j EXCEPT !.attempt = a]
    OBVIOUS
  <2>1. k.grant = j.grant /\ k.digest = j.digest /\ k.handle = None
    BY <1>1 DEF JobRow, WorkerIsRight, TellsRight
  <2>2. grants[j.grant] \in GrantRow
    BY <1>2, TypesHold, RowsAreTyped DEF RecoveryStep
  <2>3. /\ grants'[j.grant].state = "RESERVED"
        /\ \A g \in Grants : g # j.grant => grants'[g] = grants[g]
        /\ attempts'[a].state = "STARTED" /\ attempts'[a].grant = j.grant
        /\ attempts'[a].handle = None
        /\ \A b \in Attempts : b # a => attempts'[b] = attempts[b]
        /\ UNCHANGED receipts
    BY <1>2, <1>5, <2>2, TypesHold DEF RecoveryStep, TypeOK, ReserveGrantAndStartAttempt, GrantRow
  <2>4. ReservationsStand'
    <3> SUFFICES ASSUME NEW b \in Attempts, Open(b)'
                 PROVE  grants'[attempts'[b].grant].state = "RESERVED"
      BY DEF ReservationsStand
    <3>1. CASE b = a
      BY <2>3, <3>1
    <3>2. CASE b # a
      <4>1. Open(b) /\ attempts'[b] = attempts[b] /\ attempts[b].grant # j.grant
        BY <1>3, <2>3, <3>2 DEF Open, Exists
      <4>2. attempts[b].grant \in Grants
        BY <4>1, TypesHold, RowsAreTyped DEF RecoveryStep, AttemptRow, Open
      <4> QED BY <2>3, <4>1, <4>2 DEF RecoveryStep, LeaseStep, GrantsInHand, ReservationsStand
    <3> QED BY <3>1, <3>2
  <2>5. AttemptsAreListed'
    BY <2>3 DEF RecoveryStep, LeaseStep, GrantsInHand, AttemptsAreListed, Exists
  <2>6. GrantFits("send", k)'
    BY <1>2, <2>1, GrantStaysInHand DEF HasRecorded
  <2> QED BY <1>1, <1>5, <2>4, <2>5, <2>6, GrantGoesAlong
<1>6. \A a \in Attempts : ~AttemptOf(a, Draft, j.digest)
  BY <1>2 DEF RecoveryStep, LeaseStep, TurnsApart, CardIsFresh, KeyTaken
<1> QED BY <1>4, <1>5, <1>6 DEF Reserve

-----------------------------------------------------------------------------
(* The submission *)

\* A turn with an Attempt moves on with the same command, Attempt and Grant.
LEMMA SubmissionGoesOn ==
  ASSUME RecoveryStep, NEW p \in Procs, NEW s \in Submitting, pc[p] = s,
         NEW t \in Submitting, NEW k, Carry(p, t, k),
         k.grant = job[p].grant, k.digest = job[p].digest, k.attempt = job[p].attempt,
         HasRecorded(t, k) => HasRecorded(s, job[p]) \/ Exists(receipts'[k.attempt]),
         ReservationsStand', AttemptsAreListed'
  PROVE  GrantsInHand'
<1>1. /\ Alone(p) /\ JobFits(s, job[p]) /\ GrantFits(s, job[p])
  BY TurnHasGrant DEF Submitting, Resting, Ends
<1>2. /\ k.grant \in Grants /\ Exists(grants[k.grant]) /\ grants[k.grant].digest = k.digest
      /\ k.attempt \in Attempts
  BY <1>1 DEF JobFits, GrantFits
<1>3. HasRecorded(t, k) => Exists(receipts'[k.attempt])
  BY <1>1, <1>2 DEF GrantFits, RecoveryStep, LeaseStep, ReceiptsStay
<1>4. GrantFits(t, k)'
  BY <1>2, <1>3, GrantStaysInHand DEF Submitting
<1> QED BY <1>1, <1>4, GrantGoesAlong

\* A turn's step that only changes what is known of its request.
LEMMA RequestGoesOn ==
  ASSUME RecoveryStep, UNCHANGED storeVars, NEW p \in Procs,
         NEW s \in {"send", "wait"}, pc[p] = s, NEW i, NEW r,
         \/ s = "send" /\ Carry(p, "wait", [job[p] EXCEPT !.call = i])
         \/ s = "wait" /\ Carry(p, "record", [job[p] EXCEPT !.call = i, !.result = r])
         \/ /\ s = "wait" /\ r = "SUBMISSION_UNKNOWN"
            /\ Carry(p, "mark", [job[p] EXCEPT !.call = i, !.result = r])
  PROVE  GrantsInHand'
<1>1. job[p] \in JobRow
  BY TurnHasGrant DEF Resting, Ends
<1>2. ReservationsStand' /\ AttemptsAreListed'
  BY NoGrantChanges DEF storeVars, vars
<1>3. CASE s = "send" /\ Carry(p, "wait", [job[p] EXCEPT !.call = i])
  <2> PICK k : k = [job[p] EXCEPT !.call = i]
    OBVIOUS
  <2>1. /\ k.grant = job[p].grant /\ k.digest = job[p].digest /\ k.attempt = job[p].attempt
        /\ k.handle = job[p].handle
    BY <1>1 DEF JobRow
  <2>2. HasRecorded("wait", k) => HasRecorded(s, job[p])
    BY <1>3, <2>1 DEF HasRecorded, Submitting
  <2>3. Carry(p, "wait", k) /\ s \in Submitting /\ "wait" \in Submitting
    BY <1>3 DEF Submitting
  <2> QED BY <1>2, <2>1, <2>2, <2>3, SubmissionGoesOn
<1>4. ASSUME NEW t \in {"record", "mark"}, s = "wait",
             Carry(p, t, [job[p] EXCEPT !.call = i, !.result = r]),
             t = "mark" => r = "SUBMISSION_UNKNOWN"
      PROVE  GrantsInHand'
  <2> PICK k : k = [job[p] EXCEPT !.call = i, !.result = r]
    OBVIOUS
  <2>1. /\ k.grant = job[p].grant /\ k.digest = job[p].digest /\ k.attempt = job[p].attempt
        /\ k.handle = job[p].handle /\ k.result = r
    BY <1>1 DEF JobRow
  <2>2. HasRecorded(t, k) => HasRecorded(s, job[p])
    BY <1>4, <2>1 DEF HasRecorded, Submitting
  <2>3. Carry(p, t, k) /\ s \in Submitting /\ t \in Submitting
    BY <1>4 DEF Submitting
  <2> QED BY <1>2, <2>1, <2>2, <2>3, SubmissionGoesOn
<1> QED BY <1>3, <1>4

LEMMA RequestKeepsGrants ==
  ASSUME RecoveryStep, NEW p \in Procs, SendCommand(p) \/ Receive(p) \/ TimeOut(p)
  PROVE  GrantsInHand'
  BY RequestGoesOn DEF SendCommand, Receive, TimeOut

LEMMA MarkKeepsGrants ==
  ASSUME RecoveryStep, NEW p \in Procs, Mark(p)
  PROVE  GrantsInHand'
<1>1. /\ JobFits("mark", job[p]) /\ ProtocolInv
  BY TurnHasGrant DEF Mark, Resting, Ends
<1>2. ReservationsStand' /\ AttemptsAreListed'
  <2>1. CASE UNCHANGED storeVars
    BY <2>1, NoGrantChanges DEF storeVars, vars
  <2>2. CASE TransitionAttempt(job[p].attempt, "SUBMISSION_UNKNOWN", None)
    BY <1>1, <2>2, AttemptMoves DEF JobFits, Submitting
  <2> QED BY <2>1, <2>2 DEF Mark, Try, TryTransition
<1>3. Carry(p, "advance", job[p])
  BY <1>1, GotoCarries DEF Mark, ProtocolInv
<1>4. HasRecorded("advance", job[p]) => HasRecorded("mark", job[p])
  BY DEF HasRecorded, Submitting
<1> QED BY <1>2, <1>3, <1>4, SubmissionGoesOn DEF Mark, Submitting

LEMMA RecordKeepsGrants ==
  ASSUME RecoveryStep, NEW p \in Procs, Record(p)
  PROVE  GrantsInHand'
<1> PICK j : j = job[p]
  OBVIOUS
<1> PICK s : s = IF j.result = "COMMITTED" THEN "SUCCESS" ELSE "FAILED"
  OBVIOUS
<1>1. Alone(p) /\ j \in JobRow /\ JobFits("record", j)
  BY TurnHasGrant DEF Record, Resting, Ends
<1>2. ReservationsStand' /\ AttemptsAreListed'
  BY NoGrantChanges DEF Record, RecordReceipt, storeVars, vars
<1>3. CASE Finish(p, "stopped")
  BY <1>1, <1>2, <1>3, TurnEnds DEF Resting, Ends
<1>4. CASE /\ \/ RecordReceipt(j.attempt, Draft, s, p)
              \/ Exists(receipts[j.attempt])
           /\ Carry(p, "advance", [j EXCEPT !.handle = p])
  <2> PICK k : k = [j EXCEPT !.handle = p]
    OBVIOUS
  <2>1. k.grant = j.grant /\ k.digest = j.digest /\ k.attempt = j.attempt
    BY <1>1 DEF JobRow
  <2>2. Exists(receipts'[j.attempt])
    <3>1. j.attempt \in Attempts /\ s # "NONE"
      BY <1>1 DEF JobFits, Submitting
    <3>2. CASE RecordReceipt(j.attempt, Draft, s, p)
      BY <3>1, <3>2, TypesHold DEF RecoveryStep, RecordReceipt, TypeOK, Exists
    <3>3. CASE Exists(receipts[j.attempt])
      BY <3>1, <3>3 DEF RecoveryStep, LeaseStep, ReceiptsStay
    <3> QED BY <1>4, <3>2, <3>3
  <2> QED BY <1>2, <1>4, <2>1, <2>2, SubmissionGoesOn DEF Record, Submitting
<1> QED BY <1>3, <1>4 DEF Record

LEMMA AdvanceKeepsGrants ==
  ASSUME RecoveryStep, NEW p \in Procs, Advance(p)
  PROVE  GrantsInHand'
<1> PICK j : j = job[p]
  OBVIOUS
<1>1. Alone(p) /\ ProtocolInv
  BY TurnHasGrant DEF Advance, Resting, Ends
<1>2. ReservationsStand' /\ AttemptsAreListed'
  BY NoGrantChanges DEF Advance, Try, TryAdvance, AdvanceDraft, storeVars, vars
<1>3. CASE Finish(p, "unknown")
  BY <1>1, <1>2, <1>3, TurnEnds DEF Resting, Ends
<1>4. ASSUME NEW t \in {"seal", "settle"}, Goto(p, t),
             j.handle # None \/ j.result # "SUBMISSION_UNKNOWN"
      PROVE  GrantsInHand'
  <2>1. Carry(p, t, j)
    BY <1>1, <1>4, GotoCarries DEF ProtocolInv
  <2>2. HasRecorded("advance", j)
    BY <1>4 DEF HasRecorded, Submitting
  <2> QED BY <1>2, <2>1, <2>2, SubmissionGoesOn DEF Advance, Submitting
<1> QED BY <1>3, <1>4 DEF Advance

LEMMA SealKeepsGrants ==
  ASSUME RecoveryStep, NEW p \in Procs, Seal(p)
  PROVE  GrantsInHand'
<1> PICK j : j = job[p]
  OBVIOUS
<1> PICK s : s = IF j.result = "COMMITTED" THEN "ACKED" ELSE j.result
  OBVIOUS
<1>1. /\ JobFits("seal", j) /\ ProtocolInv
  BY TurnHasGrant DEF Seal, Resting, Ends
<1>2. ReservationsStand' /\ AttemptsAreListed'
  <2>1. CASE UNCHANGED storeVars
    BY <2>1, NoGrantChanges DEF storeVars, vars
  <2>2. CASE TransitionAttempt(j.attempt, s, j.handle)
    <3>1. j.attempt \in Attempts /\ s # "RECONCILIATION_REQUIRED"
      BY <1>1 DEF JobFits, Submitting, ObservedStates, OutcomeStates
    <3> QED BY <2>2, <3>1, AttemptMoves
  <2> QED BY <2>1, <2>2 DEF Seal, Try, TryTransition
<1>3. Carry(p, "settle", j)
  BY <1>1, GotoCarries DEF Seal, ProtocolInv
<1>4. HasRecorded("seal", j)
  BY DEF HasRecorded, Submitting
<1> QED BY <1>2, <1>3, <1>4, SubmissionGoesOn DEF Seal, Submitting

(* The Grant that is consumed or revoked is the turn's own, and its Attempt  *)
(* has a Receipt.                                                            *)
LEMMA SettleKeepsGrants ==
  ASSUME RecoveryStep, NEW p \in Procs, Settle(p)
  PROVE  GrantsInHand'
<1> PICK j : j = job[p]
  OBVIOUS
<1> PICK end : end = IF j.result = "COMMITTED" THEN "committed" ELSE "failed"
  OBVIOUS
<1>1. Alone(p) /\ JobFits("settle", j) /\ GrantFits("settle", j) /\ LeaseStep
  BY TurnHasGrant DEF Settle, Resting, Ends
<1>2. /\ j.grant \in Grants /\ grants[j.grant].digest = j.digest
      /\ j.attempt \in Attempts /\ AttemptOf(j.attempt, Draft, j.digest)
      /\ Exists(receipts[j.attempt])
  BY <1>1 DEF JobFits, GrantFits, HasRecorded, Submitting
<1>3. \A a \in Attempts :
        Exists(attempts[a]) /\ attempts[a].grant = j.grant => Exists(receipts[a])
  BY <1>1, <1>2, OwnGrant
<1>4. ReservationsStand' /\ AttemptsAreListed'
  BY <1>2, <1>3, GrantCallLeaves DEF Settle, Try, TryConsume
<1>5. Finish(p, end) /\ end \in Resting
  BY DEF Settle, Resting, Ends
<1> QED BY <1>1, <1>4, <1>5, TurnEnds

-----------------------------------------------------------------------------
(* Reconciliation, death, the service and the order *)

LEMMA PickKeepsGrants ==
  ASSUME RecoveryStep, NEW r \in Reconcilers, Pick(r)
  PROVE  GrantsInHand'
<1>1. PICK a \in Attempts :
        /\ attempts[a].state \in {"STARTED", "SUBMISSION_UNKNOWN"}
        /\ Carry(r, "recover", [NoJob EXCEPT !.revision = attempts[a].revision,
             !.digest = attempts[a].digest, !.grant = attempts[a].grant, !.attempt = a])
  BY DEF Pick, Listed
<1> PICK k : k = [NoJob EXCEPT !.revision = attempts[a].revision,
                    !.digest = attempts[a].digest, !.grant = attempts[a].grant, !.attempt = a]
  OBVIOUS
<1>2. k.grant = attempts[a].grant /\ k.digest = attempts[a].digest /\ k.handle = None
  BY DEF NoJob
<1>3. /\ k.grant \in Grants /\ Exists(grants[k.grant])
      /\ grants[k.grant].digest = k.digest
  <2>1. Exists(attempts[a]) /\ attempts[a] \in AttemptRow
    BY <1>1, TypesHold, RowsAreTyped DEF RecoveryStep, Exists
  <2> QED BY <1>2, <2>1, TypesHold
          DEF RecoveryStep, IndInv, AttemptSpendsItsGrant, SameCommand, AttemptRow
<1>4. r \in Procs /\ Alone(r)
  BY ActsAlone DEF Pick, Listed, MayStart, RecoveryStep, LeaseStep, Procs
<1>5. ReservationsStand' /\ AttemptsAreListed'
  BY NoGrantChanges DEF Pick, Listed, storeVars, vars
<1>6. GrantFits("recover", k)'
  BY <1>2, <1>3, GrantStaysInHand DEF HasRecorded
<1> QED BY <1>1, <1>4, <1>5, <1>6, GrantGoesAlong

LEMMA RecoverKeepsGrants ==
  ASSUME RecoveryStep, NEW r \in Reconcilers, Recover(r)
  PROVE  GrantsInHand'
<1> PICK j : j = job[r]
  OBVIOUS
<1>1. r \in Procs
  BY DEF Procs
<1>2. Alone(r) /\ JobFits("recover", j) /\ ProtocolInv
  BY <1>1, TurnHasGrant DEF Recover, Resting, Ends
<1>3. CASE UNCHANGED storeVars /\ Goto(r, "send")
  <2>1. ReservationsStand' /\ AttemptsAreListed'
    BY <1>3, NoGrantChanges DEF storeVars, vars
  <2>2. Carry(r, "send", j)
    BY <1>1, <1>2, <1>3, GotoCarries DEF ProtocolInv
  <2>3. HasRecorded("send", j) => HasRecorded("recover", j)
    BY DEF HasRecorded, Submitting
  <2> QED BY <1>1, <2>1, <2>2, <2>3, SubmissionGoesOn DEF Recover, Submitting
<1>4. ASSUME NEW s \in {"ACKED", "FAILED_FINAL"}, Finish(r, "idle"),
             TryTransition(j.attempt, s, receipts[j.attempt].handle)
      PROVE  GrantsInHand'
  <2>1. ReservationsStand' /\ AttemptsAreListed'
    BY <1>2, <1>4, NoGrantChanges, AttemptMoves
    DEF Try, TryTransition, storeVars, vars, JobFits, Submitting
  <2> QED BY <1>1, <1>2, <1>4, <2>1, TurnEnds DEF Resting
<1> QED BY <1>3, <1>4 DEF Recover

LEMMA CrashKeepsGrants ==
  ASSUME RecoveryStep, NEW p \in Procs, Crash(p)
  PROVE  GrantsInHand'
<1>1. Alone(p)
  BY ActsAlone DEF Crash, RecoveryStep
<1>2. ReservationsStand' /\ AttemptsAreListed'
  BY NoGrantChanges DEF Crash, storeVars, vars
<1> QED BY <1>1, <1>2, TurnEnds DEF Crash, Resting, Ends

\* The turns stand still, and so does the repository.
LEMMA ServiceKeepsGrants ==
  ASSUME RecoveryStep, UNCHANGED <<storeVars, pc, job>>
  PROVE  GrantsInHand'
<1>1. UNCHANGED <<drafts, grants, attempts, receipts, pc, job>>
  BY DEF storeVars, vars
<1>2. ReservationsStand' /\ AttemptsAreListed'
  BY <1>1, NoGrantChanges
<1> QED BY <1>1, <1>2 DEF RecoveryStep, LeaseStep, GrantsInHand, GrantFits, HasRecorded, Exists

\* There is no Grant before the first card, so no turn has one in hand.
LEMMA PresentCardKeepsGrants ==
  ASSUME RecoveryStep, PresentCard
  PROVE  GrantsInHand'
<1>1. /\ UNCHANGED <<grants, attempts, receipts, pc, job>> /\ ~Exists(drafts[Draft])
  BY DEF PresentCard, CreateDraft
<1>2. \A g \in Grants : ~Exists(grants[g])
  BY <1>1 DEF RecoveryStep, LeaseStep, TurnsApart, OneGrantPerCommand
<1>3. ReservationsStand' /\ AttemptsAreListed'
  BY <1>1, NoGrantChanges
<1>4. ASSUME NEW p \in Procs PROVE GrantFits(pc[p], job[p])'
  <2>1. GrantFits(pc[p], job[p]) /\ JobFits(pc[p], job[p])
    BY DEF RecoveryStep, LeaseStep, GrantsInHand, ProtocolInv, JobsFit
  <2>2. pc[p] # "reconfirm"
    BY <1>2, <2>1 DEF GrantFits, JobFits, Approving
  <2> QED BY <1>1, <2>1, <2>2 DEF GrantFits, HasRecorded, Exists
<1> QED BY <1>3, <1>4 DEF GrantsInHand

LEMMA GrantsStep ==
  ASSUME ProtocolInv, TurnsApart, GrantsInHand, [ProtocolNext]_protocolVars
  PROVE  GrantsInHand'
<1>1. CASE ~setting.leaseHolds
  BY <1>1, SettingStays DEF GrantsInHand
<1>2. CASE setting.leaseHolds
  <2>1. LeaseStep /\ RecoveryStep
    BY <1>2, LeaseGoesOn DEF RecoveryStep
  <2>2. ASSUME NEW p \in Procs, Submission(p) \/ Receive(p) \/ TimeOut(p) \/ Crash(p)
        PROVE  GrantsInHand'
    BY <2>1, <2>2, RequestKeepsGrants, MarkKeepsGrants, RecordKeepsGrants, AdvanceKeepsGrants,
       SealKeepsGrants, SettleKeepsGrants, CrashKeepsGrants DEF Submission
  <2>3. ASSUME NEW w \in Workers, Approve(w) \/ WorkerStep(w)
        PROVE  GrantsInHand'
    <3>1. w \in Procs
      BY DEF Procs
    <3>2. ~Taken(w)
      BY <2>1 DEF Taken, LeaseStep, TurnsApart, WorkerIsRight, TellsRight
    <3> QED BY <2>1, <2>2, <2>3, <3>1, <3>2, ApproveKeepsGrants, PersistKeepsGrants,
               IssueKeepsGrants, PreflightKeepsGrants, VoidKeepsGrants, ReconfirmKeepsGrants,
               RepresentKeepsGrants, ReserveKeepsGrants
            DEF WorkerStep
  <2>4. ASSUME NEW r \in Reconcilers, Pick(r) \/ ReconcilerStep(r)
        PROVE  GrantsInHand'
    <3>1. r \in Procs
      BY DEF Procs
    <3> QED BY <2>1, <2>2, <2>4, <3>1, PickKeepsGrants, RecoverKeepsGrants DEF ReconcilerStep
  <2>5. ASSUME NEW i \in Calls, ServiceStep(i)
        PROVE  GrantsInHand'
    <3>1. UNCHANGED <<storeVars, pc, job>>
      BY <2>5 DEF ServiceStep, Serve, ServeOverlapping, Abandon
    <3> QED BY <2>1, <3>1, ServiceKeepsGrants
  <2>6. CASE Order \/ UNCHANGED protocolVars
    <3>1. UNCHANGED <<storeVars, pc, job>>
      BY <2>6 DEF Order, protocolVars
    <3> QED BY <2>1, <3>1, ServiceKeepsGrants
  <2>7. CASE PresentCard
    BY <2>1, <2>7, PresentCardKeepsGrants
  <2> QED BY <2>2, <2>3, <2>4, <2>5, <2>6, <2>7 DEF ProtocolNext
<1> QED BY <1>1, <1>2

LEMMA GrantsBegin == ProtocolInit => GrantsInHand
<1> SUFFICES ASSUME ProtocolInit PROVE GrantsInHand
  OBVIOUS
<1>1. /\ \A p \in Procs : pc[p] = "idle"
      /\ \A a \in Attempts : ~Exists(attempts[a])
  BY DEF ProtocolInit, Init, Absent, Exists
<1>2. \A p \in Procs : GrantFits(pc[p], job[p])
  BY <1>1 DEF GrantFits, HasRecorded, Submitting
<1> QED BY <1>1, <1>2 DEF GrantsInHand, ReservationsStand, AttemptsAreListed, Open

(* While the lease keeps turns apart, a turn that has come to an Attempt's   *)
(* outcome has its Receipt, and the Grant of an Attempt without one is       *)
(* RESERVED: the revocations of Void, Reconfirm and Settle never reach it    *)
(* (commit_action_node, reconcile_attempts, revoke_grant).                   *)
THEOREM ReservationsOutliveTurns == ProtocolSpec => []GrantsInHand
<1>1. ProtocolInv /\ TurnsApart /\ GrantsInHand /\ [ProtocolNext]_protocolVars => GrantsInHand'
  BY GrantsStep
<1> QED BY <1>1, GrantsBegin, ProtocolInvariance, LeaseKeepsTurnsApart, PTL DEF ProtocolSpec

(* What is known of an Attempt is enough to close it. *)
LEMMA AttemptCloses ==
  ASSUME ProtocolInv, GrantsInHand, setting.leaseHolds,
         NEW a \in Attempts, Exists(attempts[a]), attempts[a].state \notin SealedAttemptStates
  PROVE  CanBeClosed(a)
<1> PICK s : s = attempts[a].state
  OBVIOUS
<1>1. IndInv /\ TypeOK
  BY DEF ProtocolInv, IndInv
<1>2. attempts[a] \in AttemptRow /\ attempts[a].draft = Draft
  BY <1>1, RowsAreTyped, OneDraft DEF AttemptRow
<1>3. s \in {"STARTED", "SUBMISSION_UNKNOWN"} /\ attempts[a].handle = None
  BY <1>2 DEF AttemptRow, AttemptStates, GrantsInHand, AttemptsAreListed
<1>4. CASE Exists(receipts[a])
  <2>1. receipts[a].state \in ReceiptStates /\ receipts[a].handle # None
    BY <1>1, <1>4, RowsAreTyped, Bounds DEF ReceiptRow
  <2> PICK t : t = IF Succeeded(a) THEN "ACKED" ELSE "FAILED_FINAL"
    OBVIOUS
  <2>2. OutcomeAgrees(t, receipts[a].state) /\ t \in SealedAttemptStates
    BY <1>4, <2>1 DEF Succeeded, OutcomeAgrees, SealedAttemptStates, ReceiptStates
  <2>3. t \in AttemptNext(s)
    BY <1>3, <2>2 DEF AttemptNext, AttemptStates, SealedAttemptStates
  <2>4. MayTransition(a, t, receipts[a].handle)
    BY <1>3, <1>4, <2>1, <2>2, <2>3 DEF MayTransition, AttemptUpdateAllowed, Exists
  <2> QED BY <1>3, <1>4, <2>4 DEF CanBeClosed
<1>5. CASE ~Exists(receipts[a])
  <2>1. /\ Exists(grants[attempts[a].grant])
        /\ SameCommand(grants[attempts[a].grant], attempts[a])
    BY <1>1 DEF IndInv, AttemptSpendsItsGrant
  <2>2. grants[attempts[a].grant].state = "RESERVED"
    BY <1>5 DEF GrantsInHand, ReservationsStand, Open
  <2>3. \A t \in ReceiptStates : MayRecord(a, Draft, t)
    BY <1>2, <1>5, <2>1, <2>2 DEF MayRecord, ReceiptBindingValid, Exists
  <2> QED BY <1>3, <1>5, <2>3 DEF CanBeClosed
<1> QED BY <1>4, <1>5

(* While the lease keeps turns apart no Attempt is stranded, on either       *)
(* database and whatever turns die, time out or find the order changed:      *)
(* reconcile_attempts lists every Attempt that is not sealed, and            *)
(* record_receipt or transition_attempt accepts whichever outcome it finds.  *)
THEOREM AttemptsCanBeClosed == ProtocolSpec => []NoAttemptIsStranded
<1>1. ProtocolInv /\ GrantsInHand => NoAttemptIsStranded
  BY AttemptCloses DEF NoAttemptIsStranded
<1> QED BY <1>1, ProtocolInvariance, ReservationsOutliveTurns, PTL
-----------------------------------------------------------------------------
(* Outcomes are recorded together while no turn dies *)

\* A step under the lease of turns that do not die.
TogetherStep ==
  /\ RecoveryStep /\ OutcomesAreFinal
  /\ OutcomesTogether /\ ~setting.mayCrash /\ setting' = setting

LEMMA TogetherFacts ==
  ASSUME TogetherStep
  PROVE  /\ RecoveryStep /\ LeaseStep /\ ProtocolInv /\ IndInv /\ TypeOK /\ RowsStay
         /\ \A p \in Procs : OutcomeFits(pc[p], job[p])
         /\ SettledBut(None) \/ \E p \in Procs : Recording(pc[p], job[p])
  BY TypesHold DEF TogetherStep, RecoveryStep, LeaseStep, OutcomesTogether

\* A turn that acts and has recorded nothing finds the tables in agreement.
LEMMA NothingInHand ==
  ASSUME TogetherStep, NEW p \in Procs, Alone(p), ~Recording(pc[p], job[p])
  PROVE  SettledBut(None)
  BY TogetherFacts DEF Alone, Recording, Resting, Ends

\* An outcome that is in all four tables stays there.
LEMMA SettledStays ==
  ASSUME TogetherStep, NEW a \in Attempts, Exists(receipts[a]), Settled(a)
  PROVE  Settled(a)'
<1>1. Exists(attempts[a]) /\ attempts[a] \in AttemptRow
  BY TogetherFacts, RowsAreTyped DEF IndInv, ReceiptsCloseAttempts
<1>2. attempts'[a] = attempts[a] /\ receipts'[a] = receipts[a]
  BY <1>1 DEF TogetherStep, OutcomesAreFinal, Settled
<1>3. grants'[attempts[a].grant] = grants[attempts[a].grant]
  BY <1>1 DEF TogetherStep, OutcomesAreFinal, Settled, AttemptRow
<1>4. Succeeded(a) => drafts'[Draft].state = "COMMITTED"
  BY OneDraft DEF TogetherStep, OutcomesAreFinal, Settled, SealedDraftStates
<1> QED BY <1>2, <1>3, <1>4 DEF Settled, Succeeded, Exists

LEMMA ReceiptsStaySettled ==
  ASSUME TogetherStep, NEW a, ReceiptsSettledBut(a),
         \A b \in Attempts \ {a} : receipts'[b] = receipts[b]
  PROVE  ReceiptsSettledBut(a)'
  BY SettledStays DEF ReceiptsSettledBut, Exists

\* No Grant becomes RESERVED.
LEMMA ReservationsStay ==
  ASSUME TogetherStep, ReservedForAttempts,
         \A g \in Grants : grants'[g].state = "RESERVED" =>
           grants[g].state = "RESERVED" /\ grants'[g].attempt = grants[g].attempt
  PROVE  ReservedForAttempts'
  BY TogetherFacts DEF RowsStay, ReservedForAttempts, Exists

\* The Draft stays as it is, and no Attempt is new.
LEMMA FlightStays ==
  ASSUME TogetherStep, NEW a, FlightIsOpenBut(a), UNCHANGED <<drafts, receipts>>,
         \A b \in Attempts : Exists(attempts'[b]) => Exists(attempts[b])
  PROVE  FlightIsOpenBut(a)'
  BY TogetherFacts DEF RowsStay, FlightIsOpenBut, Open, Exists

\* A call that leaves Draft and Receipts alone and reserves nothing.
LEMMA SettledButStays ==
  ASSUME TogetherStep, NEW a, SettledBut(a), UNCHANGED <<drafts, receipts>>,
         \A b \in Attempts : Exists(attempts'[b]) => Exists(attempts[b]),
         \A g \in Grants : grants'[g].state = "RESERVED" =>
           grants[g].state = "RESERVED" /\ grants'[g].attempt = grants[g].attempt
  PROVE  SettledBut(a)'
  BY ReceiptsStaySettled, ReservationsStay, FlightStays DEF SettledBut

LEMMA SettledButIdle ==
  ASSUME TogetherStep, NEW a, SettledBut(a), UNCHANGED storeVars
  PROVE  SettledBut(a)'
  BY SettledButStays DEF storeVars, vars

\* A call on one Grant that is not a reservation.
LEMMA SettledButGrantCall ==
  ASSUME TogetherStep, NEW a, SettledBut(a), NEW g \in Grants,
         \/ Revoke(g)
         \/ \E b, h : ConsumeGrant(g, b, h)
         \/ \E r, c : RejectReservation(g, Draft, r, c) \/ ExpireGrant(g, Draft, r, c)
         \/ \E r, c, k : IssueGrant(g, Draft, r, c, k)
         \/ UNCHANGED storeVars
  PROVE  SettledBut(a)'
<1>1. UNCHANGED <<drafts, attempts, receipts>>
  BY DEF Revoke, RevokeGrant, ConsumeGrant, RejectReservation, ExpireGrant, IssueGrant,
     storeVars, vars
<1>2. \A x \in Grants : x # g => grants'[x] = grants[x]
  BY TogetherFacts DEF TypeOK, Revoke, RevokeGrant, ConsumeGrant, RejectReservation,
     ExpireGrant, IssueGrant, storeVars, vars
<1>3. grants'[g].state # "RESERVED" \/ grants'[g] = grants[g]
  <2>1. CASE \E r, c, k : IssueGrant(g, Draft, r, c, k)
    BY <2>1, TogetherFacts DEF IssueGrant, TypeOK
  <2>2. ASSUME Exists(grants[g]), NEW s, s # "RESERVED",
               \/ grants' = [grants EXCEPT ![g].state = s]
               \/ \E h : grants' = [grants EXCEPT ![g].state = s, ![g].handle = h]
        PROVE  grants'[g].state # "RESERVED"
    BY <2>2, TogetherFacts, RowsAreTyped DEF TypeOK, GrantRow
  <2> QED BY <2>1, <2>2 DEF Revoke, RevokeGrant, ConsumeGrant, MayConsume, RejectReservation,
             ExpireGrant, storeVars, vars
<1> QED BY <1>1, <1>2, <1>3, SettledButStays DEF Exists

-----------------------------------------------------------------------------
(* The turns *)

\* The turn that acts takes its outcome along; all others rest.
LEMMA OutcomeGoesAlong ==
  ASSUME TogetherStep, NEW p \in Procs, Alone(p), NEW s, NEW j, Carry(p, s, j),
         OutcomeFits(s, j)', SettledBut(None)' \/ Recording(s, j)
  PROVE  OutcomesTogether'
<1>1. /\ pc'[p] = s /\ job'[p] = j
      /\ \A q \in Procs : q # p => pc'[q] = pc[q] /\ pc[q] \in Resting
  BY TogetherFacts DEF Carry, ProtocolInv, JobsFit, Alone
<1>2. ASSUME NEW q \in Procs PROVE OutcomeFits(pc[q], job[q])'
  <2>1. CASE q = p
    BY <1>1, <2>1 DEF OutcomeFits, RecordingFits, UnrecordedFits, Recording
  <2>2. CASE q # p
    BY <1>1, <2>2 DEF OutcomeFits, Recording, Resting, Ends, Submitting
  <2> QED BY <2>1, <2>2
<1> QED BY <1>1, <1>2 DEF OutcomesTogether, Recording

LEMMA TurnRests ==
  ASSUME TogetherStep, NEW p \in Procs, Alone(p), NEW end \in Resting, Finish(p, end),
         SettledBut(None)'
  PROVE  OutcomesTogether'
<1>1. PICK j : \E s \in Resting : Carry(p, s, j)
  BY DEF Finish, Resting
<1>2. PICK s \in Resting : Carry(p, s, j)
  BY <1>1
<1>3. OutcomeFits(s, j)'
  BY DEF OutcomeFits, Recording, Resting, Ends, Submitting
<1> QED BY <1>2, <1>3, OutcomeGoesAlong

\* A turn on its way to a submission.
LEMMA TurnApproves ==
  ASSUME TogetherStep, NEW p \in Procs, Alone(p), NEW s \in Approving, NEW j, Carry(p, s, j),
         SettledBut(None)'
  PROVE  OutcomesTogether'
<1>1. OutcomeFits(s, j)'
  BY DEF OutcomeFits, Recording, Approving, Submitting
<1> QED BY <1>1, OutcomeGoesAlong

\* What a turn at s has in hand when it acts.
LEMMA TurnHasOutcome ==
  ASSUME TogetherStep, NEW p \in Procs, NEW s, s \notin Resting, pc[p] = s
  PROVE  /\ Alone(p) /\ job[p] \in JobRow /\ JobFits(s, job[p]) /\ GrantFits(s, job[p])
         /\ OutcomeFits(s, job[p])
         /\ p \in Workers => WorkerIsRight(s, job[p])
         /\ ~Recording(s, job[p]) => SettledBut(None)
  BY TurnHasGrant, NothingInHand, TogetherFacts

LEMMA ApprovingHasNone ==
  ASSUME TogetherStep, NEW w \in Workers, NEW s \in Approving, pc[w] = s
  PROVE  /\ w \in Procs /\ Alone(w) /\ SettledBut(None) /\ ProtocolInv
         /\ job[w] \in JobRow /\ JobFits(s, job[w]) /\ WorkerIsRight(s, job[w])
  BY TurnHasOutcome, TogetherFacts DEF Procs, Approving, Recording, Resting, Ends

-----------------------------------------------------------------------------
(* Approval and preflight: no Attempt is in hand *)

LEMMA ApproveTogether ==
  ASSUME TogetherStep, NEW w \in Workers, Approve(w)
  PROVE  OutcomesTogether'
<1>1. PICK j : Carry(w, "persist", j)
  BY DEF Approve
<1>2. w \in Procs /\ Alone(w)
  BY TogetherFacts, ActsAlone DEF Approve, MayStart, LeaseStep, Procs
<1>3. ~Recording(pc[w], job[w])
  BY DEF Approve, Recording
<1>4. SettledBut(None)'
  BY <1>2, <1>3, NothingInHand, SettledButIdle DEF Approve
<1> QED BY <1>1, <1>2, <1>4, TurnApproves DEF Approving

\* A card replaces nothing that is in flight.
LEMMA CardSettles ==
  ASSUME TogetherStep, SettledBut(None), drafts[Draft].state \notin InFlightStates,
         NEW row, row.state = "AWAITING_AUTHORIZATION", TryCreate(row)
  PROVE  SettledBut(None)'
<1>1. CASE UNCHANGED storeVars
  BY <1>1, SettledButIdle
<1>2. CASE CreateDraft(Draft, row)
  <2>1. UNCHANGED <<grants, attempts, receipts>> /\ drafts'[Draft] = row
    BY <1>2, OneDraft, TogetherFacts DEF CreateDraft, TypeOK
  <2>2. FlightIsOpenBut(None)'
    BY <2>1 DEF SettledBut, FlightIsOpenBut, Open, InFlightStates
  <2> QED BY <2>1, <2>2, ReceiptsStaySettled, ReservationsStay DEF SettledBut
<1> QED BY <1>1, <1>2 DEF TryCreate, Try

LEMMA PersistTogether ==
  ASSUME TogetherStep, NEW w \in Workers, PersistAuthority(w)
  PROVE  OutcomesTogether'
<1>1. /\ w \in Procs /\ Alone(w) /\ SettledBut(None) /\ ProtocolInv
      /\ WorkerIsRight("persist", job[w])
  BY ApprovingHasNone DEF PersistAuthority, Approving
<1>2. drafts[Draft].state \notin InFlightStates
  BY <1>1 DEF WorkerIsRight, HoldsRow, Approving, InFlightStates
<1>3. SettledBut(None)'
  BY <1>1, <1>2, CardSettles DEF PersistAuthority, CardRow
<1>4. CASE Goto(w, "issue")
  BY <1>1, <1>3, <1>4, GotoCarries, TurnApproves DEF ProtocolInv, Approving
<1>5. CASE Finish(w, "stopped")
  BY <1>1, <1>3, <1>5, TurnRests DEF Resting, Ends
<1> QED BY <1>4, <1>5 DEF PersistAuthority

LEMMA IssueTogether ==
  ASSUME TogetherStep, NEW w \in Workers, Issue(w)
  PROVE  OutcomesTogether'
<1>1. w \in Procs /\ Alone(w) /\ SettledBut(None)
  BY ApprovingHasNone DEF Issue, Approving
<1>2. SettledBut(None)'
  BY <1>1, SettledButIdle, SettledButGrantCall DEF Issue
<1>3. ASSUME NEW k, Carry(w, "preflight", k) PROVE OutcomesTogether'
  BY <1>1, <1>2, <1>3, TurnApproves DEF Approving
<1>4. CASE Finish(w, "stopped")
  BY <1>1, <1>2, <1>4, TurnRests DEF Resting, Ends
<1> QED BY <1>3, <1>4 DEF Issue

LEMMA PreflightTogether ==
  ASSUME TogetherStep, NEW w \in Workers, Preflight(w)
  PROVE  OutcomesTogether'
<1>1. w \in Procs /\ Alone(w) /\ SettledBut(None) /\ ProtocolInv
  BY ApprovingHasNone DEF Preflight, Approving
<1>2. SettledBut(None)'
  BY <1>1, SettledButIdle DEF Preflight
<1>3. \E s \in Approving : \E k : Carry(w, s, k)
  BY <1>1, GotoCarries DEF Preflight, ProtocolInv, Approving
<1> QED BY <1>1, <1>2, <1>3, TurnApproves

LEMMA VoidTogether ==
  ASSUME TogetherStep, NEW w \in Workers, Void(w)
  PROVE  OutcomesTogether'
<1>1. w \in Procs /\ Alone(w) /\ SettledBut(None) /\ job[w].grant \in Grants
  BY ApprovingHasNone DEF Void, Approving, JobFits
<1>2. SettledBut(None)'
  BY <1>1, SettledButGrantCall DEF Void
<1> QED BY <1>1, <1>2, TurnRests DEF Void, Resting, Ends

LEMMA ReconfirmTogether ==
  ASSUME TogetherStep, NEW w \in Workers, Reconfirm(w)
  PROVE  OutcomesTogether'
<1>1. /\ w \in Procs /\ Alone(w) /\ SettledBut(None) /\ ProtocolInv
      /\ job[w].grant \in Grants
  BY ApprovingHasNone DEF Reconfirm, Approving, JobFits
<1>2. SettledBut(None)'
  BY <1>1, SettledButGrantCall DEF Reconfirm
<1>3. Carry(w, "represent", job[w])
  BY <1>1, GotoCarries DEF Reconfirm, ProtocolInv
<1> QED BY <1>1, <1>2, <1>3, TurnApproves DEF Approving

LEMMA RepresentTogether ==
  ASSUME TogetherStep, NEW w \in Workers, Represent(w)
  PROVE  OutcomesTogether'
<1>1. /\ w \in Procs /\ Alone(w) /\ SettledBut(None)
      /\ WorkerIsRight("represent", job[w])
  BY ApprovingHasNone DEF Represent, Approving
<1>2. drafts[Draft].state \notin InFlightStates
  BY <1>1 DEF WorkerIsRight, HoldsRow, Approving, InFlightStates
<1>3. SettledBut(None)'
  BY <1>1, <1>2, CardSettles DEF Represent, CardRow
<1> QED BY <1>1, <1>3, TurnRests DEF Represent, Resting, Ends

(* The reservation puts Draft, Grant and Attempt in flight in one step. *)
LEMMA ReserveTogether ==
  ASSUME TogetherStep, NEW w \in Workers, Reserve(w)
  PROVE  OutcomesTogether'
<1> PICK j : j = job[w]
  OBVIOUS
<1>1. /\ w \in Procs /\ Alone(w) /\ SettledBut(None) /\ j \in JobRow
      /\ WorkerIsRight("reserve", j) /\ j.grant \in Grants
  BY ApprovingHasNone DEF Reserve, Approving, JobFits
<1>2. CASE /\ Finish(w, "unknown")
           /\ \/ RejectReservation(j.grant, Draft, j.revision, j.digest)
              \/ ExpireGrant(j.grant, Draft, j.revision, j.digest)
              \/ UNCHANGED storeVars
  <2>1. SettledBut(None)'
    BY <1>1, <1>2, SettledButGrantCall
  <2> QED BY <1>1, <1>2, <2>1, TurnRests DEF Resting, Ends
<1>3. ASSUME NEW a \in Attempts,
             ReserveGrantAndStartAttempt(j.grant, a, Draft, j.revision, j.digest),
             Carry(w, "send", [j EXCEPT !.attempt = a])
      PROVE  OutcomesTogether'
  <2> PICK k : k = [j EXCEPT !.attempt = a]
    OBVIOUS
  <2>1. k.attempt = a /\ k.handle = None
    BY <1>1 DEF JobRow, WorkerIsRight, TellsRight
  <2>2. grants[j.grant] \in GrantRow /\ drafts[Draft] \in DraftRow
    <3>1. Exists(grants[j.grant]) /\ Exists(drafts[Draft])
      BY <1>1, <1>3 DEF ReserveGrantAndStartAttempt, MayReserve, WorkerIsRight, HoldsRow, Approving,
         Exists
    <3> QED BY <1>1, <3>1, OneDraft, TogetherFacts, RowsAreTyped
  <2>3. /\ grants'[j.grant].state = "RESERVED" /\ grants'[j.grant].attempt = a
        /\ \A g \in Grants : g # j.grant => grants'[g] = grants[g]
        /\ attempts'[a].state = "STARTED" /\ attempts'[a].grant = j.grant
        /\ \A b \in Attempts : b # a => attempts'[b] = attempts[b]
        /\ UNCHANGED receipts
    BY <1>1, <1>3, <2>2, TogetherFacts DEF TypeOK, ReserveGrantAndStartAttempt, GrantRow
  <2>4. drafts'[Draft].state = "COMMITTING" /\ drafts'[Draft].attempt = a
    BY <1>3, <2>2, OneDraft, TogetherFacts
    DEF TypeOK, ReserveGrantAndStartAttempt, Committing, DraftRow
  <2>5. Open(a)'
    BY <1>3, <2>3, TogetherFacts
    DEF IndInv, ReceiptsCloseAttempts, ReserveGrantAndStartAttempt, Open, Exists
  <2>6. drafts[Draft].state \notin InFlightStates
    BY <1>1 DEF WorkerIsRight, HoldsRow, Approving, InFlightStates
  <2>7. FlightIsOpenBut(None)'
    BY <1>1, <2>3, <2>4, <2>5, <2>6 DEF SettledBut, FlightIsOpenBut, Open, Exists, InFlightStates
  <2>8. ReservedForAttempts'
    BY <1>1, <2>3, TogetherFacts DEF RowsStay, SettledBut, ReservedForAttempts, Exists
  <2>9. SettledBut(None)'
    BY <1>1, <2>3, <2>7, <2>8, ReceiptsStaySettled DEF SettledBut
  <2>10. OutcomeFits("send", k)'
    BY <2>1, <2>5 DEF OutcomeFits, Recording, UnrecordedFits
  <2> QED BY <1>1, <1>3, <2>9, <2>10, OutcomeGoesAlong
<1>4. \A a \in Attempts : ~AttemptOf(a, Draft, j.digest)
  BY <1>1, TogetherFacts
  DEF LeaseStep, TurnsApart, CardIsFresh, KeyTaken, WorkerIsRight, HoldsRow, Approving
<1> QED BY <1>2, <1>3, <1>4 DEF Reserve

-----------------------------------------------------------------------------
(* The submission: an open Attempt is in hand *)

\* The turn moves on with its Attempt, which has no Receipt yet.
LEMMA UnrecordedGoesOn ==
  ASSUME TogetherStep, NEW p \in Procs, Alone(p), Open(job[p].attempt),
         SettledBut(None)', receipts' = receipts, job[p].attempt \in Attempts,
         NEW s \in {"recover", "send", "wait", "mark", "record", "advance"}, NEW k,
         Carry(p, s, k), k.attempt = job[p].attempt, k.handle = None,
         s = "record" => k.result \in OutcomeStates,
         s \in {"mark", "advance"} => k.result = "SUBMISSION_UNKNOWN"
  PROVE  OutcomesTogether'
<1>1. Open(k.attempt)'
  BY TogetherFacts DEF Open, RowsStay, Exists
<1>2. OutcomeFits(s, k)'
  BY <1>1 DEF OutcomeFits, Recording, UnrecordedFits
<1> QED BY <1>2, OutcomeGoesAlong

\* What a turn has in hand that has recorded nothing.
LEMMA UnrecordedTurn ==
  ASSUME TogetherStep, NEW p \in Procs, NEW s \in Submitting, pc[p] = s,
         ~Recording(s, job[p])
  PROVE  /\ Alone(p) /\ job[p] \in JobRow /\ JobFits(s, job[p]) /\ GrantFits(s, job[p])
         /\ SettledBut(None) /\ UnrecordedFits(s, job[p]) /\ ProtocolInv
         /\ job[p].attempt \in Attempts /\ AttemptOf(job[p].attempt, Draft, job[p].digest)
<1>1. s \notin Resting
  BY DEF Submitting, Resting, Ends
<1> QED BY <1>1, TurnHasOutcome, TogetherFacts DEF OutcomeFits, JobFits

LEMMA RequestTogether ==
  ASSUME TogetherStep, NEW p \in Procs, SendCommand(p) \/ Receive(p) \/ TimeOut(p)
  PROVE  OutcomesTogether'
<1> PICK j : j = job[p]
  OBVIOUS
<1>1. pc[p] \in {"send", "wait"} /\ UNCHANGED storeVars
  BY DEF SendCommand, Receive, TimeOut
<1>2. /\ Alone(p) /\ j \in JobRow /\ SettledBut(None) /\ UnrecordedFits(pc[p], j)
      /\ j.attempt \in Attempts
  BY <1>1, UnrecordedTurn DEF Submitting, Recording
<1>3. SettledBut(None)' /\ receipts' = receipts
  BY <1>1, <1>2, SettledButIdle DEF storeVars, vars
<1>4. ASSUME NEW i, NEW r, NEW s,
             \/ s = "wait" /\ Carry(p, s, [j EXCEPT !.call = i])
             \/ /\ s = "record" /\ r \in OutcomeStates
                /\ Carry(p, s, [j EXCEPT !.call = i, !.result = r])
             \/ /\ s = "mark" /\ r = "SUBMISSION_UNKNOWN"
                /\ Carry(p, s, [j EXCEPT !.call = i, !.result = r])
      PROVE  OutcomesTogether'
  <2>1. CASE s = "wait" /\ Carry(p, s, [j EXCEPT !.call = i])
    <3> PICK k : k = [j EXCEPT !.call = i]
      OBVIOUS
    <3>1. k.attempt = j.attempt /\ k.handle = None
      BY <1>2 DEF JobRow, UnrecordedFits
    <3> QED BY <1>2, <1>3, <2>1, <3>1, UnrecordedGoesOn DEF UnrecordedFits
  <2>2. CASE s \in {"record", "mark"} /\ Carry(p, s, [j EXCEPT !.call = i, !.result = r])
    <3> PICK k : k = [j EXCEPT !.call = i, !.result = r]
      OBVIOUS
    <3>1. k.attempt = j.attempt /\ k.handle = None /\ k.result = r
      BY <1>2 DEF JobRow, UnrecordedFits
    <3> QED BY <1>2, <1>3, <1>4, <2>2, <3>1, UnrecordedGoesOn DEF UnrecordedFits
  <2> QED BY <1>4, <2>1, <2>2
<1>5. CASE SendCommand(p)
  BY <1>4, <1>5 DEF SendCommand
<1>6. CASE Receive(p)
  BY <1>4, <1>6 DEF Receive, OutcomeStates
<1>7. CASE TimeOut(p)
  BY <1>4, <1>7 DEF TimeOut
<1> QED BY <1>5, <1>6, <1>7

\* transition_attempt touches the one Attempt only.
LEMMA SettledButTransition ==
  ASSUME TogetherStep, NEW a, SettledBut(a), NEW b \in Attempts, NEW s, NEW h,
         TransitionAttempt(b, s, h)
  PROVE  SettledBut(a)'
<1>1. /\ UNCHANGED <<drafts, grants, receipts>> /\ Exists(attempts[b])
      /\ \A x \in Attempts : x # b => attempts'[x] = attempts[x]
  BY TogetherFacts DEF TypeOK, TransitionAttempt, MayTransition
<1> QED BY <1>1, SettledButStays DEF Exists

LEMMA MarkTogether ==
  ASSUME TogetherStep, NEW p \in Procs, Mark(p)
  PROVE  OutcomesTogether'
<1>1. /\ Alone(p) /\ SettledBut(None) /\ UnrecordedFits("mark", job[p]) /\ ProtocolInv
      /\ job[p].attempt \in Attempts
  BY UnrecordedTurn DEF Mark, Submitting, Recording
<1>2. SettledBut(None)'
  BY <1>1, SettledButIdle, SettledButTransition DEF Mark, TryTransition, Try
<1>3. receipts' = receipts
  BY DEF Mark, TryTransition, Try, TransitionAttempt, storeVars, vars
<1>4. Carry(p, "advance", job[p])
  BY <1>1, GotoCarries DEF Mark, ProtocolInv
<1> QED BY <1>1, <1>2, <1>3, <1>4, UnrecordedGoesOn DEF UnrecordedFits

(* The Receipt of an open Attempt is never refused; from here on the turn    *)
(* has an outcome to settle.                                                 *)
LEMMA RecordTogether ==
  ASSUME TogetherStep, NEW p \in Procs, Record(p)
  PROVE  OutcomesTogether'
<1> PICK j : j = job[p]
  OBVIOUS
<1> PICK a : a = j.attempt
  OBVIOUS
<1> PICK s : s = IF j.result = "COMMITTED" THEN "SUCCESS" ELSE "FAILED"
  OBVIOUS
<1>1. /\ Alone(p) /\ j \in JobRow /\ SettledBut(None) /\ UnrecordedFits("record", j)
      /\ JobFits("record", j) /\ GrantFits("record", j)
      /\ a \in Attempts /\ AttemptOf(a, Draft, j.digest) /\ Open(a)
  BY UnrecordedTurn DEF Record, Submitting, Recording, UnrecordedFits
<1>2. /\ attempts[a] \in AttemptRow /\ attempts[a].draft = Draft
      /\ attempts[a].state \notin SealedAttemptStates
  BY <1>1, TogetherFacts, RowsAreTyped DEF IndInv, ReceiptsCloseAttempts, Open, AttemptOf
<1>3. /\ attempts[a].grant = j.grant /\ j.grant \in Grants
      /\ grants[j.grant].state = "RESERVED" /\ SameCommand(grants[j.grant], attempts[a])
  <2>1. /\ Exists(grants[attempts[a].grant]) /\ SameCommand(grants[attempts[a].grant], attempts[a])
        /\ grants[attempts[a].grant].state = "RESERVED"
    BY <1>1, TogetherFacts
    DEF IndInv, AttemptSpendsItsGrant, RecoveryStep, LeaseStep, GrantsInHand, ReservationsStand,
        Open
  <2>2. j.grant \in Grants /\ Exists(grants[j.grant]) /\ grants[j.grant].digest = j.digest
    BY <1>1 DEF JobFits, GrantFits, Submitting
  <2>3. attempts[a].grant = j.grant
    BY <1>1, <1>2, <2>1, <2>2, TogetherFacts
    DEF LeaseStep, TurnsApart, OneGrantPerCommand, SameCommand, AttemptOf, AttemptRow
  <2> QED BY <2>1, <2>2, <2>3
<1>4. ReceiptBindingValid(attempts[a], grants[attempts[a].grant], Draft, s)
  BY <1>1, <1>2, <1>3 DEF ReceiptBindingValid, Open, Exists
<1>5. /\ RecordReceipt(a, Draft, s, p)
      /\ Carry(p, "advance", [j EXCEPT !.handle = p])
  BY <1>1, <1>4 DEF Record, Open
<1> PICK k : k = [j EXCEPT !.handle = p]
  OBVIOUS
<1>6. k.attempt = a /\ k.handle = p /\ k.result = j.result /\ k.grant = j.grant
  BY <1>1 DEF JobRow
<1>7. /\ UNCHANGED <<drafts, grants, attempts>>
      /\ receipts'[a] = [state |-> s, handle |-> p]
      /\ \A b \in Attempts : b # a => receipts'[b] = receipts[b]
  BY <1>1, <1>5, TogetherFacts DEF TypeOK, RecordReceipt
<1>8. /\ drafts[Draft].state \in InFlightStates /\ drafts[Draft].attempt = a
      /\ SameCommand(attempts[a], Command(drafts[Draft]))
  <2>1. Unrefuted(a)
    BY <1>1 DEF Unrefuted, Open
  <2> QED BY <1>1, <1>2, <2>1, TogetherFacts
          DEF SettledBut, FlightIsOpenBut, IndInv, UnrefutedAttemptHoldsDraft, SameCommand, Command
<1>9. SettledBut(a)'
  <2>1. ReceiptsSettledBut(a)'
    <3>1. ReceiptsSettledBut(a)
      BY <1>1, NoneAssumption DEF SettledBut, ReceiptsSettledBut
    <3>2. \A b \in Attempts \ {a} : receipts'[b] = receipts[b]
      BY <1>7
    <3> QED BY <3>1, <3>2, ReceiptsStaySettled
  <2>2. FlightIsOpenBut(a)'
    BY <1>1, <1>7, <1>8 DEF SettledBut, FlightIsOpenBut, Open, Exists
  <2> QED BY <1>1, <1>7, <2>1, <2>2, ReservationsStay DEF SettledBut
<1>10. Exists(receipts[a])' /\ (Succeeded(a)' <=> j.result = "COMMITTED")
  BY <1>7 DEF Succeeded, Exists
<1>11. Recording("advance", k)
  BY <1>6, Bounds DEF Recording
<1>12. RecordingFits("advance", k)'
  BY <1>1, <1>2, <1>3, <1>6, <1>7, <1>8, <1>9, <1>10
  DEF RecordingFits, UnrecordedFits, SameCommand, Command
<1>13. OutcomeFits("advance", k)'
  BY <1>11, <1>12 DEF OutcomeFits, Recording
<1> QED BY <1>1, <1>5, <1>11, <1>13, OutcomeGoesAlong

-----------------------------------------------------------------------------
(* The recording: an Attempt with a Receipt is in hand *)

\* What a turn has in hand that has recorded its Attempt's Receipt.
LEMMA RecordingTurn ==
  ASSUME TogetherStep, NEW p \in Procs, NEW s \in {"advance", "seal", "settle"}, pc[p] = s,
         Recording(s, job[p])
  PROVE  /\ Alone(p) /\ job[p] \in JobRow /\ JobFits(s, job[p]) /\ RecordingFits(s, job[p])
         /\ p \in Workers => WorkerIsRight(s, job[p])
         /\ ProtocolInv /\ job[p].attempt \in Attempts /\ job[p].grant \in Grants
         /\ AttemptOf(job[p].attempt, Draft, job[p].digest)
         /\ attempts[job[p].attempt] \in AttemptRow
         /\ receipts[job[p].attempt] \in ReceiptRow
<1>1. s \notin Resting /\ s \in Submitting
  BY DEF Submitting, Resting, Ends
<1>2. /\ Alone(p) /\ job[p] \in JobRow /\ JobFits(s, job[p]) /\ RecordingFits(s, job[p])
      /\ p \in Workers => WorkerIsRight(s, job[p])
      /\ ProtocolInv
  BY <1>1, TurnHasOutcome, TogetherFacts DEF OutcomeFits
<1>3. /\ job[p].attempt \in Attempts /\ job[p].grant \in Grants
      /\ AttemptOf(job[p].attempt, Draft, job[p].digest)
  BY <1>1, <1>2 DEF JobFits
<1>4. Exists(attempts[job[p].attempt]) /\ Exists(receipts[job[p].attempt])
  BY <1>2, <1>3 DEF AttemptOf, RecordingFits
<1> QED BY <1>2, <1>3, <1>4, TogetherFacts, RowsAreTyped

\* While an outcome is being settled no Attempt is open.
LEMMA NoneOpen ==
  ASSUME NEW s, NEW j, RecordingFits(s, j), j.attempt \in Attempts
  PROVE  \A b \in Attempts : ~Open(b)
  BY DEF RecordingFits, SettledBut, FlightIsOpenBut, Open

\* The outcome of the Attempt that a Draft in flight points at is accepted.
LEMMA OutcomeIsAccepted ==
  ASSUME TogetherStep, NEW p \in Procs, pc[p] = "advance", Recording("advance", job[p]),
         NEW r \in BOOLEAN
  PROVE  MayAdvance(Draft, job[p].result, drafts[Draft].revision, drafts[Draft].digest,
                    job[p].attempt, r)
<1> PICK j : j = job[p]
  OBVIOUS
<1> PICK a : a = j.attempt
  OBVIOUS
<1> PICK cur : cur = drafts[Draft]
  OBVIOUS
<1> PICK row : row = AdvancedRow(Draft, j.result, cur.revision, cur.digest, r)
  OBVIOUS
<1>1. /\ RecordingFits("advance", j) /\ a \in Attempts /\ AttemptOf(a, Draft, j.digest)
      /\ receipts[a] \in ReceiptRow
  BY RecordingTurn
<1>2. /\ cur.state \in InFlightStates /\ cur.attempt = a /\ j.result \in OutcomeStates
      /\ SameCommand(attempts[a], Command(cur))
      /\ Exists(receipts[a]) /\ (Succeeded(a) <=> j.result = "COMMITTED")
  BY <1>1 DEF RecordingFits
<1>3. cur \in DraftRow /\ Exists(cur)
  BY <1>2, OneDraft, TogetherFacts, RowsAreTyped DEF InFlightStates, Exists
<1>4. row.state = j.result /\ row.revision = cur.revision /\ row.digest = cur.digest
  BY <1>3 DEF AdvancedRow, DraftRow
<1>5. DraftUpdateAllowed(cur, row)
  BY <1>2, <1>3, <1>4, BoundAssumption
  DEF DraftUpdateAllowed, SealedDraftStates, InFlightStates, OutcomeStates, SameRevisionNext,
      DraftRow, Revisions
<1>6. AttemptAt(cur.attempt) = attempts[a] /\ ReceiptAt(cur.attempt) = receipts[a]
  BY <1>1, <1>2, NoneAssumption DEF AttemptAt, ReceiptAt
<1>7. TerminalObserved(Draft, cur, j.result, AttemptAt(cur.attempt), ReceiptAt(cur.attempt))
  BY <1>1, <1>2, <1>6
  DEF TerminalObserved, AttemptOf, Exists, SameCommand, Command, Succeeded, ReceiptRow,
      ReceiptStates
<1> QED BY <1>1, <1>3, <1>5, <1>7 DEF MayAdvance, AttemptOf

LEMMA AdvanceTogether ==
  ASSUME TogetherStep, NEW p \in Procs, Advance(p)
  PROVE  OutcomesTogether'
<1> PICK j : j = job[p]
  OBVIOUS
<1> PICK a : a = j.attempt
  OBVIOUS
<1>1. pc[p] = "advance"
  BY DEF Advance
<1> PICK rev : rev = IF p \in Workers THEN j.revision ELSE drafts[Draft].revision
  OBVIOUS
<1> PICK c : c = IF p \in Workers THEN j.digest ELSE drafts[Draft].digest
  OBVIOUS
<1> PICK r \in BOOLEAN : r <=> p \in Workers
  OBVIOUS
<1>2. TryAdvance(j.result, rev, c, a, r)
  <2>1. CASE p \in Workers
    <3>1. TryAdvance(j.result, j.revision, j.digest, a, TRUE)
      BY <2>1 DEF Advance
    <3> QED BY <2>1, <3>1
  <2>2. CASE p \notin Workers
    <3>1. TryAdvance(j.result, drafts[Draft].revision, drafts[Draft].digest, a, FALSE)
      BY <2>2 DEF Advance
    <3> QED BY <2>2, <3>1
  <2> QED BY <2>1, <2>2
<1>3. CASE Recording("advance", j)
  <2>1. /\ Alone(p) /\ RecordingFits("advance", j) /\ ProtocolInv /\ a \in Attempts
        /\ p \in Workers => WorkerIsRight("advance", j)
    BY <1>1, <1>3, RecordingTurn
  <2>2. rev = drafts[Draft].revision /\ c = drafts[Draft].digest
    BY <1>2, <2>1 DEF WorkerIsRight, HoldsRow, Approving, Submitting
  <2>3. AdvanceDraft(Draft, j.result, rev, c, a, r)
    BY <1>1, <1>2, <1>3, <2>2, OutcomeIsAccepted DEF TryAdvance, Try
  <2>4. drafts[Draft] \in DraftRow
    BY <2>1, OneDraft, TogetherFacts, RowsAreTyped DEF RecordingFits, InFlightStates, Exists
  <2>5. drafts'[Draft].state = j.result /\ UNCHANGED <<grants, attempts, receipts>>
    BY <2>3, <2>4, OneDraft, TogetherFacts DEF TypeOK, AdvanceDraft, AdvancedRow, DraftRow
  <2>6. /\ drafts'[Draft].state \notin InFlightStates
        /\ Succeeded(a) => drafts'[Draft].state = "COMMITTED"
    BY <2>1, <2>5 DEF RecordingFits, OutcomeStates, InFlightStates
  <2>7. FlightIsOpenBut(a)'
    BY <2>1, <2>5, <2>6, NoneOpen DEF FlightIsOpenBut, Open, Exists
  <2>8. SettledBut(a)'
    BY <2>1, <2>5, <2>7, ReceiptsStaySettled, ReservationsStay DEF RecordingFits, SettledBut
  <2>9. RecordingFits("seal", j)'
    BY <2>1, <2>5, <2>6, <2>8 DEF RecordingFits, Succeeded, Exists
  <2>10. OutcomeFits("seal", j)' /\ Recording("seal", j)
    BY <1>3, <2>9 DEF OutcomeFits, Recording
  <2>11. Goto(p, "seal")
    BY <1>3, <2>1 DEF Advance, Recording, RecordingFits, OutcomeStates
  <2>12. Carry(p, "seal", j)
    BY <2>1, <2>11, GotoCarries DEF ProtocolInv
  <2> QED BY <2>1, <2>10, <2>12, OutcomeGoesAlong
<1>4. CASE ~Recording("advance", j)
  <2>1. /\ Alone(p) /\ SettledBut(None) /\ UnrecordedFits("advance", j) /\ a \in Attempts
    BY <1>1, <1>4, UnrecordedTurn DEF Submitting
  <2>2. Open(a) /\ j.handle = None /\ j.result = "SUBMISSION_UNKNOWN"
    BY <2>1 DEF UnrecordedFits
  <2>3. drafts[Draft].state \in InFlightStates /\ drafts[Draft].attempt = a
    BY <2>1, <2>2 DEF SettledBut, FlightIsOpenBut
  <2>4. SettledBut(None)'
    <3>1. CASE UNCHANGED storeVars
      BY <2>1, <3>1, SettledButIdle
    <3>2. CASE AdvanceDraft(Draft, j.result, rev, c, a, r)
      <4>1. drafts[Draft] \in DraftRow
        BY <2>3, OneDraft, TogetherFacts, RowsAreTyped DEF InFlightStates, Exists
      <4>2. /\ drafts'[Draft].state = "SUBMISSION_UNKNOWN" /\ drafts'[Draft].attempt = a
            /\ UNCHANGED <<grants, attempts, receipts>>
        BY <2>2, <3>2, <4>1, OneDraft, TogetherFacts DEF TypeOK, AdvanceDraft, AdvancedRow, DraftRow
      <4>3. FlightIsOpenBut(None)'
        BY <2>1, <2>2, <2>3, <4>2 DEF SettledBut, FlightIsOpenBut, Open, Exists, InFlightStates
      <4> QED BY <2>1, <4>2, <4>3, ReceiptsStaySettled, ReservationsStay DEF SettledBut
    <3> QED BY <1>2, <3>1, <3>2 DEF TryAdvance, Try
  <2>5. Finish(p, "unknown")
    BY <2>2 DEF Advance
  <2> QED BY <2>1, <2>4, <2>5, TurnRests DEF Resting, Ends
<1> QED BY <1>3, <1>4

LEMMA SealTogether ==
  ASSUME TogetherStep, NEW p \in Procs, Seal(p), Recording("seal", job[p])
  PROVE  OutcomesTogether'
<1> PICK j : j = job[p]
  OBVIOUS
<1> PICK a : a = j.attempt
  OBVIOUS
<1> PICK s : s = IF j.result = "COMMITTED" THEN "ACKED" ELSE j.result
  OBVIOUS
<1>1. /\ Alone(p) /\ RecordingFits("seal", j) /\ ProtocolInv /\ a \in Attempts
      /\ Exists(attempts[a]) /\ attempts[a] \in AttemptRow /\ receipts[a] \in ReceiptRow
  BY RecordingTurn DEF Seal, AttemptOf
<1>2. s \in SealedAttemptStates /\ OutcomeAgrees(s, receipts[a].state)
  BY <1>1 DEF RecordingFits, OutcomeStates, SealedAttemptStates, OutcomeAgrees, Succeeded
<1>3. attempts[a].state \in {"STARTED", "SUBMISSION_UNKNOWN"} /\ attempts[a].handle = None
  BY <1>1, TogetherFacts
  DEF RecordingFits, RecoveryStep, LeaseStep, GrantsInHand, AttemptsAreListed, AttemptRow,
      AttemptStates
<1>4. s \in AttemptNext(attempts[a].state)
  BY <1>2, <1>3 DEF AttemptNext, AttemptStates, SealedAttemptStates
<1>5. MayTransition(a, s, j.handle)
  BY <1>1, <1>2, <1>3, <1>4
  DEF MayTransition, AttemptUpdateAllowed, RecordingFits, Exists, Recording
<1>6. TransitionAttempt(a, s, j.handle)
  BY <1>5 DEF Seal, TryTransition, Try
<1>7. /\ attempts'[a].state = s /\ attempts'[a].handle = j.handle
      /\ attempts'[a].grant = attempts[a].grant
      /\ UNCHANGED <<drafts, grants, receipts>>
  BY <1>1, <1>6, TogetherFacts DEF TypeOK, TransitionAttempt, AttemptRow, Recording
<1>8. SettledBut(a)'
  BY <1>1, <1>6, SettledButTransition DEF RecordingFits
<1>9. RecordingFits("settle", j)'
  BY <1>1, <1>2, <1>7, <1>8 DEF RecordingFits, Succeeded, Exists
<1>10. OutcomeFits("settle", j)' /\ Recording("settle", j)
  BY <1>9 DEF OutcomeFits, Recording
<1>11. Carry(p, "settle", j)
  BY <1>1, GotoCarries DEF Seal, ProtocolInv
<1> QED BY <1>1, <1>10, <1>11, OutcomeGoesAlong

(* The Grant is the last of the four tables; then the turn may rest. *)
LEMMA SettleTogether ==
  ASSUME TogetherStep, NEW p \in Procs, Settle(p), Recording("settle", job[p])
  PROVE  OutcomesTogether'
<1> PICK j : j = job[p]
  OBVIOUS
<1> PICK a : a = j.attempt
  OBVIOUS
<1> PICK g : g = j.grant
  OBVIOUS
<1>1. /\ Alone(p) /\ RecordingFits("settle", j) /\ a \in Attempts /\ g \in Grants
      /\ Exists(attempts[a]) /\ attempts[a] \in AttemptRow /\ receipts[a] \in ReceiptRow
  BY RecordingTurn DEF Settle, AttemptOf
<1>2. /\ grants[g].state = "RESERVED" /\ attempts[a].grant = g /\ grants[g] \in GrantRow
      /\ grants[g].attempt = a /\ SameCommand(attempts[a], grants[g])
  BY <1>1, TogetherFacts, RowsAreTyped
  DEF RecordingFits, IndInv, AttemptSpendsItsGrant, SameCommand, Exists
<1>3. /\ UNCHANGED <<drafts, attempts, receipts>>
      /\ grants'[g].state = IF Succeeded(a) THEN "CONSUMED" ELSE "REVOKED"
  <2>1. CASE j.result = "COMMITTED"
    <3>1. attempts[a].state = "ACKED" /\ receipts[a].state = "SUCCESS" /\ Succeeded(a)
      BY <1>1, <2>1, TogetherFacts
      DEF RecordingFits, Succeeded, IndInv, ReceiptsCloseAttempts, OutcomeAgrees
    <3>2. MayConsume(g, a, j.handle)
      BY <1>1, <1>2, <3>1 DEF MayConsume, GrantConsumptionAllowed, RecordingFits, Exists
    <3>3. ConsumeGrant(g, a, j.handle)
      BY <2>1, <3>2 DEF Settle, TryConsume, Try
    <3> QED BY <1>1, <1>2, <3>1, <3>3, TogetherFacts DEF TypeOK, ConsumeGrant, GrantRow
  <2>2. CASE j.result # "COMMITTED"
    <3>1. ~Succeeded(a)
      BY <1>1, <2>2 DEF RecordingFits
    <3>2. RevokeGrant(g)
      BY <1>2, <2>2 DEF Settle, Revoke
    <3> QED BY <1>1, <1>2, <3>1, <3>2, TogetherFacts DEF TypeOK, RevokeGrant, GrantRow
  <2> QED BY <2>1, <2>2
<1>4. SettledBut(a)'
  BY <1>1, SettledButGrantCall DEF Settle, TryConsume, Try, RecordingFits
<1>5. Settled(a)'
  BY <1>1, <1>2, <1>3 DEF RecordingFits, Settled, Succeeded, Exists
<1>6. SettledBut(None)'
  <2>1. ReceiptsSettledBut(None)'
    BY <1>4, <1>5 DEF SettledBut, ReceiptsSettledBut
  <2>2. FlightIsOpenBut(None)'
    BY <1>1, <1>3, NoneOpen DEF RecordingFits, FlightIsOpenBut, Open, Exists
  <2> QED BY <1>4, <2>1, <2>2 DEF SettledBut
<1>7. \E end \in Resting : Finish(p, end)
  BY DEF Settle, Resting, Ends
<1> QED BY <1>1, <1>6, <1>7, TurnRests

-----------------------------------------------------------------------------
(* Reconciliation, the service and the order *)

\* A listed Attempt has no Receipt: one with a Receipt is sealed by now.
LEMMA PickTogether ==
  ASSUME TogetherStep, NEW r \in Reconcilers, Pick(r)
  PROVE  OutcomesTogether'
<1>1. PICK a \in Attempts :
        /\ attempts[a].state \in {"STARTED", "SUBMISSION_UNKNOWN"}
        /\ Carry(r, "recover", [NoJob EXCEPT !.revision = attempts[a].revision,
             !.digest = attempts[a].digest, !.grant = attempts[a].grant, !.attempt = a])
  BY DEF Pick, Listed
<1> PICK k : k = [NoJob EXCEPT !.revision = attempts[a].revision,
                    !.digest = attempts[a].digest, !.grant = attempts[a].grant, !.attempt = a]
  OBVIOUS
<1>2. k.attempt = a /\ k.handle = None
  BY DEF NoJob
<1>3. r \in Procs /\ Alone(r) /\ ~Recording(pc[r], job[r]) /\ UNCHANGED storeVars
  BY TogetherFacts, ActsAlone DEF Pick, Listed, MayStart, LeaseStep, Procs, Recording
<1>4. SettledBut(None) /\ SettledBut(None)'
  BY <1>3, NothingInHand, SettledButIdle
<1>5. Open(a)
  BY <1>1, <1>4, NoneAssumption
  DEF SettledBut, ReceiptsSettledBut, Settled, SealedAttemptStates, Open, Exists
<1>6. Open(a)'
  BY <1>3, <1>5 DEF Open, Exists, storeVars, vars
<1>7. OutcomeFits("recover", k)'
  BY <1>2, <1>6 DEF OutcomeFits, Recording, UnrecordedFits
<1> QED BY <1>1, <1>3, <1>4, <1>7, OutcomeGoesAlong

LEMMA RecoverTogether ==
  ASSUME TogetherStep, NEW r \in Reconcilers, Recover(r)
  PROVE  OutcomesTogether'
<1> PICK j : j = job[r]
  OBVIOUS
<1>1. r \in Procs
  BY DEF Procs
<1>2. /\ Alone(r) /\ SettledBut(None) /\ UnrecordedFits("recover", j) /\ ProtocolInv
      /\ j.attempt \in Attempts
  BY <1>1, UnrecordedTurn DEF Recover, Submitting, Recording
<1>3. UNCHANGED storeVars /\ Goto(r, "send")
  BY <1>2 DEF Recover, UnrecordedFits, Open
<1>4. Carry(r, "send", j)
  BY <1>1, <1>2, <1>3, GotoCarries DEF ProtocolInv
<1>5. SettledBut(None)' /\ receipts' = receipts
  BY <1>2, <1>3, SettledButIdle DEF storeVars, vars
<1> QED BY <1>1, <1>2, <1>4, <1>5, UnrecordedGoesOn DEF UnrecordedFits

\* The turns stand still, and so does the repository.
LEMMA ServiceTogether ==
  ASSUME TogetherStep, UNCHANGED <<storeVars, pc, job>>
  PROVE  OutcomesTogether'
<1>1. UNCHANGED <<drafts, grants, attempts, receipts, pc, job>>
  BY DEF storeVars, vars
<1>2. ASSUME NEW p \in Procs PROVE OutcomeFits(pc[p], job[p])'
  <2>1. OutcomeFits(pc[p], job[p])
    BY TogetherFacts
  <2>2. SettledBut(job[p].attempt) => SettledBut(job[p].attempt)'
    BY <1>1, SettledButIdle
  <2> QED BY <1>1, <2>1, <2>2
          DEF OutcomeFits, Recording, RecordingFits, UnrecordedFits, Open, Succeeded, Exists,
              SameCommand, Command
<1>3. SettledBut(None) => SettledBut(None)'
  BY SettledButIdle
<1> QED BY <1>1, <1>2, <1>3, TogetherFacts DEF OutcomesTogether

\* Before the first card there is neither a Grant nor an Attempt.
LEMMA PresentCardTogether ==
  ASSUME TogetherStep, PresentCard
  PROVE  OutcomesTogether'
<1>1. PICK k \in Cards : CreateDraft(Draft, CardRow(1, version, k))
  BY DEF PresentCard
<1>2. ~Exists(drafts[Draft]) /\ UNCHANGED <<pc, job>>
  BY DEF PresentCard
<1>3. \A a \in Attempts : ~Exists(attempts[a])
  <2>1. \A g \in Grants : ~Exists(grants[g])
    BY <1>2, TogetherFacts DEF LeaseStep, TurnsApart, OneGrantPerCommand
  <2>2. \A a \in Attempts : Exists(attempts[a]) =>
          attempts[a].grant \in Grants /\ Exists(grants[attempts[a].grant])
    BY TogetherFacts, RowsAreTyped DEF IndInv, AttemptSpendsItsGrant, AttemptRow
  <2> QED BY <2>1, <2>2
<1>4. ASSUME NEW p \in Procs PROVE pc[p] \notin Submitting /\ ~Recording(pc[p], job[p])
  BY <1>3, TogetherFacts DEF ProtocolInv, JobsFit, JobFits, AttemptOf, Recording, Submitting
<1>5. SettledBut(None)
  BY <1>4, TogetherFacts
<1>6. SettledBut(None)'
  BY <1>1, <1>2, <1>5, CardSettles DEF TryCreate, Try, CardRow, InFlightStates, Exists
<1>7. \A p \in Procs : OutcomeFits(pc[p], job[p])'
  BY <1>2, <1>4 DEF OutcomeFits, Recording
<1> QED BY <1>6, <1>7 DEF OutcomesTogether

LEMMA TogetherGoesOn ==
  ASSUME ProtocolInv, TurnsApart, GrantsInHand, OutcomesTogether,
         [ProtocolNext]_protocolVars
  PROVE  OutcomesTogether'
<1>1. CASE ~(setting.leaseHolds /\ ~setting.mayCrash)
  BY <1>1, SettingStays DEF OutcomesTogether
<1>2. CASE setting.leaseHolds /\ ~setting.mayCrash
  <2>1. TogetherStep
    <3>1. RecoveryStep
      BY <1>2, LeaseGoesOn DEF RecoveryStep
    <3>2. OutcomesAreFinal
      BY <3>1, StepKeepsOutcomes DEF RecoveryStep, LeaseStep, ProtocolInv
    <3> QED BY <1>2, <3>1, <3>2, SettingStays DEF TogetherStep
  <2>2. ASSUME NEW p \in Procs, Submission(p) \/ Receive(p) \/ TimeOut(p) \/ Crash(p)
        PROVE  OutcomesTogether'
    <3>1. ~Crash(p)
      BY <1>2 DEF Crash
    <3>2. CASE Seal(p) \/ Settle(p)
      <4>1. pc[p] \in {"seal", "settle"} /\ OutcomeFits(pc[p], job[p])
        BY <2>1, <3>2, TogetherFacts DEF Seal, Settle
      <4>2. Recording(pc[p], job[p])
        BY <4>1 DEF OutcomeFits, UnrecordedFits, Submitting
      <4> QED BY <2>1, <3>2, <4>2, SealTogether, SettleTogether DEF Seal, Settle
    <3> QED BY <2>1, <2>2, <3>1, <3>2, RequestTogether, MarkTogether, RecordTogether,
               AdvanceTogether DEF Submission
  <2>3. ASSUME NEW w \in Workers, Approve(w) \/ WorkerStep(w)
        PROVE  OutcomesTogether'
    <3>1. w \in Procs
      BY DEF Procs
    <3>2. ~Taken(w)
      BY <2>1, TogetherFacts DEF Taken, LeaseStep, TurnsApart, WorkerIsRight, TellsRight
    <3> QED BY <2>1, <2>2, <2>3, <3>1, <3>2, ApproveTogether, PersistTogether, IssueTogether,
               PreflightTogether, VoidTogether, ReconfirmTogether, RepresentTogether,
               ReserveTogether
            DEF WorkerStep
  <2>4. ASSUME NEW r \in Reconcilers, Pick(r) \/ ReconcilerStep(r)
        PROVE  OutcomesTogether'
    <3>1. r \in Procs
      BY DEF Procs
    <3> QED BY <2>1, <2>2, <2>4, <3>1, PickTogether, RecoverTogether DEF ReconcilerStep
  <2>5. ASSUME NEW i \in Calls, ServiceStep(i)
        PROVE  OutcomesTogether'
    <3>1. UNCHANGED <<storeVars, pc, job>>
      BY <2>5 DEF ServiceStep, Serve, ServeOverlapping, Abandon
    <3> QED BY <2>1, <3>1, ServiceTogether
  <2>6. CASE Order \/ UNCHANGED protocolVars
    <3>1. UNCHANGED <<storeVars, pc, job>>
      BY <2>6 DEF Order, protocolVars
    <3> QED BY <2>1, <3>1, ServiceTogether
  <2>7. CASE PresentCard
    BY <2>1, <2>7, PresentCardTogether
  <2> QED BY <2>2, <2>3, <2>4, <2>5, <2>6, <2>7 DEF ProtocolNext
<1> QED BY <1>1, <1>2

LEMMA TogetherBegins == ProtocolInit => OutcomesTogether
<1> SUFFICES ASSUME ProtocolInit PROVE OutcomesTogether
  OBVIOUS
<1>1. /\ \A p \in Procs : pc[p] = "idle"
      /\ \A g \in Grants : ~Exists(grants[g])
      /\ \A a \in Attempts : ~Exists(attempts[a]) /\ ~Exists(receipts[a])
      /\ ~Exists(drafts[Draft])
  BY OneDraft DEF ProtocolInit, Init, Absent, Exists
<1>2. \A p \in Procs : OutcomeFits(pc[p], job[p])
  BY <1>1 DEF OutcomeFits, Recording, Submitting
<1>3. SettledBut(None)
  BY <1>1 DEF SettledBut, ReceiptsSettledBut, FlightIsOpenBut, ReservedForAttempts, Open, Exists,
     InFlightStates
<1> QED BY <1>2, <1>3 DEF OutcomesTogether

(* While the lease keeps turns apart and none dies, a turn that has recorded *)
(* a Receipt has only that one Attempt's rows to bring in line, no call with *)
(* which it does so is refused, and it rests only afterwards                 *)
(* (_transaction_commit_update, reconcile_attempts).                         *)
THEOREM OutcomesAreSettled == ProtocolSpec => []OutcomesTogether
<1>1. /\ ProtocolInv /\ TurnsApart /\ GrantsInHand /\ OutcomesTogether
      /\ [ProtocolNext]_protocolVars
      => OutcomesTogether'
  BY TogetherGoesOn
<1> QED BY <1>1, TogetherBegins, ProtocolInvariance, LeaseKeepsTurnsApart,
           ReservationsOutliveTurns, PTL DEF ProtocolSpec

(* While the lease keeps turns apart and none dies, draft state, Attempt,    *)
(* Receipt and Grant are recorded together, as the docstring at commit_runtime.py:434 says,   *)
(* although each is written by a call of its own.                            *)
THEOREM OutcomesAreRecordedTogether == ProtocolSpec => []RecordedTogether
<1>1. ProtocolInv /\ OutcomesTogether => RecordedTogether
  <2> SUFFICES ASSUME ProtocolInv, OutcomesTogether, setting.leaseHolds, ~setting.mayCrash,
                      \A p \in Procs : pc[p] \in Resting
               PROVE  /\ \A a \in Attempts : Exists(receipts[a]) => Settled(a)
                      /\ drafts[Draft].state \in InFlightStates =>
                           drafts[Draft].attempt \in Attempts /\ Open(drafts[Draft].attempt)
                      /\ \A g \in Grants : grants[g].state = "RESERVED" => Open(grants[g].attempt)
    BY DEF RecordedTogether
  <2>1. SettledBut(None)
    BY DEF OutcomesTogether, Recording, Resting, Ends
  <2>2. \A a \in Attempts : Exists(receipts[a]) => Settled(a)
    BY <2>1, NoneAssumption DEF SettledBut, ReceiptsSettledBut
  <2>3. drafts[Draft].state \in InFlightStates =>
          drafts[Draft].attempt \in Attempts /\ Open(drafts[Draft].attempt)
    BY <2>1, NoneAssumption DEF SettledBut, FlightIsOpenBut
  <2>4. \A g \in Grants : grants[g].state = "RESERVED" => Open(grants[g].attempt)
    BY <2>1, <2>2 DEF SettledBut, ReservedForAttempts, Settled, Open
  <2> QED BY <2>2, <2>3, <2>4
<1> QED BY <1>1, ProtocolInvariance, OutcomesAreSettled, PTL
=============================================================================
