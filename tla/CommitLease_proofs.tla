-------------------------- MODULE CommitLease_proofs --------------------------
(***************************************************************************)
(* What the conversation lease is for: as long as turns are kept apart, a  *)
(* customer who is told "failed" is told so of a command that never takes  *)
(* effect, however turns die, requests are late and orders change.         *)
(***************************************************************************)
EXTENDS CommitProtocol_proofs

-----------------------------------------------------------------------------
(* What the repository never takes back *)

GrantsStay ==
  \A g \in Grants : Exists(grants[g]) =>
    /\ Exists(grants'[g])
    /\ grants'[g].revision = grants[g].revision /\ grants'[g].digest = grants[g].digest
    /\ grants'[g].card = grants[g].card
    /\ grants[g].state # "ISSUED" => grants'[g].state # "ISSUED"

ReceiptsStay == \A a \in Attempts : Exists(receipts[a]) => Exists(receipts'[a])

LEMMA StoreKeepsGrants ==
  ASSUME TypeOK, [Next]_vars
  PROVE  GrantsStay
<1>1. CASE UNCHANGED grants
  BY <1>1 DEF GrantsStay, Exists
<1>2. ASSUME NEW g \in Grants, NEW row \in GrantRow, row.state # "ISSUED",
             Exists(grants[g]), grants' = [grants EXCEPT ![g] = row],
             row.digest = grants[g].digest, row.revision = grants[g].revision,
             row.card = grants[g].card
      PROVE  GrantsStay
  <2>1. grants'[g] = row /\ \A x \in Grants : x # g => grants'[x] = grants[x]
    BY <1>2 DEF TypeOK
  <2>2. Exists(row)
    BY <1>2 DEF GrantRow, Exists
  <2> QED BY <1>2, <2>1, <2>2 DEF GrantsStay, Exists
<1>3. ASSUME NEW g \in Grants, NEW d \in Drafts, NEW rev \in Revisions, NEW c \in Digests,
             NEW k \in Cards, IssueGrant(g, d, rev, c, k)
      PROVE  GrantsStay
  BY <1>3 DEF IssueGrant, IsNewGrant, GrantsStay, Exists, TypeOK
<1>4. ASSUME NEW g \in Grants, NEW t \in {"RESERVED", "CONSUMED", "REVOKED", "EXPIRED"},
             NEW a \in Attempts \cup {None}, NEW h \in Handles \cup {None}, Exists(grants[g]),
             \/ grants' = [grants EXCEPT ![g].state = t]
             \/ grants' = [grants EXCEPT ![g].state = t, ![g].attempt = a]
             \/ grants' = [grants EXCEPT ![g].state = t, ![g].handle = h]
      PROVE  GrantsStay
  <2>1. grants[g] \in GrantRow
    BY <1>4, RowsAreTyped
  <2>2. CASE grants' = [grants EXCEPT ![g].state = t]
    <3>1. [grants[g] EXCEPT !.state = t] \in GrantRow
      BY <2>1 DEF GrantRow
    <3>2. grants' = [grants EXCEPT ![g] = [grants[g] EXCEPT !.state = t]]
      BY <2>2
    <3> QED BY <1>2, <1>4, <2>1, <3>1, <3>2 DEF GrantRow
  <2>3. CASE grants' = [grants EXCEPT ![g].state = t, ![g].attempt = a]
    <3>1. [grants[g] EXCEPT !.state = t, !.attempt = a] \in GrantRow
      BY <2>1 DEF GrantRow
    <3>2. grants' = [grants EXCEPT ![g] = [grants[g] EXCEPT !.state = t, !.attempt = a]]
      BY <2>1, <2>3 DEF GrantRow
    <3> QED BY <1>2, <1>4, <2>1, <3>1, <3>2 DEF GrantRow
  <2>4. CASE grants' = [grants EXCEPT ![g].state = t, ![g].handle = h]
    <3>1. [grants[g] EXCEPT !.state = t, !.handle = h] \in GrantRow
      BY <2>1 DEF GrantRow
    <3>2. grants' = [grants EXCEPT ![g] = [grants[g] EXCEPT !.state = t, !.handle = h]]
      BY <2>1, <2>4 DEF GrantRow
    <3> QED BY <1>2, <1>4, <2>1, <3>1, <3>2 DEF GrantRow
  <2> QED BY <1>4, <2>2, <2>3, <2>4
<1>5. CASE GrantStep
  <2> SUFFICES ASSUME NEW g \in Grants, NEW d \in Drafts, NEW rev \in Revisions, NEW c \in Digests,
                      \/ \E card \in Cards : IssueGrant(g, d, rev, c, card)
                      \/ \E a \in Attempts : ReserveGrantAndStartAttempt(g, a, d, rev, c)
                      \/ RejectReservation(g, d, rev, c)
                      \/ ExpireGrant(g, d, rev, c)
               PROVE  GrantsStay
    BY <1>5 DEF GrantStep
  <2>1. CASE \E a \in Attempts : ReserveGrantAndStartAttempt(g, a, d, rev, c)
    BY <1>4, <2>1 DEF ReserveGrantAndStartAttempt, MayReserve
  <2>2. CASE RejectReservation(g, d, rev, c)
    BY <1>4, <2>2 DEF RejectReservation
  <2>3. CASE ExpireGrant(g, d, rev, c)
    BY <1>4, <2>3 DEF ExpireGrant
  <2> QED BY <1>3, <2>1, <2>2, <2>3
<1>6. CASE CloseStep
  <2>1. ASSUME NEW g \in Grants, NEW a \in Attempts, NEW h \in Handles, ConsumeGrant(g, a, h)
        PROVE  GrantsStay
    BY <1>4, <2>1 DEF ConsumeGrant, MayConsume
  <2>2. ASSUME NEW g \in Grants, RevokeGrant(g)
        PROVE  GrantsStay
    BY <1>4, <2>2 DEF RevokeGrant
  <2> QED BY <1>1, <1>6, <2>1, <2>2 DEF CloseStep, RecordReceipt, TransitionAttempt
<1>7. CASE DraftStep \/ UNCHANGED vars
  BY <1>1, <1>7 DEF DraftStep, CreateDraft, AdvanceDraft, vars
<1> QED BY <1>5, <1>6, <1>7 DEF Next

LEMMA StoreKeepsReceipts ==
  ASSUME TypeOK, [Next]_vars
  PROVE  ReceiptsStay
<1>1. CASE UNCHANGED receipts
  BY <1>1 DEF ReceiptsStay, Exists
<1>2. ASSUME NEW a \in Attempts, NEW d \in Drafts, NEW s \in ReceiptStates, NEW h \in Handles,
             RecordReceipt(a, d, s, h)
      PROVE  ReceiptsStay
  BY <1>2 DEF RecordReceipt, MayRecord, ReceiptsStay, Exists, TypeOK, ReceiptStates
<1>3. CASE DraftStep \/ GrantStep \/ UNCHANGED vars
  <2>1. CASE DraftStep
    BY <1>1, <2>1 DEF DraftStep, CreateDraft, AdvanceDraft
  <2>2. CASE GrantStep
    BY <1>1, <2>2 DEF GrantStep, IssueGrant, ReserveGrantAndStartAttempt, RejectReservation,
       ExpireGrant
  <2> QED BY <1>1, <1>3, <2>1, <2>2 DEF vars
<1>4. CASE CloseStep
  BY <1>1, <1>2, <1>4 DEF CloseStep, ConsumeGrant, TransitionAttempt, RevokeGrant
<1> QED BY <1>3, <1>4 DEF Next

(* A new Attempt spends an ISSUED Grant for its command: a command whose only *)
(* Grant is spent is never submitted.                                         *)
LEMMA SpoiledStays ==
  ASSUME TypeOK, [Next]_vars, OneGrantPerCommand, NEW c, Spoiled(c)
  PROVE  Spoiled(c)'
<1>1. PICK g \in Grants : Exists(grants[g]) /\ grants[g].digest = c /\ grants[g].state # "ISSUED"
  BY DEF Spoiled
<1>2. Exists(grants'[g]) /\ grants'[g].digest = c /\ grants'[g].state # "ISSUED"
  BY <1>1, StoreKeepsGrants DEF GrantsStay
<1>3. \A a \in Attempts : ~AttemptOf(a, Draft, c)
  BY DEF Spoiled, KeyTaken
<1>4. \A a \in Attempts : ~AttemptOf(a, Draft, c)'
  <2>1. CASE \A a \in Attempts : Exists(attempts'[a]) => Exists(attempts[a])
    <3>1. RowsStay
      BY StoreKeepsRows
    <3> QED BY <1>3, <2>1, <3>1 DEF RowsStay, AttemptOf, Exists
  <2>2. ASSUME NEW h \in Grants, NEW a \in Attempts, NEW d \in Drafts, NEW rev \in Revisions,
               NEW e \in Digests, ReserveGrantAndStartAttempt(h, a, d, rev, e)
        PROVE  \A b \in Attempts : ~AttemptOf(b, Draft, c)'
    <3>1. Exists(grants[h]) /\ grants[h].state = "ISSUED" /\ grants[h].digest = e
      BY <2>2 DEF ReserveGrantAndStartAttempt, MayReserve, GrantMatchesRequest, SameCommand
    <3>2. e # c
      BY <1>1, <3>1 DEF OneGrantPerCommand
    <3>3. attempts'[a].digest = e /\ \A b \in Attempts : b # a => attempts'[b] = attempts[b]
      BY <2>2 DEF ReserveGrantAndStartAttempt, TypeOK
    <3> QED BY <1>3, <3>2, <3>3 DEF AttemptOf, Exists
  <2>3. ASSUME NEW a \in Attempts, NEW s, NEW h, TransitionAttempt(a, s, h)
        PROVE  \A b \in Attempts : Exists(attempts'[b]) => Exists(attempts[b])
    <3>1. Exists(attempts[a]) /\ \A b \in Attempts : b # a => attempts'[b] = attempts[b]
      BY <2>3 DEF TransitionAttempt, MayTransition, TypeOK
    <3> QED BY <3>1
  <2>4. CASE UNCHANGED attempts
    BY <2>1, <2>4 DEF Exists
  <2>5. CASE DraftStep \/ UNCHANGED vars
    BY <2>4, <2>5 DEF DraftStep, CreateDraft, AdvanceDraft, vars
  <2>6. CASE GrantStep
    BY <2>2, <2>4, <2>6 DEF GrantStep, IssueGrant, RejectReservation, ExpireGrant
  <2>7. CASE CloseStep
    BY <2>1, <2>3, <2>4, <2>7 DEF CloseStep, ConsumeGrant, RecordReceipt, RevokeGrant
  <2> QED BY <2>5, <2>6, <2>7 DEF Next
<1> QED BY <1>2, <1>4 DEF Spoiled, KeyTaken, Exists

-----------------------------------------------------------------------------
(* Requests *)

\* A step of the service: requests keep their commands, and only a sent one takes effect.
RequestsMoveOn ==
  /\ \A k \in Calls : call'[k].state = "idle" \/ (call[k].state # "idle"
                                                  /\ call'[k].cmd = call[k].cmd)
  /\ \A k \in WaitingCalls : call[k].state = "ok" => call'[k].state = "ok"
  /\ \/ done' = done
     \/ \E k \in Calls : /\ done' = done \cup {call[k].cmd}
                         /\ call[k].state = "sent" /\ call'[k].state = "ok"

LEMMA ServiceMovesOn ==
  ASSUME ProtocolInv, NEW i \in Calls, ServiceStep(i)
  PROVE  RequestsMoveOn
<1>1. call \in [Calls -> [state : {"idle", "sent", "ok", "refused", "lost"},
                         cmd : Digests \cup {None}]]
  BY DEF ProtocolInv, RequestsAuthorized
<1>2. ASSUME NEW s \in {"ok", "refused", "lost"}, call[i].state = "sent", Service!Answer(i, s),
             done' = done \/ (s = "ok" /\ done' = done \cup {call[i].cmd})
      PROVE  RequestsMoveOn
  <2>1. /\ \A k \in Calls : k # i => call'[k] = call[k]
        /\ call'[i].state = s /\ call'[i].cmd = call[i].cmd
    BY <1>1, <1>2 DEF Service!Answer
  <2>2. \A k \in WaitingCalls : k \in Calls
    BY DEF WaitingCalls, ProtocolInv, JobsFit, JobFits
  <2>3. \/ done' = done
        \/ done' = done \cup {call[i].cmd} /\ call[i].state = "sent" /\ call'[i].state = "ok"
    BY <1>2, <2>1
  <2> QED BY <1>2, <2>1, <2>2, <2>3 DEF RequestsMoveOn
<1>3. CASE Serve(i)
  BY <1>2, <1>3 DEF Serve, ServerError, Service!Accept, Service!Replay, Service!Refuse,
     Service!Lose
<1>4. CASE Abandon(i)
  <2>1. done' = done /\ call'[i].state = "idle" /\ i \notin WaitingCalls
        /\ \A k \in Calls : k # i => call'[k] = call[k]
    BY <1>1, <1>4 DEF Abandon, Service!Forget, Service!Idle
  <2>2. \A k \in WaitingCalls : k \in Calls
    BY DEF WaitingCalls, ProtocolInv, JobsFit, JobFits
  <2> QED BY <2>1, <2>2 DEF RequestsMoveOn
<1>5. CASE ServeOverlapping(i)
  <2> DEFINE c == call[i].cmd
             same == {k \in Calls \ {i} : call[k] = [state |-> "sent", cmd |-> c]}
  <2>0. /\ done' = done \cup {c} /\ call[i].state = "sent"
        /\ \E refused \in SUBSET same \ {{}} :
             call' = [k \in Calls |-> CASE k = i       -> [call[i] EXCEPT !.state = "ok"]
                                        [] k \in refused -> [call[k] EXCEPT !.state = "refused"]
                                        [] OTHER       -> call[k]]
    BY <1>5 DEF ServeOverlapping
  <2>1. PICK refused \in SUBSET same \ {{}} :
             call' = [k \in Calls |-> CASE k = i       -> [call[i] EXCEPT !.state = "ok"]
                                        [] k \in refused -> [call[k] EXCEPT !.state = "refused"]
                                        [] OTHER       -> call[k]]
    BY <2>0
  <2>2. call'[i].state = "ok" /\ call'[i].cmd = call[i].cmd
    BY <1>1, <2>1
  <2>3. \A k \in Calls : k # i => \/ call'[k] = call[k]
                                  \/ call[k].state = "sent" /\ call'[k].cmd = call[k].cmd
    BY <1>1, <2>1
  <2>4. \A k \in WaitingCalls : k \in Calls
    BY DEF WaitingCalls, ProtocolInv, JobsFit, JobFits
  <2> QED BY <2>0, <2>2, <2>3, <2>4 DEF RequestsMoveOn
<1> QED BY <1>3, <1>4, <1>5 DEF ServiceStep

\* What nobody asks for does not happen.
LEMMA UnaskedStays ==
  ASSUME RequestsMoveOn, NEW c, c \notin done, NoRequest(c)
  PROVE  c \notin done' /\ NoRequest(c)'
  BY DEF RequestsMoveOn, NoRequest

SendsAreOpen == \A p \in Procs : pc[p] = "send" => ~Exists(receipts[job[p].attempt])

\* What each turn's step does to the requests under way.
LEMMA TurnsRequests ==
  ASSUME ProtocolInv, NEW p \in Procs,
         \/ Approve(p) \/ WorkerStep(p) \/ Pick(p) \/ ReconcilerStep(p)
         \/ Receive(p) \/ TimeOut(p) \/ Crash(p)
  PROVE  /\ UNCHANGED <<setting, version, open, done>>
         /\ \/ UNCHANGED call
            \/ \E i \in Calls : call' = [call EXCEPT ![i] = [state |-> "idle", cmd |-> None]]
            \/ pc[p] = "send" /\ \E i \in Calls :
                 call' = [call EXCEPT ![i] = [state |-> "sent", cmd |-> job[p].digest]]
<1>1. CASE Receive(p)
  <2>1. job[p].call \in Calls
    BY <1>1 DEF Receive, ProtocolInv, JobsFit, JobFits
  <2> QED BY <1>1, <2>1 DEF Receive, Service!Forget, Service!Idle, Service!order
<1>2. CASE SendCommand(p)
  BY <1>2 DEF SendCommand, Service!Send, Service!order
<1>3. CASE Record(p)
  BY <1>3 DEF Record, serviceVars
<1>4. CASE ~(Receive(p) \/ Record(p) \/ SendCommand(p))
  BY <1>4, TurnsGoElsewhere DEF WorkerStep, ReconcilerStep, Submission, serviceVars
<1> QED BY <1>1, <1>2, <1>3, <1>4

LEMMA RefutedStays ==
  ASSUME ProtocolInv, SendsAreOpen, [ProtocolNext]_protocolVars, NEW c, Refuted(c)
  PROVE  Refuted(c)'
<1>1. [Next]_vars
  BY ProtocolStep
<1>2. RowsStay /\ ReceiptsStay
  BY <1>1, StoreKeepsRows, StoreKeepsReceipts DEF ProtocolInv, IndInv
<1>3. PICK a \in Attempts : AttemptOf(a, Draft, c) /\ Exists(receipts[a])
  BY DEF Refuted
<1>4. AttemptOf(a, Draft, c)' /\ Exists(receipts'[a])
  BY <1>2, <1>3, KeysStay DEF ReceiptsStay
<1>5. c \notin done /\ NoRequest(c)
  BY DEF Refuted
<1>6. c \notin done' /\ NoRequest(c)'
  <2>1. ASSUME NEW p \in Procs,
               \/ Approve(p) \/ WorkerStep(p) \/ Pick(p) \/ ReconcilerStep(p)
               \/ Receive(p) \/ TimeOut(p) \/ Crash(p)
        PROVE  c \notin done' /\ NoRequest(c)'
    <3>1. call \in [Calls -> [state : {"idle", "sent", "ok", "refused", "lost"},
                             cmd : Digests \cup {None}]]
      BY DEF ProtocolInv, RequestsAuthorized
    <3>2. UNCHANGED done
      BY <2>1, TurnsRequests
    <3>3. pc[p] = "send" => job[p].digest # c
      <4> SUFFICES ASSUME pc[p] = "send" PROVE job[p].digest # c
        OBVIOUS
      <4>1. AttemptOf(job[p].attempt, Draft, job[p].digest) /\ job[p].attempt \in Attempts
        BY DEF ProtocolInv, JobsFit, JobFits, Submitting
      <4>2. job[p].attempt # a
        BY <1>3 DEF SendsAreOpen
      <4> QED BY <1>3, <4>1, <4>2 DEF ProtocolInv, IndInv, UniqueKeys, AttemptOf
    <3>4. CASE UNCHANGED call
      BY <1>5, <3>2, <3>4 DEF NoRequest
    <3>5. ASSUME NEW i \in Calls, call' = [call EXCEPT ![i] = [state |-> "idle", cmd |-> None]]
          PROVE  NoRequest(c)'
      BY <1>5, <3>1, <3>5 DEF NoRequest
    <3>6. ASSUME NEW i \in Calls, pc[p] = "send",
                 call' = [call EXCEPT ![i] = [state |-> "sent", cmd |-> job[p].digest]]
          PROVE  NoRequest(c)'
      BY <1>5, <3>1, <3>3, <3>6 DEF NoRequest
    <3> QED BY <1>5, <2>1, <3>2, <3>4, <3>5, <3>6, TurnsRequests
  <2>2. ASSUME NEW i \in Calls, ServiceStep(i)
        PROVE  c \notin done' /\ NoRequest(c)'
    BY <1>5, <2>2, ServiceMovesOn, UnaskedStays
  <2>3. CASE Order \/ PresentCard \/ UNCHANGED protocolVars
    <3>1. UNCHANGED <<done, call>>
      BY <2>3 DEF Order, Service!TouchOrder, Service!ApplyElsewhere, Service!CloseApplications,
         PresentCard, protocolVars, serviceVars
    <3> QED BY <1>5, <3>1 DEF NoRequest
  <2> QED BY <2>1, <2>2, <2>3 DEF ProtocolNext, Procs
<1> QED BY <1>4, <1>6 DEF Refuted, Exists

\* A command that is refuted or spoiled stays so.
FatesStay == \A c : (Refuted(c) => Refuted(c)') /\ (Spoiled(c) => Spoiled(c)')

-----------------------------------------------------------------------------
(* The Draft's row, its card and its Grant *)

\* Nothing is added to the repository and the Draft's command and card are as before.
LEMMA SameCard ==
  ASSUME OneGrantPerCommand, CardIsFresh, RowsStay, GrantsStay,
         Exists(drafts'[Draft]) = Exists(drafts[Draft]),
         drafts'[Draft].digest = drafts[Draft].digest,
         drafts'[Draft].state = "AWAITING_AUTHORIZATION" =>
           /\ drafts[Draft].state = "AWAITING_AUTHORIZATION"
           /\ drafts'[Draft].revision = drafts[Draft].revision
           /\ drafts'[Draft].card = drafts[Draft].card
           /\ \A a \in Attempts : Exists(attempts'[a]) => Exists(attempts[a]),
         \A g \in Grants : Exists(grants'[g]) => Exists(grants[g])
  PROVE  OneGrantPerCommand' /\ CardIsFresh'
<1>1. \A g \in Grants : Exists(grants'[g]) =>
        /\ Exists(grants[g]) /\ grants'[g].digest = grants[g].digest
        /\ grants'[g].revision = grants[g].revision /\ grants'[g].card = grants[g].card
  BY DEF GrantsStay
<1>2. OneGrantPerCommand'
  BY <1>1 DEF OneGrantPerCommand, Exists
<1>3. ASSUME drafts'[Draft].state = "AWAITING_AUTHORIZATION", NEW a \in Attempts
      PROVE  ~AttemptOf(a, Draft, drafts[Draft].digest)'
  <2>1. ~AttemptOf(a, Draft, drafts[Draft].digest)
    BY <1>3 DEF CardIsFresh, KeyTaken
  <2> QED BY <1>3, <2>1 DEF AttemptOf, RowsStay, Exists
<1>4. CardIsFresh'
  BY <1>1, <1>3 DEF CardIsFresh, KeyTaken, Exists
<1> QED BY <1>2, <1>4

\* An Attempt's command is no later than the Draft's.
LEMMA AttemptsPrecede ==
  ASSUME IndInv, OneGrantPerCommand, NEW a \in Attempts, Exists(attempts[a])
  PROVE  Exists(drafts[Draft]) /\ attempts[a].digest <= drafts[Draft].digest
<1>1. attempts[a] \in AttemptRow
  BY RowsAreTyped DEF IndInv
<1> QED BY <1>1 DEF IndInv, AttemptSpendsItsGrant, OneGrantPerCommand, SameCommand, AttemptRow
-----------------------------------------------------------------------------
(* A turn acts while all others rest *)

Alone(p) == \A q \in Procs \ {p} : pc[q] \in Resting

\* A step under the lease, and what is known to survive it.
LeaseStep ==
  /\ ProtocolInv /\ TurnsApart /\ setting.leaseHolds
  /\ [Next]_vars /\ RowsStay /\ GrantsStay /\ ReceiptsStay /\ FatesStay

LEMMA RestingIsRight ==
  ASSUME NEW s \in Resting, NEW j, j.handle = None,
         s = "failed" => Refuted(j.digest)' \/ Spoiled(j.digest)'
  PROVE  WorkerIsRight(s, j)'
  BY DEF Resting, Ends, Approving, Submitting, WorkerIsRight, HoldsRow, RequestIsOwn, TellsRight

LEMMA ActsAlone ==
  ASSUME LeaseStep, NEW p \in Procs, pc[p] \notin Resting \/ \A q \in Procs : pc[q] \in Resting
  PROVE  Alone(p)
  BY DEF LeaseStep, TurnsApart, OneTurn, Alone

LEMMA TurnLands ==
  ASSUME LeaseStep, NEW p \in Procs, Alone(p), NEW s, NEW j, Carry(p, s, j),
         OneGrantPerCommand', CardIsFresh',
         p \in Workers => WorkerIsRight(s, j)',
         s = "send" => ~Exists(receipts'[j.attempt])
  PROVE  TurnsApart'
<1>1. /\ pc'[p] = s /\ job'[p] = j
      /\ \A q \in Procs : q # p => pc'[q] = pc[q] /\ job'[q] = job[q] /\ pc[q] \in Resting
  BY DEF Carry, LeaseStep, ProtocolInv, JobsFit, Alone
<1>2. OneTurn'
  BY <1>1 DEF OneTurn
<1>3. ASSUME NEW w \in Workers PROVE WorkerIsRight(pc[w], job[w])'
  <2>1. CASE w = p
    BY <1>1, <2>1
       DEF WorkerIsRight, HoldsRow, RequestIsOwn, TellsRight, Refuted, Spoiled
  <2>2. CASE w # p
    <3> PICK t : t = pc[w]
      OBVIOUS
    <3> PICK k : k = job[w]
      OBVIOUS
    <3>1. /\ t \in Resting /\ w \in Procs /\ WorkerIsRight(t, k)
          /\ pc'[w] = t /\ job'[w] = k
      BY <1>1, <2>2 DEF LeaseStep, TurnsApart, Procs
    <3>2. k.handle = None /\ (t = "failed" => Refuted(k.digest) \/ Spoiled(k.digest))
      BY <3>1 DEF WorkerIsRight, TellsRight, Resting, Ends
    <3>3. WorkerIsRight(t, k)'
      BY <3>1, <3>2, RestingIsRight DEF LeaseStep, FatesStay
    <3> QED BY <3>1, <3>3
            DEF WorkerIsRight, HoldsRow, RequestIsOwn, TellsRight, Refuted, Spoiled
  <2> QED BY <2>1, <2>2
<1>4. \A q \in Procs : pc'[q] = "send" => ~Exists(receipts'[job'[q].attempt])
  BY <1>1 DEF Resting, Ends
<1> QED BY <1>2, <1>3, <1>4 DEF TurnsApart, Exists

LEMMA FinishLands ==
  ASSUME LeaseStep, NEW p \in Procs, Alone(p), NEW end \in Resting, Finish(p, end),
         OneGrantPerCommand', CardIsFresh', NEW c, c = job[p].digest,
         p \in Workers /\ end = "failed" => Refuted(c) \/ Spoiled(c)'
  PROVE  TurnsApart'
<1>1. CASE p \in Workers
  <2> PICK j : j = [NoJob EXCEPT !.digest = c]
    OBVIOUS
  <2>1. Carry(p, end, j) /\ j.handle = None /\ j.digest = c
    BY <1>1 DEF Finish, NoJob
  <2>2. end = "failed" => Refuted(j.digest)' \/ Spoiled(j.digest)'
    BY <1>1, <2>1 DEF LeaseStep, FatesStay
  <2> QED BY <2>1, <2>2, RestingIsRight, TurnLands DEF Resting, Ends
<1>2. CASE p \notin Workers
  <2>1. Carry(p, "idle", NoJob)
    BY <1>2 DEF Finish
  <2> QED BY <1>2, <2>1, TurnLands
<1> QED BY <1>1, <1>2

\* A call that leaves the Drafts alone and adds neither Grant nor Attempt.
LEMMA QuietCall ==
  ASSUME LeaseStep, UNCHANGED drafts,
         \/ UNCHANGED storeVars
         \/ \E g \in Grants : \/ RevokeGrant(g)
                              \/ \E a, h : ConsumeGrant(g, a, h)
                              \/ \E r, c : \/ RejectReservation(g, Draft, r, c)
                                           \/ ExpireGrant(g, Draft, r, c)
         \/ \E a \in Attempts : \E s, h : \/ RecordReceipt(a, Draft, s, h)
                                          \/ TransitionAttempt(a, s, h)
  PROVE  OneGrantPerCommand' /\ CardIsFresh'
<1>1. \A g \in Grants : Exists(grants'[g]) => Exists(grants[g])
  BY DEF storeVars, vars, RevokeGrant, ConsumeGrant, MayConsume, RejectReservation, ExpireGrant,
     RecordReceipt, TransitionAttempt, LeaseStep, ProtocolInv, IndInv, TypeOK
<1>2. \A a \in Attempts : Exists(attempts'[a]) => Exists(attempts[a])
  BY DEF storeVars, vars, RevokeGrant, ConsumeGrant, MayTransition, RejectReservation,
     ExpireGrant, RecordReceipt, TransitionAttempt, LeaseStep, ProtocolInv, IndInv, TypeOK
<1> QED BY <1>1, <1>2, SameCard DEF LeaseStep, TurnsApart

\* What a worker has in hand stays in hand while it moves on.
LEMMA StillHolds ==
  ASSUME LeaseStep, UNCHANGED drafts, NEW s, NEW j, HoldsRow(s, j), NEW t,
         \/ s = t
         \/ s \in Submitting /\ t \in Submitting
         \/ s \in {"preflight", "void", "reserve"} /\ t \in {"preflight", "void", "reserve"}
         \/ s = "reconfirm" /\ t = "represent"
         \/ s = "persist" /\ t = "issue",
         s \in {"preflight", "void", "reserve"} => j.grant \in Grants
  PROVE  HoldsRow(t, j)'
  BY DEF LeaseStep, GrantsStay, HoldsRow, Approving, Submitting, Exists
-----------------------------------------------------------------------------
(* Approval *)

LEMMA ApproveApart ==
  ASSUME LeaseStep, NEW w \in Workers, Approve(w)
  PROVE  TurnsApart'
<1> PICK j : j = [NoJob EXCEPT !.revision = drafts[Draft].revision,
                    !.digest = drafts[Draft].digest, !.card = drafts[Draft].card]
  OBVIOUS
<1>1. /\ w \in Procs /\ Carry(w, "persist", j) /\ UNCHANGED <<storeVars, serviceVars>>
      /\ drafts[Draft].state = "AWAITING_AUTHORIZATION"
      /\ UNCHANGED <<drafts, grants, attempts, receipts>>
  BY DEF Approve, Procs, storeVars, vars
<1>2. Alone(w)
  BY <1>1, ActsAlone DEF Approve, MayStart, LeaseStep
<1>3. OneGrantPerCommand' /\ CardIsFresh'
  BY <1>1, QuietCall
<1>4. /\ j.revision = drafts[Draft].revision /\ j.digest = drafts[Draft].digest
      /\ j.card = drafts[Draft].card /\ j.handle = None
  BY DEF NoJob
<1>5. WorkerIsRight("persist", j)'
  BY <1>1, <1>4 DEF WorkerIsRight, HoldsRow, RequestIsOwn, TellsRight, Approving, Submitting
<1> QED BY <1>1, <1>2, <1>3, <1>5, TurnLands

LEMMA PersistApart ==
  ASSUME LeaseStep, NEW w \in Workers, PersistAuthority(w)
  PROVE  TurnsApart'
<1> PICK j : j = job[w]
  OBVIOUS
<1> PICK row : row = CardRow(j.revision, j.digest, j.card)
  OBVIOUS
<1>1. /\ w \in Procs /\ pc[w] = "persist" /\ Alone(w) /\ Draft \in Drafts
      /\ WorkerIsRight("persist", j)
  BY ActsAlone, OneDraft DEF PersistAuthority, Procs, Resting, Ends, LeaseStep, TurnsApart
<1>2. /\ drafts[Draft].state = "AWAITING_AUTHORIZATION" /\ drafts[Draft].revision = j.revision
      /\ drafts[Draft].card = j.card /\ drafts[Draft].digest = j.digest /\ j.handle = None
  BY <1>1 DEF WorkerIsRight, HoldsRow, TellsRight, Approving
<1>3. /\ drafts'[Draft].state = "AWAITING_AUTHORIZATION" /\ drafts'[Draft].revision = j.revision
      /\ drafts'[Draft].card = j.card /\ drafts'[Draft].digest = j.digest
      /\ UNCHANGED <<grants, attempts, receipts>>
  <2>1. CASE CreateDraft(Draft, row)
    <3>1. drafts'[Draft] = row /\ UNCHANGED <<grants, attempts, receipts>>
      BY <1>1, <2>1 DEF CreateDraft, LeaseStep, ProtocolInv, IndInv, TypeOK
    <3> QED BY <3>1 DEF CardRow
  <2>2. CASE UNCHANGED storeVars
    BY <1>2, <2>2 DEF storeVars, vars
  <2> QED BY <2>1, <2>2 DEF PersistAuthority, Try, TryCreate
<1>4. OneGrantPerCommand' /\ CardIsFresh'
  BY <1>2, <1>3, SameCard DEF LeaseStep, TurnsApart, Exists
<1>5. Carry(w, "issue", j)
  BY <1>1, <1>3, GotoCarries DEF PersistAuthority, LeaseStep, ProtocolInv
<1>6. WorkerIsRight("issue", j)'
  BY <1>2, <1>3 DEF WorkerIsRight, HoldsRow, RequestIsOwn, TellsRight, Approving, Submitting
<1> QED BY <1>1, <1>4, <1>5, <1>6, TurnLands

(* A new Grant is the first for its command: an older one would be for the   *)
(* same card, and be found.                                                  *)
LEMMA IssueApart ==
  ASSUME LeaseStep, NEW w \in Workers, Issue(w)
  PROVE  TurnsApart'
<1> PICK j : j = job[w]
  OBVIOUS
<1>1. /\ w \in Procs /\ pc[w] = "issue" /\ Alone(w) /\ Draft \in Drafts
      /\ WorkerIsRight("issue", j) /\ j \in JobRow
  BY ActsAlone, OneDraft DEF Issue, Procs, Resting, Ends, LeaseStep, TurnsApart, ProtocolInv,
     JobsFit
<1>2. /\ drafts[Draft].state = "AWAITING_AUTHORIZATION" /\ drafts[Draft].revision = j.revision
      /\ drafts[Draft].card = j.card /\ drafts[Draft].digest = j.digest /\ j.handle = None
  BY <1>1 DEF WorkerIsRight, HoldsRow, TellsRight, Approving
<1>3. CASE UNCHANGED storeVars /\ Finish(w, "stopped")
  <2>1. UNCHANGED drafts
    BY <1>3 DEF storeVars, vars
  <2> QED BY <1>1, <1>3, <2>1, QuietCall, FinishLands DEF Resting, Ends
<1>4. ASSUME NEW g \in Grants, Carry(w, "preflight", [j EXCEPT !.grant = g]),
             UNCHANGED drafts, Exists(grants'[g]), grants'[g].digest = j.digest,
             OneGrantPerCommand', CardIsFresh'
      PROVE  TurnsApart'
  <2> PICK k : k = [j EXCEPT !.grant = g]
    OBVIOUS
  <2>1. /\ k.revision = j.revision /\ k.digest = j.digest /\ k.card = j.card /\ k.grant = g
        /\ k.handle = None
    BY <1>1, <1>2 DEF JobRow
  <2>2. WorkerIsRight("preflight", k)'
    BY <1>2, <1>4, <2>1
       DEF WorkerIsRight, HoldsRow, RequestIsOwn, TellsRight, Approving, Submitting, Exists
  <2> QED BY <1>1, <1>4, <2>2, TurnLands
<1>5. ASSUME NEW g \in Grants, Exists(grants[g]), SameCommand(grants[g], Command(j)),
             Carry(w, "preflight", [j EXCEPT !.grant = g]), UNCHANGED storeVars
      PROVE  TurnsApart'
  <2>1. UNCHANGED <<drafts, grants>> /\ grants[g].digest = j.digest
    BY <1>5 DEF storeVars, vars, SameCommand, Command
  <2> QED BY <1>4, <1>5, <2>1, QuietCall
<1>6. ASSUME NEW g \in Grants, IssueGrant(g, Draft, j.revision, j.digest, j.card),
             Carry(w, "preflight", [j EXCEPT !.grant = g])
      PROVE  TurnsApart'
  <2>1. /\ ~Exists(grants[g])
        /\ \A h \in Grants : Exists(grants[h]) =>
             ~(/\ SameCommand(grants[h], [draft |-> Draft, revision |-> j.revision,
                                          digest |-> j.digest])
               /\ grants[h].card = j.card)
    BY <1>6 DEF IssueGrant, IsNewGrant
  <2>2. /\ Exists(grants'[g]) /\ grants'[g].digest = j.digest
        /\ grants'[g].revision = j.revision /\ grants'[g].card = j.card
        /\ \A h \in Grants : h # g => grants'[h] = grants[h]
        /\ UNCHANGED <<drafts, attempts>>
    BY <1>6 DEF IssueGrant, LeaseStep, ProtocolInv, IndInv, TypeOK, Exists
  <2>3. ASSUME NEW h \in Grants, Exists(grants[h]), grants[h].digest = j.digest
        PROVE  FALSE
    <3>1. grants[h].revision = j.revision /\ grants[h].card = j.card
      BY <1>2, <2>3 DEF LeaseStep, TurnsApart, CardIsFresh
    <3>2. grants[h] \in GrantRow
      BY <2>3, RowsAreTyped DEF LeaseStep, ProtocolInv, IndInv
    <3>3. grants[h].draft = Draft
      BY <3>2, OneDraft DEF GrantRow
    <3> QED BY <2>1, <2>3, <3>1, <3>3 DEF SameCommand
  <2>4. OneGrantPerCommand'
    <3>1. \A h \in Grants : Exists(grants'[h]) =>
            Exists(drafts[Draft]) /\ grants'[h].digest <= drafts[Draft].digest
      <4>1. drafts[Draft].digest \in Nat
        BY <1>1, <1>2, RowsAreTyped, Bounds DEF LeaseStep, ProtocolInv, IndInv, DraftRow, Exists
      <4> QED BY <1>2, <2>2, <4>1 DEF LeaseStep, TurnsApart, OneGrantPerCommand, Exists
    <3>2. \A h, x \in Grants : /\ Exists(grants'[h]) /\ Exists(grants'[x])
                               /\ grants'[h].digest = grants'[x].digest
                               => h = x
      BY <2>2, <2>3 DEF LeaseStep, TurnsApart, OneGrantPerCommand
    <3> QED BY <2>2, <3>1, <3>2 DEF OneGrantPerCommand, Exists
  <2>5. CardIsFresh'
    BY <1>2, <2>2, <2>3 DEF LeaseStep, TurnsApart, CardIsFresh, KeyTaken, AttemptOf, Exists
  <2> QED BY <1>4, <1>6, <2>2, <2>4, <2>5
<1> QED BY <1>1, <1>3, <1>5, <1>6 DEF Issue
-----------------------------------------------------------------------------
(* The commit node up to the reservation *)

\* What a worker at s has in hand when it acts.
LEMMA WorkerActs ==
  ASSUME LeaseStep, NEW w \in Workers, NEW s, s \notin Resting, pc[w] = s
  PROVE  /\ w \in Procs /\ Alone(w) /\ Draft \in Drafts
         /\ job[w] \in JobRow /\ JobFits(s, job[w]) /\ WorkerIsRight(s, job[w])
  BY ActsAlone, OneDraft DEF Procs, LeaseStep, TurnsApart, ProtocolInv, JobsFit

LEMMA PreflightApart ==
  ASSUME LeaseStep, NEW w \in Workers, Preflight(w)
  PROVE  TurnsApart'
<1> PICK j : j = job[w]
  OBVIOUS
<1>1. /\ w \in Procs /\ Alone(w) /\ j \in JobRow
      /\ JobFits("preflight", j) /\ WorkerIsRight("preflight", j)
  BY WorkerActs DEF Preflight, Resting, Ends
<1>2. OneGrantPerCommand' /\ CardIsFresh' /\ UNCHANGED <<drafts, grants>>
  BY QuietCall DEF Preflight, storeVars, vars
<1>3. j.grant \in Grants /\ j.handle = None
  BY <1>1 DEF JobFits, Approving, WorkerIsRight, TellsRight
<1>4. ASSUME NEW t \in {"reserve", "void"}, Goto(w, t)
      PROVE  TurnsApart'
  <2>1. HoldsRow(t, j)'
    BY <1>1, <1>2, <1>3, StillHolds DEF WorkerIsRight
  <2>2. WorkerIsRight(t, j)'
    BY <1>3, <2>1 DEF WorkerIsRight, RequestIsOwn, TellsRight
  <2>3. Carry(w, t, j)
    BY <1>1, <1>4, GotoCarries DEF LeaseStep, ProtocolInv
  <2> QED BY <1>1, <1>2, <2>2, <2>3, TurnLands
<1>5. CASE version # j.digest /\ Carry(w, "reconfirm", [j EXCEPT !.digest = version])
  <2> PICK k : k = [j EXCEPT !.digest = version]
    OBVIOUS
  <2>1. /\ k.revision = j.revision /\ k.digest = version /\ k.card = j.card
        /\ k.handle = None
    BY <1>1, <1>3 DEF JobRow
  <2>2. j.digest \in Nat /\ version \in Nat /\ j.digest < version
    BY <1>1, <1>5, PreparedIsTyped
       DEF JobFits, Approving, Prepared, LeaseStep, ProtocolInv, RequestsAuthorized
  <2>3. WorkerIsRight("reconfirm", k)'
    BY <1>1, <1>2, <2>1, <2>2
       DEF WorkerIsRight, HoldsRow, RequestIsOwn, TellsRight, Approving, Submitting
  <2> QED BY <1>1, <1>2, <1>5, <2>3, TurnLands
<1> QED BY <1>4, <1>5 DEF Preflight

\* Void and Settle: what a Grant is after it was revoked.
LEMMA RevokeSpends ==
  ASSUME LeaseStep, NEW g \in Grants, Exists(grants[g]), Revoke(g)
  PROVE  /\ OneGrantPerCommand' /\ CardIsFresh' /\ UNCHANGED <<drafts, attempts>>
         /\ Exists(grants'[g]) /\ grants'[g].digest = grants[g].digest
         /\ grants'[g].state # "ISSUED"
<1>1. Exists(grants'[g]) /\ grants'[g].digest = grants[g].digest
  BY DEF LeaseStep, GrantsStay
<1>2. CASE RevokeGrant(g)
  <2>1. UNCHANGED <<drafts, attempts>> /\ grants'[g].state = "REVOKED"
    <3>1. grants[g] \in GrantRow
      BY RowsAreTyped DEF LeaseStep, ProtocolInv, IndInv
    <3> QED BY <1>2, <3>1 DEF RevokeGrant, LeaseStep, ProtocolInv, IndInv, TypeOK, GrantRow
  <2> QED BY <1>1, <1>2, <2>1, QuietCall
<1>3. CASE grants[g].state # "ISSUED" /\ UNCHANGED storeVars
  BY <1>1, <1>3, QuietCall DEF storeVars, vars
<1> QED BY <1>2, <1>3 DEF Revoke

(* A command that is voided was never submitted and has spent its Grant. *)
LEMMA VoidApart ==
  ASSUME LeaseStep, NEW w \in Workers, Void(w)
  PROVE  TurnsApart'
<1> PICK j : j = job[w]
  OBVIOUS
<1> PICK c : c = j.digest
  OBVIOUS
<1>1. /\ w \in Procs /\ Alone(w) /\ JobFits("void", j) /\ WorkerIsRight("void", j)
  BY WorkerActs DEF Void, Resting, Ends
<1>2. /\ j.grant \in Grants /\ Exists(grants[j.grant]) /\ grants[j.grant].digest = c
      /\ drafts[Draft].state = "AWAITING_AUTHORIZATION" /\ drafts[Draft].digest = c
  BY <1>1 DEF JobFits, Approving, WorkerIsRight, HoldsRow
<1>3. /\ OneGrantPerCommand' /\ CardIsFresh' /\ UNCHANGED <<drafts, attempts>>
      /\ Exists(grants'[j.grant]) /\ grants'[j.grant].digest = c
      /\ grants'[j.grant].state # "ISSUED"
  BY <1>2, RevokeSpends DEF Void
<1>4. ~KeyTaken(Draft, c)
  BY <1>2 DEF LeaseStep, TurnsApart, CardIsFresh
<1>5. Spoiled(c)'
  BY <1>2, <1>3, <1>4 DEF Spoiled, KeyTaken, AttemptOf, Exists
<1>6. Finish(w, "failed") /\ "failed" \in Resting
  BY DEF Void, Resting, Ends
<1> QED BY <1>1, <1>3, <1>5, <1>6, FinishLands

LEMMA ReconfirmApart ==
  ASSUME LeaseStep, NEW w \in Workers, Reconfirm(w)
  PROVE  TurnsApart'
<1> PICK j : j = job[w]
  OBVIOUS
<1>1. /\ w \in Procs /\ Alone(w) /\ WorkerIsRight("reconfirm", j) /\ j.grant \in Grants
  BY WorkerActs DEF Reconfirm, Resting, Ends, JobFits, Approving
<1>2. OneGrantPerCommand' /\ CardIsFresh' /\ UNCHANGED drafts
  BY <1>1, QuietCall DEF Reconfirm, Revoke, RevokeGrant, storeVars, vars
<1>3. HoldsRow("represent", j)' /\ j.handle = None
  BY <1>1, <1>2, StillHolds DEF WorkerIsRight, TellsRight
<1>4. WorkerIsRight("represent", j)'
  BY <1>3 DEF WorkerIsRight, RequestIsOwn, TellsRight
<1>5. Carry(w, "represent", j)
  BY <1>1, GotoCarries DEF Reconfirm, LeaseStep, ProtocolInv
<1> QED BY <1>1, <1>2, <1>4, <1>5, TurnLands

(* The new card is for a later command, which no Grant and no Attempt names. *)
LEMMA RepresentApart ==
  ASSUME LeaseStep, NEW w \in Workers, Represent(w)
  PROVE  TurnsApart'
<1> PICK j : j = job[w]
  OBVIOUS
<1>1. /\ w \in Procs /\ Alone(w) /\ Draft \in Drafts /\ JobFits("represent", j)
      /\ WorkerIsRight("represent", j)
  BY WorkerActs DEF Represent, Resting, Ends
<1>2. OneGrantPerCommand' /\ CardIsFresh'
  <2>1. CASE UNCHANGED storeVars
    BY <2>1, QuietCall DEF storeVars, vars
  <2>2. ASSUME NEW k \in Cards, CreateDraft(Draft, CardRow(j.revision + 1, j.digest, k))
        PROVE  OneGrantPerCommand' /\ CardIsFresh'
    <3>1. drafts'[Draft].digest = j.digest /\ Exists(drafts'[Draft])
          /\ UNCHANGED <<grants, attempts>>
      <4>1. drafts'[Draft] = CardRow(j.revision + 1, j.digest, k)
        BY <1>1, <2>2 DEF CreateDraft, LeaseStep, ProtocolInv, IndInv, TypeOK
      <4> QED BY <2>2, <4>1 DEF CreateDraft, CardRow, Exists
    <3>2. /\ drafts[Draft].digest < j.digest /\ drafts[Draft].digest \in Nat /\ j.digest \in Nat
      <4>1. drafts[Draft].digest < j.digest /\ Exists(drafts[Draft])
        BY <1>1 DEF WorkerIsRight, HoldsRow, Approving, Exists
      <4>2. drafts[Draft] \in DraftRow
        BY <1>1, <4>1, RowsAreTyped DEF LeaseStep, ProtocolInv, IndInv
      <4> QED BY <1>1, <4>1, <4>2, Bounds, PreparedIsTyped
              DEF DraftRow, JobFits, Approving, LeaseStep
    <3>3. \A g \in Grants : Exists(grants[g]) =>
            grants[g].digest <= drafts[Draft].digest /\ grants[g].digest \in Nat
      <4> SUFFICES ASSUME NEW g \in Grants, Exists(grants[g])
                   PROVE  grants[g].digest <= drafts[Draft].digest /\ grants[g].digest \in Nat
        OBVIOUS
      <4>1. grants[g] \in GrantRow
        BY RowsAreTyped DEF LeaseStep, ProtocolInv, IndInv
      <4> QED BY <4>1, Bounds DEF GrantRow, LeaseStep, TurnsApart, OneGrantPerCommand
    <3>4. \A g \in Grants : Exists(grants[g]) => grants[g].digest < j.digest
      BY <3>2, <3>3
    <3>5. ~KeyTaken(Draft, j.digest)
      <4> SUFFICES ASSUME NEW a \in Attempts, AttemptOf(a, Draft, j.digest) PROVE FALSE
        BY DEF KeyTaken
      <4>1. j.digest <= drafts[Draft].digest
        BY AttemptsPrecede DEF AttemptOf, LeaseStep, ProtocolInv, TurnsApart
      <4> QED BY <3>2, <4>1
    <3>6. OneGrantPerCommand'
      BY <3>1, <3>2, <3>3, <3>4 DEF LeaseStep, TurnsApart, OneGrantPerCommand, Exists
    <3>7. CardIsFresh'
      BY <3>1, <3>2, <3>4, <3>5 DEF CardIsFresh, KeyTaken, AttemptOf, Exists
    <3> QED BY <3>6, <3>7
  <2> QED BY <2>1, <2>2 DEF Represent, Try, TryCreate, UnusedCards
<1> QED BY <1>1, <1>2, FinishLands DEF Represent, Resting, Ends

(* The reservation finds the command unsubmitted: the worker's request will  *)
(* be the first for it.                                                      *)
LEMMA ReserveApart ==
  ASSUME LeaseStep, NEW w \in Workers, Reserve(w)
  PROVE  TurnsApart'
<1> PICK j : j = job[w]
  OBVIOUS
<1>1. /\ w \in Procs /\ Alone(w) /\ Draft \in Drafts /\ j \in JobRow /\ JobFits("reserve", j)
      /\ WorkerIsRight("reserve", j)
  BY WorkerActs DEF Reserve, Resting, Ends
<1>2. /\ drafts[Draft].state = "AWAITING_AUTHORIZATION" /\ drafts[Draft].revision = j.revision
      /\ drafts[Draft].digest = j.digest /\ j.handle = None /\ j.grant \in Grants
      /\ Exists(grants[j.grant])
  BY <1>1 DEF WorkerIsRight, HoldsRow, TellsRight, JobFits, Approving
<1>3. ~KeyTaken(Draft, j.digest)
  BY <1>2 DEF LeaseStep, TurnsApart, CardIsFresh
<1>4. /\ j.digest \notin done /\ NoRequest(j.digest)
      /\ UNCHANGED <<done, call>>
  BY <1>3 DEF LeaseStep, ProtocolInv, EffectHasAttempt, RequestsAuthorized, NoRequest, Reserve,
     serviceVars
<1>5. CASE /\ Finish(w, "unknown")
           /\ \/ RejectReservation(j.grant, Draft, j.revision, j.digest)
              \/ ExpireGrant(j.grant, Draft, j.revision, j.digest)
              \/ UNCHANGED storeVars
  <2>1. OneGrantPerCommand' /\ CardIsFresh'
    BY <1>2, <1>5, QuietCall DEF RejectReservation, ExpireGrant, storeVars, vars
  <2> QED BY <1>1, <1>5, <2>1, FinishLands DEF Resting, Ends
<1>6. ASSUME NEW a \in Attempts,
             ReserveGrantAndStartAttempt(j.grant, a, Draft, j.revision, j.digest),
             Carry(w, "send", [j EXCEPT !.attempt = a])
      PROVE  TurnsApart'
  <2> PICK k : k = [j EXCEPT !.attempt = a]
    OBVIOUS
  <2>1. /\ k.revision = j.revision /\ k.digest = j.digest /\ k.handle = None /\ k.attempt = a
    BY <1>1, <1>2 DEF JobRow
  <2>2. /\ drafts'[Draft].state = "COMMITTING" /\ drafts'[Draft].revision = j.revision
        /\ drafts'[Draft].digest = j.digest
    <3>1. drafts[Draft] \in DraftRow
      BY <1>1, <1>2, RowsAreTyped DEF LeaseStep, ProtocolInv, IndInv, Exists
    <3>2. drafts'[Draft] = Committing(Draft, j.grant, a)
      BY <1>1, <1>6 DEF ReserveGrantAndStartAttempt, LeaseStep, ProtocolInv, IndInv, TypeOK
    <3> QED BY <1>2, <3>1, <3>2 DEF Committing, DraftRow
  <2>3. /\ \A g \in Grants : Exists(grants'[g]) => Exists(grants[g])
        /\ ~Exists(attempts[a]) /\ UNCHANGED receipts
    BY <1>2, <1>6 DEF ReserveGrantAndStartAttempt, LeaseStep, ProtocolInv, IndInv, TypeOK
  <2>4. OneGrantPerCommand' /\ CardIsFresh'
    BY <1>2, <2>2, <2>3, SameCard DEF LeaseStep, TurnsApart, Exists
  <2>5. ~Exists(receipts'[a])
    BY <2>3 DEF LeaseStep, ProtocolInv, IndInv, ReceiptsCloseAttempts
  <2>6. WorkerIsRight("send", k)'
    BY <1>4, <2>1, <2>2
       DEF WorkerIsRight, HoldsRow, RequestIsOwn, TellsRight, Approving, Submitting, NoRequest
  <2> QED BY <1>1, <1>6, <2>1, <2>4, <2>5, <2>6, TurnLands
<1> QED BY <1>3, <1>5, <1>6 DEF Reserve, KeyTaken
-----------------------------------------------------------------------------
(* The submission, by a worker or a reconciler *)

\* What a turn at s has in hand when it acts.
LEMMA TurnActsAlone ==
  ASSUME LeaseStep, NEW p \in Procs, NEW s, s \notin Resting, pc[p] = s
  PROVE  /\ Alone(p) /\ job[p] \in JobRow /\ JobFits(s, job[p])
         /\ p \in Workers => WorkerIsRight(s, job[p])
  BY ActsAlone DEF LeaseStep, TurnsApart, ProtocolInv, JobsFit

LEMMA SendApart ==
  ASSUME LeaseStep, NEW p \in Procs, SendCommand(p)
  PROVE  TurnsApart'
<1> PICK j : j = job[p]
  OBVIOUS
<1>1. /\ Alone(p) /\ j \in JobRow
      /\ p \in Workers => WorkerIsRight("send", j)
  BY TurnActsAlone DEF SendCommand, Resting, Ends
<1>2. PICK i \in Calls : /\ call' = [call EXCEPT ![i] = [state |-> "sent", cmd |-> j.digest]]
                         /\ Carry(p, "wait", [j EXCEPT !.call = i])
                         /\ UNCHANGED <<done, storeVars>>
  BY DEF SendCommand, Service!Send
<1> PICK k : k = [j EXCEPT !.call = i]
  OBVIOUS
<1>3. /\ k.call = i /\ k.digest = j.digest /\ k.revision = j.revision /\ k.handle = j.handle
  BY <1>1 DEF JobRow
<1>4. UNCHANGED drafts /\ OneGrantPerCommand' /\ CardIsFresh'
  BY <1>2, QuietCall DEF storeVars, vars
<1>5. ASSUME p \in Workers PROVE WorkerIsRight("wait", k)'
  <2>1. HoldsRow("wait", k)'
    <3>1. HoldsRow("wait", j)'
      BY <1>1, <1>4, <1>5, StillHolds DEF WorkerIsRight, Submitting
    <3> QED BY <1>3, <3>1 DEF HoldsRow, Approving, Submitting
  <2>2. RequestIsOwn("wait", k)'
    <3>1. call \in [Calls -> [state : {"idle", "sent", "ok", "refused", "lost"},
                             cmd : Digests \cup {None}]]
      BY DEF LeaseStep, ProtocolInv, RequestsAuthorized
    <3>2. j.digest \notin done /\ NoRequest(j.digest)
      BY <1>1, <1>5 DEF WorkerIsRight, RequestIsOwn
    <3> QED BY <1>2, <1>3, <3>1, <3>2 DEF RequestIsOwn, NoRequest
  <2>3. TellsRight("wait", k)'
    BY <1>1, <1>3, <1>5 DEF WorkerIsRight, TellsRight
  <2> QED BY <2>1, <2>2, <2>3 DEF WorkerIsRight
<1> QED BY <1>1, <1>2, <1>4, <1>5, TurnLands

\* An answer is to the worker's only request: after a refusal nobody asks any more.
LEMMA ReceiveApart ==
  ASSUME LeaseStep, NEW p \in Procs, Receive(p)
  PROVE  TurnsApart'
<1> PICK j : j = job[p]
  OBVIOUS
<1> PICK i : i = j.call
  OBVIOUS
<1>1. /\ Alone(p) /\ j \in JobRow /\ i \in Calls
      /\ p \in Workers => WorkerIsRight("wait", j)
  BY TurnActsAlone DEF Receive, Resting, Ends, JobFits
<1>2. PICK r : /\ Carry(p, "record", [j EXCEPT !.call = None, !.result = r])
               /\ r # "COMMITTED" => call[i].state # "ok"
  BY DEF Receive
<1>3. /\ call' = [call EXCEPT ![i] = [state |-> "idle", cmd |-> None]]
      /\ UNCHANGED <<done, storeVars>>
  BY DEF Receive, Service!Forget, Service!Idle
<1> PICK k : k = [j EXCEPT !.call = None, !.result = r]
  OBVIOUS
<1>4. k.result = r /\ k.digest = j.digest /\ k.revision = j.revision /\ k.handle = j.handle
  BY <1>1 DEF JobRow
<1>5. UNCHANGED drafts /\ OneGrantPerCommand' /\ CardIsFresh'
  BY <1>3, QuietCall DEF storeVars, vars
<1>6. ASSUME p \in Workers PROVE WorkerIsRight("record", k)'
  <2>1. HoldsRow("record", k)'
    <3>1. HoldsRow("record", j)'
      BY <1>1, <1>5, <1>6, StillHolds DEF WorkerIsRight, Submitting
    <3> QED BY <1>4, <3>1 DEF HoldsRow, Approving, Submitting
  <2>2. ASSUME r # "COMMITTED" PROVE j.digest \notin done' /\ NoRequest(j.digest)'
    <3>1. call \in [Calls -> [state : {"idle", "sent", "ok", "refused", "lost"},
                             cmd : Digests \cup {None}]]
      BY DEF LeaseStep, ProtocolInv, RequestsAuthorized
    <3>2. /\ j.digest \notin done
          /\ \A n \in Calls : call[n].state # "idle" /\ call[n].cmd = j.digest => n = i
      BY <1>1, <1>2, <1>6, <2>2 DEF WorkerIsRight, RequestIsOwn
    <3> QED BY <1>1, <1>3, <3>1, <3>2 DEF NoRequest
  <2>3. k.handle = None
    BY <1>1, <1>4, <1>6 DEF WorkerIsRight, TellsRight
  <2> QED BY <1>4, <2>1, <2>2, <2>3 DEF WorkerIsRight, RequestIsOwn, TellsRight, NoRequest
<1> QED BY <1>1, <1>2, <1>5, <1>6, TurnLands

LEMMA TimeOutApart ==
  ASSUME LeaseStep, NEW p \in Procs, TimeOut(p)
  PROVE  TurnsApart'
<1> PICK j : j = job[p]
  OBVIOUS
<1> PICK k : k = [j EXCEPT !.call = None, !.result = "SUBMISSION_UNKNOWN"]
  OBVIOUS
<1>1. /\ Alone(p) /\ j \in JobRow
      /\ p \in Workers => WorkerIsRight("wait", j)
      /\ Carry(p, "mark", k)
  BY TurnActsAlone DEF TimeOut, Resting, Ends
<1>2. /\ k.result = "SUBMISSION_UNKNOWN" /\ k.digest = j.digest /\ k.revision = j.revision
      /\ k.handle = j.handle
  BY <1>1 DEF JobRow
<1>3. UNCHANGED drafts /\ OneGrantPerCommand' /\ CardIsFresh'
  BY QuietCall DEF TimeOut, storeVars, vars
<1>4. ASSUME p \in Workers PROVE WorkerIsRight("mark", k)'
  <2>1. HoldsRow("mark", j)'
    BY <1>1, <1>3, <1>4, StillHolds DEF WorkerIsRight, Submitting
  <2>2. HoldsRow("mark", k)'
    BY <1>2, <2>1 DEF HoldsRow, Approving, Submitting
  <2> QED BY <1>1, <1>2, <1>4, <2>2 DEF WorkerIsRight, RequestIsOwn, TellsRight
<1> QED BY <1>1, <1>3, <1>4, TurnLands

LEMMA MarkApart ==
  ASSUME LeaseStep, NEW p \in Procs, Mark(p)
  PROVE  TurnsApart'
<1> PICK j : j = job[p]
  OBVIOUS
<1>1. /\ Alone(p)
      /\ p \in Workers => WorkerIsRight("mark", j)
      /\ j.attempt \in Attempts
  BY TurnActsAlone DEF Mark, Resting, Ends, JobFits, Submitting
<1>2. UNCHANGED drafts /\ OneGrantPerCommand' /\ CardIsFresh'
  <2>1. UNCHANGED drafts
    BY DEF Mark, Try, TryTransition, TransitionAttempt, storeVars, vars
  <2> QED BY <1>1, <2>1, QuietCall DEF Mark, Try, TryTransition
<1>3. Carry(p, "advance", j)
  BY GotoCarries DEF Mark, LeaseStep, ProtocolInv
<1>4. ASSUME p \in Workers PROVE WorkerIsRight("advance", j)'
  <2>1. HoldsRow("advance", j)'
    BY <1>1, <1>2, <1>4, StillHolds DEF WorkerIsRight, Submitting
  <2> QED BY <1>1, <1>4, <2>1 DEF WorkerIsRight, RequestIsOwn, TellsRight
<1> QED BY <1>1, <1>2, <1>3, <1>4, TurnLands

(* A refusal leaves a Receipt behind, so nobody sends the command again. *)
LEMMA RecordApart ==
  ASSUME LeaseStep, NEW p \in Procs, Record(p)
  PROVE  TurnsApart'
<1> PICK j : j = job[p]
  OBVIOUS
<1> PICK s : s = IF j.result = "COMMITTED" THEN "SUCCESS" ELSE "FAILED"
  OBVIOUS
<1>1. /\ Alone(p)
      /\ p \in Workers => WorkerIsRight("record", j)
      /\ j.attempt \in Attempts /\ AttemptOf(j.attempt, Draft, j.digest) /\ j \in JobRow
  BY TurnActsAlone DEF Record, Resting, Ends, JobFits, Submitting
<1>2. UNCHANGED <<drafts, done, call>> /\ OneGrantPerCommand' /\ CardIsFresh'
  <2>1. UNCHANGED <<drafts, done, call>>
    BY DEF Record, RecordReceipt, storeVars, serviceVars, vars
  <2> QED BY <1>1, <2>1, QuietCall DEF Record
<1>3. CASE Finish(p, "stopped")
  BY <1>1, <1>2, <1>3, FinishLands DEF Resting, Ends
<1>4. CASE /\ \/ RecordReceipt(j.attempt, Draft, s, p)
              \/ Exists(receipts[j.attempt])
           /\ Carry(p, "advance", [j EXCEPT !.handle = p])
  <2> PICK k : k = [j EXCEPT !.handle = p]
    OBVIOUS
  <2>1. k.handle = p /\ k.digest = j.digest /\ k.revision = j.revision /\ k.result = j.result
    BY <1>1 DEF JobRow
  <2>2. Exists(receipts'[j.attempt])
    <3>1. CASE RecordReceipt(j.attempt, Draft, s, p)
      BY <1>1, <3>1 DEF RecordReceipt, LeaseStep, ProtocolInv, IndInv, TypeOK, Exists
    <3>2. CASE Exists(receipts[j.attempt])
      BY <1>1, <3>2 DEF LeaseStep, ReceiptsStay
    <3> QED BY <1>4, <3>1, <3>2
  <2>3. AttemptOf(j.attempt, Draft, j.digest)'
    BY <1>1, KeysStay DEF LeaseStep
  <2>4. ASSUME p \in Workers PROVE WorkerIsRight("advance", k)'
    <3>1. HoldsRow("advance", j)'
      BY <1>1, <1>2, <2>4, StillHolds DEF WorkerIsRight, Submitting
    <3>2. HoldsRow("advance", k)'
      BY <2>1, <3>1 DEF HoldsRow, Approving, Submitting
    <3>3. j.result = "COMMITTED" \/ Refuted(j.digest)'
      <4>1. j.result # "COMMITTED" => j.digest \notin done /\ NoRequest(j.digest)
        BY <1>1, <2>4 DEF WorkerIsRight, TellsRight
      <4> QED BY <1>1, <1>2, <2>2, <2>3, <4>1 DEF Refuted, NoRequest, Exists
    <3>4. k.handle # None
      BY <2>1, Bounds
    <3>5. TellsRight("advance", k)'
      BY <2>1, <3>3, <3>4 DEF TellsRight, Refuted, NoRequest, Exists, AttemptOf
    <3> QED BY <3>2, <3>5 DEF WorkerIsRight, RequestIsOwn
  <2> QED BY <1>1, <1>2, <1>4, <2>4, TurnLands
<1> QED BY <1>3, <1>4 DEF Record

\* The Draft's outcome is written for the command its row holds.
LEMMA AdvanceHolds ==
  ASSUME LeaseStep, NEW st \in ObservedStates, NEW a, NEW b \in BOOLEAN, Draft \in Drafts,
         AdvanceDraft(Draft, st, drafts[Draft].revision, drafts[Draft].digest, a, b)
  PROVE  /\ OneGrantPerCommand' /\ CardIsFresh'
         /\ drafts'[Draft].revision = drafts[Draft].revision
         /\ drafts'[Draft].digest = drafts[Draft].digest
<1>1. drafts[Draft] \in DraftRow
  BY RowsAreTyped DEF AdvanceDraft, MayAdvance, LeaseStep, ProtocolInv, IndInv
<1>2. drafts'[Draft] =
        [AdvancedRow(Draft, st, drafts[Draft].revision, drafts[Draft].digest, b)
           EXCEPT !.attempt = a]
  BY DEF AdvanceDraft, LeaseStep, ProtocolInv, IndInv, TypeOK
<1>3. /\ drafts'[Draft].state = st /\ drafts'[Draft].revision = drafts[Draft].revision
      /\ drafts'[Draft].digest = drafts[Draft].digest
  BY <1>1, <1>2 DEF AdvancedRow, DraftRow
<1>4. st # "AWAITING_AUTHORIZATION" /\ st # "NONE" /\ drafts[Draft].state # "NONE"
  BY DEF ObservedStates, OutcomeStates, AdvanceDraft, MayAdvance, Exists
<1>5. UNCHANGED grants
  BY DEF AdvanceDraft
<1> QED BY <1>3, <1>4, <1>5, SameCard DEF LeaseStep, TurnsApart, Exists

LEMMA AdvanceApart ==
  ASSUME LeaseStep, NEW p \in Procs, Advance(p)
  PROVE  TurnsApart'
<1> PICK j : j = job[p]
  OBVIOUS
<1>1. /\ Alone(p) /\ Draft \in Drafts /\ j.result \in ObservedStates
      /\ p \in Workers => WorkerIsRight("advance", j)
  BY TurnActsAlone, OneDraft DEF Advance, Resting, Ends, JobFits
<1>2. /\ OneGrantPerCommand' /\ CardIsFresh'
      /\ drafts'[Draft].revision = drafts[Draft].revision
      /\ drafts'[Draft].digest = drafts[Draft].digest
  <2>1. CASE UNCHANGED storeVars
    BY <2>1, QuietCall DEF storeVars, vars
  <2>2. CASE p \in Workers /\ AdvanceDraft(Draft, j.result, j.revision, j.digest, j.attempt, TRUE)
    <3>1. drafts[Draft].revision = j.revision /\ drafts[Draft].digest = j.digest
      BY <1>1, <2>2 DEF WorkerIsRight, HoldsRow, Submitting
    <3> QED BY <1>1, <2>2, <3>1, AdvanceHolds
  <2>3. CASE AdvanceDraft(Draft, j.result, drafts[Draft].revision, drafts[Draft].digest,
                          j.attempt, FALSE)
    BY <1>1, <2>3, AdvanceHolds
  <2> QED BY <2>1, <2>2, <2>3 DEF Advance, Try, TryAdvance
<1>3. CASE Finish(p, "unknown")
  BY <1>1, <1>2, <1>3, FinishLands DEF Resting, Ends
<1>4. ASSUME NEW t \in {"seal", "settle"}, Goto(p, t),
             t = "settle" => j.handle = None /\ j.result # "SUBMISSION_UNKNOWN",
             t = "seal" => j.handle # None
      PROVE  TurnsApart'
  <2>1. Carry(p, t, j)
    BY <1>4, GotoCarries DEF LeaseStep, ProtocolInv
  <2>2. ASSUME p \in Workers PROVE WorkerIsRight(t, j)'
    <3>1. HoldsRow(t, j)'
      BY <1>1, <1>2, <2>2 DEF WorkerIsRight, HoldsRow, Approving, Submitting
    <3>2. t = "seal" /\ (j.result = "COMMITTED" \/ Refuted(j.digest))
      BY <1>1, <1>4, <2>2 DEF WorkerIsRight, TellsRight
    <3>3. j.result = "COMMITTED" \/ Refuted(j.digest)'
      BY <3>2 DEF LeaseStep, FatesStay
    <3> QED BY <3>1, <3>2, <3>3 DEF WorkerIsRight, RequestIsOwn, TellsRight
  <2> QED BY <1>1, <1>2, <1>4, <2>1, <2>2, TurnLands
<1> QED BY <1>3, <1>4 DEF Advance

LEMMA SealApart ==
  ASSUME LeaseStep, NEW p \in Procs, Seal(p)
  PROVE  TurnsApart'
<1> PICK j : j = job[p]
  OBVIOUS
<1>1. /\ Alone(p) /\ j.attempt \in Attempts
      /\ p \in Workers => WorkerIsRight("seal", j)
  BY TurnActsAlone DEF Seal, Resting, Ends, JobFits, Submitting
<1>2. UNCHANGED drafts /\ OneGrantPerCommand' /\ CardIsFresh'
  <2>1. UNCHANGED drafts
    BY DEF Seal, Try, TryTransition, TransitionAttempt, storeVars, vars
  <2> QED BY <1>1, <2>1, QuietCall DEF Seal, Try, TryTransition
<1>3. Carry(p, "settle", j)
  BY GotoCarries DEF Seal, LeaseStep, ProtocolInv
<1>4. ASSUME p \in Workers PROVE WorkerIsRight("settle", j)'
  <2>1. HoldsRow("settle", j)'
    BY <1>1, <1>2, <1>4, StillHolds DEF WorkerIsRight, Submitting
  <2>2. j.result = "COMMITTED" \/ Refuted(j.digest)'
    BY <1>1, <1>4 DEF WorkerIsRight, TellsRight, LeaseStep, FatesStay
  <2> QED BY <2>1, <2>2 DEF WorkerIsRight, RequestIsOwn, TellsRight
<1> QED BY <1>1, <1>2, <1>3, <1>4, TurnLands

LEMMA SettleApart ==
  ASSUME LeaseStep, NEW p \in Procs, Settle(p)
  PROVE  TurnsApart'
<1> PICK j : j = job[p]
  OBVIOUS
<1> PICK c : c = j.digest
  OBVIOUS
<1> PICK end : end = IF j.result = "COMMITTED" THEN "committed" ELSE "failed"
  OBVIOUS
<1>1. /\ Alone(p) /\ j.grant \in Grants
      /\ p \in Workers => WorkerIsRight("settle", j)
  BY TurnActsAlone DEF Settle, Resting, Ends, JobFits, Submitting
<1>2. OneGrantPerCommand' /\ CardIsFresh'
  <2>1. UNCHANGED drafts
    BY DEF Settle, Try, TryConsume, Revoke, RevokeGrant, ConsumeGrant, storeVars, vars
  <2>2. CASE j.result = "COMMITTED"
    BY <1>1, <2>1, <2>2, QuietCall DEF Settle, Try, TryConsume
  <2>3. CASE j.result # "COMMITTED"
    BY <1>1, <2>1, <2>3, QuietCall DEF Settle, Revoke
  <2> QED BY <2>2, <2>3
<1>3. Finish(p, end) /\ end \in Resting
  BY DEF Settle, Resting, Ends
<1>4. p \in Workers /\ end = "failed" => Refuted(c)
  BY <1>1 DEF WorkerIsRight, TellsRight
<1> QED BY <1>1, <1>2, <1>3, <1>4, FinishLands

-----------------------------------------------------------------------------
(* Reconciliation, death, the service and the order *)

LEMMA PickApart ==
  ASSUME LeaseStep, NEW r \in Reconcilers, Pick(r)
  PROVE  TurnsApart'
<1>1. /\ r \in Procs /\ r \notin Workers /\ \E j : Carry(r, "recover", j)
      /\ UNCHANGED storeVars
  BY ProtocolAssumption DEF Pick, Listed, Procs
<1>2. Alone(r)
  BY <1>1, ActsAlone DEF Pick, Listed, MayStart, LeaseStep
<1>3. OneGrantPerCommand' /\ CardIsFresh'
  BY <1>1, QuietCall DEF storeVars, vars
<1> QED BY <1>1, <1>2, <1>3, TurnLands

\* A command is sent again only while its Attempt has no Receipt.
LEMMA RecoverApart ==
  ASSUME LeaseStep, NEW r \in Reconcilers, Recover(r)
  PROVE  TurnsApart'
<1> PICK j : j = job[r]
  OBVIOUS
<1>1. r \in Procs /\ r \notin Workers
  BY ProtocolAssumption DEF Procs
<1>2. Alone(r) /\ j.attempt \in Attempts
  BY <1>1, TurnActsAlone DEF Recover, Resting, Ends, JobFits, Submitting
<1>3. OneGrantPerCommand' /\ CardIsFresh'
  <2>1. UNCHANGED drafts
    BY DEF Recover, Try, TryTransition, TransitionAttempt, storeVars, vars
  <2> QED BY <1>2, <2>1, QuietCall DEF Recover, Try, TryTransition
<1>4. CASE Finish(r, "idle")
  BY <1>1, <1>2, <1>3, <1>4, FinishLands DEF Resting
<1>5. CASE ~Exists(receipts[j.attempt]) /\ UNCHANGED storeVars /\ Goto(r, "send")
  <2>1. Carry(r, "send", j)
    BY <1>1, <1>5, GotoCarries DEF LeaseStep, ProtocolInv
  <2>2. ~Exists(receipts'[j.attempt])
    BY <1>5 DEF storeVars, vars, Exists
  <2> QED BY <1>1, <1>2, <1>3, <2>1, <2>2, TurnLands
<1> QED BY <1>4, <1>5 DEF Recover

LEMMA CrashApart ==
  ASSUME LeaseStep, NEW p \in Procs, Crash(p)
  PROVE  TurnsApart'
<1>1. Alone(p) /\ UNCHANGED storeVars /\ Finish(p, "stopped")
  BY ActsAlone DEF Crash
<1>2. OneGrantPerCommand' /\ CardIsFresh'
  BY <1>1, QuietCall DEF storeVars, vars
<1> QED BY <1>1, <1>2, FinishLands DEF Resting, Ends

(* Turns stand still: what they wait for and say stays right if the requests *)
(* move on as they do.                                                       *)
LEMMA ServiceApart ==
  ASSUME LeaseStep, UNCHANGED <<storeVars, pc, job>>,
         RequestsMoveOn \/ UNCHANGED <<done, call>>
  PROVE  TurnsApart'
<1>1. /\ UNCHANGED <<drafts, grants, attempts, receipts, pc, job>>
      /\ OneGrantPerCommand' /\ CardIsFresh'
  BY QuietCall DEF storeVars, vars
<1>2. OneTurn' /\ SendsAreOpen'
  BY <1>1 DEF LeaseStep, TurnsApart, OneTurn, SendsAreOpen, Exists
<1>3. \A c : c \notin done /\ NoRequest(c) => c \notin done' /\ NoRequest(c)'
  <2>1. CASE RequestsMoveOn
    BY <2>1, UnaskedStays
  <2>2. CASE UNCHANGED <<done, call>>
    BY <2>2 DEF NoRequest
  <2> QED BY <2>1, <2>2
<1>4. ASSUME NEW w \in Workers, NEW s, s = pc[w], NEW j, j = job[w]
      PROVE  WorkerIsRight(s, j)'
  <2>1. WorkerIsRight(s, j) /\ w \in Procs
    BY <1>4 DEF LeaseStep, TurnsApart, Procs
  <2>2. HoldsRow(s, j)'
    BY <1>1, <2>1 DEF WorkerIsRight, HoldsRow, Exists
  <2>3. TellsRight(s, j)'
    BY <1>3, <2>1 DEF WorkerIsRight, TellsRight, LeaseStep, FatesStay
  <2>4. ASSUME s = "wait"
        PROVE  /\ call'[j.call].state # "ok" => j.digest \notin done'
               /\ \A i \in Calls :
                    call'[i].state # "idle" /\ call'[i].cmd = j.digest => i = j.call
    <3>1. /\ call[j.call].state # "ok" => j.digest \notin done
          /\ \A i \in Calls : call[i].state # "idle" /\ call[i].cmd = j.digest => i = j.call
      BY <2>1, <2>4 DEF WorkerIsRight, RequestIsOwn
    <3>2. CASE UNCHANGED <<done, call>>
      BY <3>1, <3>2
    <3>3. CASE RequestsMoveOn
      <4>1. j.call \in WaitingCalls
        BY <1>4, <2>1, <2>4 DEF WaitingCalls
      <4>2. call'[j.call].state # "ok" => call[j.call].state # "ok"
        BY <3>3, <4>1 DEF RequestsMoveOn
      <4>3. \A i \in Calls : call'[i].state # "idle" =>
              call[i].state # "idle" /\ call'[i].cmd = call[i].cmd
        BY <3>3 DEF RequestsMoveOn
      <4>4. \/ done' = done
            \/ \E k \in Calls : /\ done' = done \cup {call[k].cmd}
                                /\ call[k].state = "sent" /\ call'[k].state = "ok"
        BY <3>3 DEF RequestsMoveOn
      <4> QED BY <3>1, <4>2, <4>3, <4>4
    <3> QED BY <3>2, <3>3
  <2>5. RequestIsOwn(s, j)'
    BY <1>3, <2>1, <2>4 DEF WorkerIsRight, RequestIsOwn
  <2> QED BY <2>2, <2>3, <2>5 DEF WorkerIsRight
<1>5. \A w \in Workers : WorkerIsRight(pc[w], job[w])'
  BY <1>1, <1>4 DEF WorkerIsRight, HoldsRow, RequestIsOwn, TellsRight, Refuted, Spoiled
<1> QED BY <1>1, <1>2, <1>5 DEF TurnsApart, SendsAreOpen

LEMMA PresentCardApart ==
  ASSUME LeaseStep, PresentCard
  PROVE  TurnsApart'
<1>1. /\ UNCHANGED <<grants, attempts, receipts, setting, done, call, pc, job>>
      /\ ~Exists(drafts[Draft])
  BY DEF PresentCard, CreateDraft, serviceVars
<1>2. /\ \A g \in Grants : ~Exists(grants[g])
      /\ \A a \in Attempts : ~Exists(attempts[a])
  BY <1>1, AttemptsPrecede DEF LeaseStep, ProtocolInv, TurnsApart, OneGrantPerCommand
<1>3. OneGrantPerCommand' /\ CardIsFresh'
  BY <1>1, <1>2 DEF OneGrantPerCommand, CardIsFresh, KeyTaken, AttemptOf, Exists
<1>4. OneTurn' /\ SendsAreOpen'
  BY <1>1 DEF LeaseStep, TurnsApart, OneTurn, SendsAreOpen, Exists
<1>5. ASSUME NEW w \in Workers PROVE WorkerIsRight(pc[w], job[w])'
  <2>1. WorkerIsRight(pc[w], job[w]) /\ w \in Procs
    BY DEF LeaseStep, TurnsApart, Procs
  <2>2. pc[w] \in Pcs /\ JobFits(pc[w], job[w])
    BY <2>1 DEF LeaseStep, ProtocolInv, JobsFit
  <2>3. pc[w] \notin Approving \cup Submitting
    BY <1>1, <1>2, <2>1, <2>2 DEF WorkerIsRight, HoldsRow, Exists, JobFits, AttemptOf
  <2> QED BY <1>1, <2>1, <2>3
          DEF WorkerIsRight, HoldsRow, RequestIsOwn, TellsRight, Refuted, Spoiled, NoRequest,
              KeyTaken, AttemptOf, Exists, Approving, Submitting
<1> QED BY <1>1, <1>3, <1>4, <1>5 DEF TurnsApart, SendsAreOpen

LEMMA SettingStays ==
  ASSUME ProtocolInv, [ProtocolNext]_protocolVars
  PROVE  setting' = setting
  BY TurnsRequests DEF ProtocolNext, protocolVars, serviceVars, PresentCard, ServiceStep, Serve,
     ServeOverlapping, Abandon, Order, Procs

\* What survives every step under the lease.
LEMMA LeaseGoesOn ==
  ASSUME ProtocolInv, TurnsApart, [ProtocolNext]_protocolVars, setting.leaseHolds
  PROVE  LeaseStep
<1>1. [Next]_vars
  BY ProtocolStep
<1>2. RowsStay /\ GrantsStay /\ ReceiptsStay
  BY <1>1, StoreKeepsRows, StoreKeepsGrants, StoreKeepsReceipts DEF ProtocolInv, IndInv
<1>3. SendsAreOpen /\ OneGrantPerCommand /\ TypeOK
  BY DEF TurnsApart, SendsAreOpen, ProtocolInv, IndInv
<1>4. FatesStay
  BY <1>1, <1>3, RefutedStays, SpoiledStays DEF FatesStay
<1> QED BY <1>1, <1>2, <1>4 DEF LeaseStep

LEMMA ApartStep ==
  ASSUME ProtocolInv, TurnsApart, [ProtocolNext]_protocolVars
  PROVE  TurnsApart'
<1>1. CASE ~setting.leaseHolds
  BY <1>1, SettingStays DEF TurnsApart
<1>2. CASE setting.leaseHolds
  <2>1. LeaseStep
    BY <1>2, LeaseGoesOn
  <2>2. ASSUME NEW p \in Procs, Submission(p) \/ Receive(p) \/ TimeOut(p) \/ Crash(p)
        PROVE  TurnsApart'
    BY <2>1, <2>2, SendApart, MarkApart, RecordApart, AdvanceApart, SealApart, SettleApart,
       ReceiveApart, TimeOutApart, CrashApart DEF Submission
  <2>3. ASSUME NEW w \in Workers, Approve(w) \/ WorkerStep(w)
        PROVE  TurnsApart'
    <3>1. w \in Procs
      BY DEF Procs
    <3>2. ~Taken(w)
      BY <2>1 DEF Taken, LeaseStep, TurnsApart, WorkerIsRight, TellsRight
    <3> QED BY <2>1, <2>2, <2>3, <3>1, <3>2, ApproveApart, PersistApart, IssueApart,
               PreflightApart, VoidApart, ReconfirmApart, RepresentApart, ReserveApart
            DEF WorkerStep
  <2>4. ASSUME NEW r \in Reconcilers, Pick(r) \/ ReconcilerStep(r)
        PROVE  TurnsApart'
    <3>1. r \in Procs
      BY DEF Procs
    <3> QED BY <2>1, <2>2, <2>4, <3>1, PickApart, RecoverApart DEF ReconcilerStep
  <2>5. ASSUME NEW i \in Calls, ServiceStep(i)
        PROVE  TurnsApart'
    <3>1. UNCHANGED <<storeVars, pc, job>>
      BY <2>5 DEF ServiceStep, Serve, ServeOverlapping, Abandon
    <3> QED BY <2>1, <2>5, <3>1, ServiceMovesOn, ServiceApart
  <2>6. CASE Order \/ UNCHANGED protocolVars
    <3>1. UNCHANGED <<done, call, storeVars, pc, job>>
      BY <2>6 DEF Order, Service!TouchOrder, Service!ApplyElsewhere, Service!CloseApplications,
         protocolVars, serviceVars
    <3> QED BY <2>1, <3>1, ServiceApart
  <2>7. CASE PresentCard
    BY <2>1, <2>7, PresentCardApart
  <2> QED BY <2>2, <2>3, <2>4, <2>5, <2>6, <2>7 DEF ProtocolNext
<1> QED BY <1>1, <1>2

LEMMA ApartBegins == ProtocolInit => TurnsApart
<1> SUFFICES ASSUME ProtocolInit PROVE TurnsApart
  OBVIOUS
<1>1. /\ \A p \in Procs : pc[p] = "idle" /\ job[p].handle = None
      /\ \A g \in Grants : ~Exists(grants[g])
      /\ drafts[Draft].state = "NONE"
  BY OneDraft DEF ProtocolInit, Init, Absent, Exists, NoJob
<1>2. OneTurn /\ OneGrantPerCommand /\ CardIsFresh
  BY <1>1 DEF OneTurn, OneGrantPerCommand, CardIsFresh, Resting
<1>3. \A w \in Workers : WorkerIsRight(pc[w], job[w])
  BY <1>1 DEF Procs, WorkerIsRight, HoldsRow, RequestIsOwn, TellsRight, Approving, Submitting
<1> QED BY <1>1, <1>2, <1>3 DEF TurnsApart

(* While the lease keeps turns apart, a worker is alone with its command:    *)
(* one turn runs, the command has one Grant, its Draft waits on one card,    *)
(* and the only request for it is the worker's own (agent_service.py,        *)
(* _serialized_turn; commit_runtime.py, commit_action_node).                 *)
THEOREM LeaseKeepsTurnsApart == ProtocolSpec => []TurnsApart
<1>1. ProtocolInv /\ TurnsApart /\ [ProtocolNext]_protocolVars => TurnsApart'
  BY ApartStep
<1> QED BY <1>1, ApartBegins, ProtocolInvariance, PTL DEF ProtocolSpec

(* What the customer is told stays true: "committed" of a command that took  *)
(* effect and, while the lease keeps turns apart, "failed" of one that has   *)
(* no effect and will have none, on both databases, whatever turns die, time *)
(* out or find the order changed (commit_action_node).                       *)
THEOREM ToldOutcomeIsTrue == ProtocolSpec => []ToldOutcome
<1>1. ProtocolInv => ToldSuccess
  BY DEF ProtocolInv, JobsFit, JobFits, ToldSuccess, Procs
<1>2. ProtocolInv /\ TurnsApart => (setting.leaseHolds => ToldFailure)
  <2> SUFFICES ASSUME ProtocolInv, TurnsApart, setting.leaseHolds,
                      NEW w \in Workers, pc[w] = "failed"
               PROVE  job[w].digest \notin done
    BY DEF ToldFailure
  <2>1. Refuted(job[w].digest) \/ Spoiled(job[w].digest)
    BY DEF TurnsApart, WorkerIsRight, TellsRight
  <2> QED BY <2>1 DEF Refuted, Spoiled, ProtocolInv, EffectHasAttempt
<1>3. ProtocolInv /\ TurnsApart => ToldOutcome
  BY <1>1, <1>2 DEF ToldOutcome
<1> QED BY <1>3, ProtocolInvariance, LeaseKeepsTurnsApart, PTL
=============================================================================
