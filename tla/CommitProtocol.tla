---------------------------- MODULE CommitProtocol ----------------------------
(***************************************************************************)
(* The life of one approved Draft across the two services: workers that    *)
(* approve and commit it (coordinator.py, commit_runtime.py), reconcilers  *)
(* that recover its Attempt (reconciliation.py), the transaction           *)
(* repository they share (TransactionStore) and the Business Service they  *)
(* call (CommandService).  Every repository call is a step of its own:     *)
(* workers and reconcilers interleave between any two of them, crash       *)
(* between any two of them, and time out on a request that the Business    *)
(* Service may still execute later.                                        *)
(*                                                                         *)
(* The conversation lease normally lets one turn run at a time             *)
(* (leaseHolds).  A turn that lost its lease is stopped at its next        *)
(* checkpoint write, not at a repository or business call, so without      *)
(* leaseHolds turns overlap.  ConversationLease models the lease.          *)
(***************************************************************************)
EXTENDS TransactionStore

CONSTANTS
  Workers,           \* turns that carry an approval
  Reconcilers,       \* turns that reconcile first
  Calls,             \* business requests under way at once
  MaxOrderVersion,   \* bound on the order's version
  Settings           \* the circumstances a behaviour may run under

Procs == Workers \cup Reconcilers

(* leaseHolds: turns never overlap; mayCrash: a turn may die between any two *)
(* calls; applicationsClose: staff may close what a command opened;          *)
(* serverErrors: the Business Service may answer with an internal error.     *)
Setting == [database : {"sqlite", "postgres"}, leaseHolds : BOOLEAN, mayCrash : BOOLEAN,
            applicationsClose : BOOLEAN, serverErrors : BOOLEAN]

ASSUME ProtocolAssumption ==
  /\ \E d \in Drafts : Drafts = {d}
  /\ Digests = 1 .. MaxOrderVersion      \* the command prepared for each order version
  /\ Handles = Procs                     \* the Receipt handle each turn generates
  /\ MaxOrderVersion \in Nat \ {0}       \* the other bounds leave room for its commands
  /\ MaxOrderVersion <= MaxRevision /\ MaxRevision <= MaxVersion
  /\ Settings \subseteq Setting
  /\ Workers \cap Reconcilers = {}       \* turns are named by what they do

VARIABLES
  setting,                     \* the circumstances, fixed at the start
  version, open, done, call,   \* its state, see CommandService
  pc,                          \* where each turn is
  job                          \* what it has in hand

Service == INSTANCE CommandService
             WITH Commands <- Digests, ExpectedVersion <- [c \in Digests |-> c],
                  KindOf <- [c \in Digests |-> "apply"], status <- "signed"

storeVars    == vars
serviceVars  == <<setting, version, open, done, call>>
protocolVars == <<storeVars, serviceVars, pc, job>>

Draft == CHOOSE d \in Drafts : TRUE

NoJob == [revision |-> 0, digest |-> None, card |-> None, grant |-> None,
          attempt |-> None, call |-> None, result |-> None, handle |-> None]

\* What a turn ends with: the outcome its customer is told, or nothing (it raised or died).
Ends    == {"committed", "failed", "unknown", "rejected", "stopped"}
Resting == {"idle"} \cup Ends

ProtocolInit ==
  /\ Init
  /\ setting \in Settings
  /\ Service!Init
  /\ pc = [p \in Procs |-> "idle"]
  /\ job = [p \in Procs |-> NoJob]

-----------------------------------------------------------------------------
\* A repository call whose refusal the caller does not notice.
Try(may, A) == A \/ (~may /\ UNCHANGED storeVars)

TryCreate(row)         == Try(MayCreate(Draft, row), CreateDraft(Draft, row))
TryTransition(a, s, h) == Try(MayTransition(a, s, h), TransitionAttempt(a, s, h))
TryConsume(g, a, h)    == Try(MayConsume(g, a, h), ConsumeGrant(g, a, h))
TryAdvance(s, revision, digest, a, reprojected) ==
  Try(MayAdvance(Draft, s, revision, digest, a, reprojected),
      AdvanceDraft(Draft, s, revision, digest, a, reprojected))

\* revoke_grant says nothing of a Grant that is spent already.
Revoke(g) ==
  \/ RevokeGrant(g)
  \/ grants[g].state \notin {"ISSUED", "RESERVED"} /\ UNCHANGED storeVars

Goto(p, s)      == pc' = [pc EXCEPT ![p] = s] /\ UNCHANGED job
Carry(p, s, j)  == pc' = [pc EXCEPT ![p] = s] /\ job' = [job EXCEPT ![p] = j]

\* The turn ends; what remains of a worker is the command it told its customer about.
Finish(p, end) ==
  IF p \in Workers THEN Carry(p, end, [NoJob EXCEPT !.digest = job[p].digest])
                   ELSE Carry(p, "idle", NoJob)

\* Mutant: a turn does not wait for the one before it.
MayStartAtOnce == TRUE

MayStart == setting.leaseHolds => \A q \in Procs : pc[q] \in Resting

Command(j) == [draft |-> Draft, revision |-> j.revision, digest |-> j.digest]

\* The row _mark_offer_awaiting_authority persists; the card's version counts with the revision.
CardRow(revision, digest, card) ==
  [state |-> "AWAITING_AUTHORIZATION", revision |-> revision, digest |-> digest,
   card |-> card, version |-> revision, turn |-> 0, grant |-> None, attempt |-> None]

UnusedCards == {k \in Cards : drafts[Draft] = Absent \/ drafts[Draft].card # k} \
                 {grants[g].card : g \in {x \in Grants : Exists(grants[x])}}

\* The gateway presents the first card, for the order as it is now.
PresentCard ==
  /\ ~Exists(drafts[Draft])
  /\ \E k \in Cards : CreateDraft(Draft, CardRow(1, version, k))
  /\ UNCHANGED <<serviceVars, pc, job>>

-----------------------------------------------------------------------------
(* Approval: validate_action_authority, issue_grant_for_authority *)

\* The card in the turn's hands is the one that the Draft still waits on.
Approve(w) ==
  /\ pc[w] = "idle" /\ MayStart
  /\ drafts[Draft].state = "AWAITING_AUTHORIZATION"
  /\ Carry(w, "persist", [NoJob EXCEPT !.revision = drafts[Draft].revision,
                            !.digest = drafts[Draft].digest, !.card = drafts[Draft].card])
  /\ UNCHANGED <<storeVars, serviceVars>>

PersistAuthority(w) ==
  /\ pc[w] = "persist"
  /\ TryCreate(CardRow(job[w].revision, job[w].digest, job[w].card))
  /\ IF drafts'[Draft].state = "AWAITING_AUTHORIZATION" THEN Goto(w, "issue")
                                                        ELSE Finish(w, "stopped")
  /\ UNCHANGED serviceVars

\* One Grant per command and card: a second approval of the card gets the first one's.
Issue(w) ==
  LET j == job[w]
      issued == {g \in Grants : Exists(grants[g]) /\ SameCommand(grants[g], Command(j))
                                  /\ grants[g].card = j.card}
  IN  /\ pc[w] = "issue"
      /\ UNCHANGED serviceVars
      /\ \/ /\ ~GrantIssueAllowed(drafts[Draft], j.revision, j.digest, j.card)
            /\ UNCHANGED storeVars /\ Finish(w, "stopped")
         \/ /\ GrantIssueAllowed(drafts[Draft], j.revision, j.digest, j.card)
            /\ \E g \in issued : Carry(w, "preflight", [j EXCEPT !.grant = g])
            /\ UNCHANGED storeVars
         \/ \E g \in Grants : /\ IssueGrant(g, Draft, j.revision, j.digest, j.card)
                              /\ Carry(w, "preflight", [j EXCEPT !.grant = g])

-----------------------------------------------------------------------------
(* commit_action_node *)

\* The order is unchanged, was changed, or does not allow the operation (or cannot be read).
Preflight(w) ==
  /\ pc[w] = "preflight"
  /\ \/ /\ version = job[w].digest /\ open = {}
        /\ Goto(w, "reserve")
     \/ /\ version # job[w].digest /\ open = {}
        /\ Carry(w, "reconfirm", [job[w] EXCEPT !.digest = version])
     \/ Goto(w, "void")
  /\ UNCHANGED <<storeVars, serviceVars>>

\* Rejected: the Grant is revoked, the repository's Draft is left as it is.
Void(w) ==
  /\ pc[w] = "void"
  /\ Revoke(job[w].grant)
  /\ Finish(w, "failed")
  /\ UNCHANGED serviceVars

\* The command changed: its Grant is revoked and a new revision asks for a new approval.
Reconfirm(w) ==
  /\ pc[w] = "reconfirm"
  /\ Revoke(job[w].grant)
  /\ Goto(w, "represent")
  /\ UNCHANGED serviceVars

\* The card is persisted; the node then raises before it can show it.
Represent(w) ==
  /\ pc[w] = "represent"
  /\ \E k \in UnusedCards : TryCreate(CardRow(job[w].revision + 1, job[w].digest, k))
  /\ Finish(w, "stopped")
  /\ UNCHANGED serviceVars

\* Mutant: the command is sent although nothing could be reserved for it.
SendUnreserved(w) ==
  /\ pc[w] = "reserve"
  /\ \E a \in Attempts : Carry(w, "send", [job[w] EXCEPT !.attempt = a])
  /\ UNCHANGED <<storeVars, serviceVars>>

Reserve(w) ==
  LET j == job[w]
  IN  /\ pc[w] = "reserve"
      /\ UNCHANGED serviceVars
      /\ \/ \E a \in Attempts :
              /\ AttemptOf(a, Draft, j.digest)
              /\ Carry(w, "taken", [j EXCEPT !.attempt = a, !.result = attempts[a].state])
              /\ UNCHANGED storeVars
         \/ \E a \in Attempts :
              /\ ReserveGrantAndStartAttempt(j.grant, a, Draft, j.revision, j.digest)
              /\ Carry(w, "send", [j EXCEPT !.attempt = a])
         \/ /\ \/ RejectReservation(j.grant, Draft, j.revision, j.digest)
               \/ ExpireGrant(j.grant, Draft, j.revision, j.digest)
            /\ Finish(w, "unknown")
         \/ /\ ~KeyTaken(Draft, j.digest)
            /\ ~GrantMatchesRequest(grants[j.grant], Draft, j.revision, j.digest)
            /\ UNCHANGED storeVars
            /\ Finish(w, "unknown")

\* Mutant: the state of the Attempt is reported as the outcome of the Draft.
TakenAsStored(w) ==
  /\ pc[w] = "taken"
  /\ Goto(w, "advance")
  /\ UNCHANGED <<storeVars, serviceVars>>

\* The command has an Attempt already: never execute it again, report what is known of it.
Taken(w) ==
  LET j == job[w]
      receipt == receipts[j.attempt]
  IN  /\ pc[w] = "taken"
      /\ Carry(w, "advance", [j EXCEPT !.result =
           IF ~Exists(receipt) THEN "SUBMISSION_UNKNOWN"
           ELSE IF receipt.state = "SUCCESS" THEN "COMMITTED"
           ELSE IF j.result \in {"FAILED_RETRYABLE", "FAILED_FINAL"} THEN j.result
           ELSE "FAILED_FINAL"])
      /\ UNCHANGED <<storeVars, serviceVars>>

-----------------------------------------------------------------------------
(* The submission, the same in commit_action_node and reconcile_attempts *)

SendCommand(p) ==
  /\ pc[p] = "send"
  /\ \E i \in Calls : /\ Service!Send(i, job[p].digest)
                      /\ Carry(p, "wait", [job[p] EXCEPT !.call = i])
  /\ UNCHANGED <<storeVars, setting>>

\* Mutant: a conflict is taken for the answer to a repeated command.
ConflictIsSuccess(p) ==
  LET i == job[p].call
  IN  /\ pc[p] = "wait"
      /\ Service!Forget(i)
      /\ Carry(p, "record", [job[p] EXCEPT !.call = None, !.result = "COMMITTED"])
      /\ UNCHANGED <<storeVars, setting>>

\* classify_business_failure: 409, 423 and 429 are retryable, other refusals and errors final.
Receive(p) ==
  LET i == job[p].call
  IN  /\ pc[p] = "wait"
      /\ Service!Forget(i)
      /\ \E r \in IF call[i].state = "ok" THEN {"COMMITTED"}
                                         ELSE {"FAILED_RETRYABLE", "FAILED_FINAL"} :
           Carry(p, "record", [job[p] EXCEPT !.call = None, !.result = r])
      /\ UNCHANGED <<storeVars, setting>>

\* Mutant: a request that timed out is taken for a refused one.
TimeOutAsFailure(p) ==
  /\ pc[p] = "wait"
  /\ Carry(p, "record", [job[p] EXCEPT !.call = None, !.result = "FAILED_FINAL"])
  /\ UNCHANGED <<storeVars, serviceVars>>

\* No answer: the request may be executed already, later, or never.
TimeOut(p) ==
  /\ pc[p] = "wait"
  /\ Carry(p, "mark", [job[p] EXCEPT !.call = None, !.result = "SUBMISSION_UNKNOWN"])
  /\ UNCHANGED <<storeVars, serviceVars>>

Mark(p) ==
  /\ pc[p] = "mark"
  /\ TryTransition(job[p].attempt, "SUBMISSION_UNKNOWN", None)
  /\ Goto(p, "advance")
  /\ UNCHANGED serviceVars

\* record_receipt keeps a Receipt that is there and raises when the chain is broken.
Record(p) ==
  LET a == job[p].attempt
      s == IF job[p].result = "COMMITTED" THEN "SUCCESS" ELSE "FAILED"
  IN  /\ pc[p] = "record"
      /\ IF ReceiptBindingValid(attempts[a], grants[attempts[a].grant], Draft, s)
           THEN /\ \/ RecordReceipt(a, Draft, s, p)
                   \/ Exists(receipts[a]) /\ UNCHANGED storeVars
                /\ Carry(p, "advance", [job[p] EXCEPT !.handle = p])
           ELSE UNCHANGED storeVars /\ Finish(p, "stopped")
      /\ UNCHANGED serviceVars

\* A worker reports the revision and command of its offer, a reconciler neither.
Advance(p) ==
  LET j == job[p]
  IN  /\ pc[p] = "advance"
      /\ IF p \in Workers
           THEN TryAdvance(j.result, j.revision, j.digest, j.attempt, TRUE)
           ELSE TryAdvance(j.result, drafts[Draft].revision, drafts[Draft].digest, j.attempt, FALSE)
      /\ CASE j.handle # None                  -> Goto(p, "seal")
           [] j.result = "SUBMISSION_UNKNOWN"  -> Finish(p, "unknown")
           [] OTHER                            -> Goto(p, "settle")
      /\ UNCHANGED serviceVars

Seal(p) ==
  LET s == IF job[p].result = "COMMITTED" THEN "ACKED" ELSE job[p].result
  IN  /\ pc[p] = "seal"
      /\ TryTransition(job[p].attempt, s, job[p].handle)
      /\ Goto(p, "settle")
      /\ UNCHANGED serviceVars

\* Mutant: the Grant of a failed command stays usable.
SettleSuccessOnly(p) ==
  LET j == job[p]
  IN  /\ pc[p] = "settle"
      /\ IF j.result = "COMMITTED" THEN TryConsume(j.grant, j.attempt, j.handle)
                                   ELSE UNCHANGED storeVars
      /\ Finish(p, IF j.result = "COMMITTED" THEN "committed" ELSE "failed")
      /\ UNCHANGED serviceVars

Settle(p) ==
  LET j == job[p]
  IN  /\ pc[p] = "settle"
      /\ IF j.result = "COMMITTED" THEN TryConsume(j.grant, j.attempt, j.handle)
                                   ELSE Revoke(j.grant)
      /\ Finish(p, IF j.result = "COMMITTED" THEN "committed" ELSE "failed")
      /\ UNCHANGED serviceVars

-----------------------------------------------------------------------------
(* reconcile_attempts, for one listed Attempt.  Its envelope is never        *)
(* missing nor unverifiable: the reservation stored it with the Attempt.     *)

Listed(r, states) ==
  /\ pc[r] = "idle" /\ MayStart
  /\ \E a \in Attempts :
       /\ attempts[a].state \in states
       /\ Carry(r, "recover", [NoJob EXCEPT !.revision = attempts[a].revision,
            !.digest = attempts[a].digest, !.grant = attempts[a].grant, !.attempt = a])
  /\ UNCHANGED <<storeVars, serviceVars>>

\* Mutant: Attempts that are reported unknown are not listed.
PickStarted(r) == Listed(r, {"STARTED"})

Pick(r) == Listed(r, {"STARTED", "SUBMISSION_UNKNOWN"})

\* Where there is a Receipt, the Attempt alone is brought in line with it.
Recover(r) ==
  LET receipt == receipts[job[r].attempt]
      s == IF receipt.state = "SUCCESS" THEN "ACKED" ELSE "FAILED_FINAL"
  IN  /\ pc[r] = "recover"
      /\ IF Exists(receipt)
           THEN TryTransition(job[r].attempt, s, receipt.handle) /\ Finish(r, "idle")
           ELSE UNCHANGED storeVars /\ Goto(r, "send")
      /\ UNCHANGED serviceVars

-----------------------------------------------------------------------------
Crash(p) ==
  /\ setting.mayCrash
  /\ pc[p] \notin Resting
  /\ Finish(p, "stopped")
  /\ UNCHANGED <<storeVars, serviceVars>>

WaitingCalls == {job[p].call : p \in {q \in Procs : pc[q] = "wait"}}

\* The statements fail, the transaction is rolled back and the answer is an HTTP 500.
ServerError(i) == setting.serverErrors /\ Service!Lose(i)

Serve(i) ==
  /\ Service!Accept(i) \/ Service!Replay(i) \/ Service!Refuse(i) \/ ServerError(i)
  /\ UNCHANGED <<storeVars, setting, pc, job>>

(* PostgreSQL: executions of one command that overlap the accepted one are   *)
(* refused, by the policy or by the idempotency record's primary key.        *)
ServeOverlapping(i) ==
  LET c == call[i].cmd
      same == {j \in Calls \ {i} : call[j] = [state |-> "sent", cmd |-> c]}
  IN  /\ setting.database = "postgres"
      /\ call[i].state = "sent" /\ c \notin done /\ Service!Acceptable(c)
      /\ \E refused \in SUBSET same \ {{}} :
           call' = [k \in Calls |-> CASE k = i       -> [call[i] EXCEPT !.state = "ok"]
                                      [] k \in refused -> [call[k] EXCEPT !.state = "refused"]
                                      [] OTHER       -> call[k]]
      /\ done' = done \cup {c} /\ open' = {c}
      /\ UNCHANGED <<version, storeVars, setting, pc, job>>

Abandon(i) ==
  /\ i \notin WaitingCalls
  /\ Service!Forget(i)
  /\ UNCHANGED <<storeVars, setting, pc, job>>

Order ==
  /\ \/ Service!TouchOrder
     \/ Service!ApplyElsewhere
     \/ setting.applicationsClose /\ Service!CloseApplications
  /\ UNCHANGED <<storeVars, setting, pc, job>>

Submission(p) == SendCommand(p) \/ Mark(p) \/ Record(p) \/ Advance(p) \/ Seal(p) \/ Settle(p)

WorkerStep(w) ==
  \/ PersistAuthority(w) \/ Issue(w) \/ Preflight(w) \/ Void(w) \/ Reconfirm(w)
  \/ Represent(w) \/ Reserve(w) \/ Taken(w) \/ Submission(w)

ReconcilerStep(r) == Recover(r) \/ Submission(r)

ServiceStep(i) == Serve(i) \/ ServeOverlapping(i) \/ Abandon(i)

ProtocolNext ==
  \/ PresentCard
  \/ \E w \in Workers : Approve(w) \/ WorkerStep(w)
  \/ \E r \in Reconcilers : Pick(r) \/ ReconcilerStep(r)
  \/ \E p \in Procs : Receive(p) \/ TimeOut(p) \/ Crash(p)
  \/ \E i \in Calls : ServiceStep(i)
  \/ Order

ProtocolSpec == ProtocolInit /\ [][ProtocolNext]_protocolVars

(* A turn that does not die goes on; the service answers what it was sent;   *)
(* the conversation is opened again and again, each time reconciling first;  *)
(* reconcilers do not for ever die at the same point, nor does every one of  *)
(* their requests go unanswered.                                             *)
Fairness ==
  /\ \A w \in Workers : WF_protocolVars(WorkerStep(w) \/ Receive(w))
  /\ \A i \in Calls : WF_protocolVars(ServiceStep(i))
  /\ \A r \in Reconcilers :
       /\ SF_protocolVars(Pick(r))
       /\ WF_protocolVars(ReconcilerStep(r))
       /\ SF_protocolVars(SendCommand(r))
       /\ SF_protocolVars(Record(r))
       /\ SF_protocolVars(Advance(r))
       /\ SF_protocolVars(Seal(r))
       /\ SF_protocolVars(Recover(r))
       /\ SF_protocolVars(\E i \in Calls : job[r].call = i /\ Serve(i))
       /\ SF_protocolVars(Receive(r))

FairSpec == ProtocolSpec /\ Fairness

-----------------------------------------------------------------------------
(* Correctness *)

JobRow ==
  [revision : 0 .. MaxRevision, digest : Digests \cup {None}, card : Cards \cup {None},
   grant : Grants \cup {None}, attempt : Attempts \cup {None}, call : Calls \cup {None},
   result : ObservedStates \cup AttemptStates \cup {None}, handle : Procs \cup {None}]

Pcs == Resting \cup {"persist", "issue", "preflight", "void", "reconfirm", "represent",
                     "reserve", "taken", "send", "wait", "mark", "record", "advance",
                     "seal", "settle", "recover"}

ProtocolTypeOK ==
  /\ TypeOK
  /\ pc \in [Procs -> Pcs]
  /\ job \in [Procs -> JobRow]
  /\ \A p \in Procs : pc[p] \in {"record", "advance", "seal", "settle"} =>
                       job[p].result \in ObservedStates
  /\ \A p, q \in Procs : pc[p] = "wait" /\ pc[q] = "wait" /\ job[p].call = job[q].call => p = q

(* A SUCCESS Receipt, which the customer's order page is built from, is only *)
(* recorded for a command that took effect (record_transaction_receipt).     *)
SuccessReceiptIsReal ==
  \A a \in Attempts :
    Exists(receipts[a]) /\ receipts[a].state = "SUCCESS" => attempts[a].digest \in done

(* A FAILED Receipt is only recorded for a command that has no effect and    *)
(* will have none, whatever requests are still under way: a late one, or one *)
(* that is executed while the refused one is.                                *)
FailedReceiptIsReal ==
  \A a \in Attempts :
    Exists(receipts[a]) /\ receipts[a].state = "FAILED" => attempts[a].digest \notin done

(* What is guaranteed of Receipts: SUCCESS can be trusted; FAILED only on    *)
(* SQLite, while nobody closes the application that led to the refusal and   *)
(* the service answers with no internal error, which refuses nothing.        *)
FirmRefusals ==
  setting.database = "sqlite" /\ ~setting.applicationsClose /\ ~setting.serverErrors

ReceiptTellsTheEffect ==
  /\ SuccessReceiptIsReal
  /\ FirmRefusals => FailedReceiptIsReal

(* An effect is authorized: every command that took effect was sent for an   *)
(* Attempt of the Draft, under a Grant for exactly that command.             *)
EffectHasAttempt == \A c \in done : KeyTaken(Draft, c)

(* What the customer is told stays true: "committed" only for a command that *)
(* took effect, and, as long as the lease keeps turns apart, "failed" only   *)
(* for one that never does (commit_action_node).                             *)
ToldSuccess == \A w \in Workers : pc[w] = "committed" => job[w].digest \in done
ToldFailure == \A w \in Workers : pc[w] = "failed" => job[w].digest \notin done

ToldOutcome == ToldSuccess /\ (setting.leaseHolds => ToldFailure)

\* Reconciliation lists the Attempt, and the repository accepts what it will record.
CanBeClosed(a) ==
  /\ attempts[a].state \in {"STARTED", "SUBMISSION_UNKNOWN"}
  /\ IF Exists(receipts[a])
       THEN MayTransition(a, IF Succeeded(a) THEN "ACKED" ELSE "FAILED_FINAL",
                          receipts[a].handle)
       ELSE \A s \in ReceiptStates : MayRecord(a, Draft, s)

(* While the lease keeps turns apart no Attempt is stranded: whatever turns  *)
(* die and wherever, reconcile_attempts lists an Attempt that is not sealed, *)
(* and either outcome of it can be recorded, so that it never raises on one  *)
(* Attempt before it reaches the next (record_transaction_receipt).          *)
NoAttemptIsStranded == setting.leaseHolds =>
  \A a \in Attempts : Exists(attempts[a]) =>
    attempts[a].state \in SealedAttemptStates \/ CanBeClosed(a)

\* What was found out of an Attempt is in all four tables.
Settled(a) ==
  LET grant == grants[attempts[a].grant]
  IN  /\ attempts[a].state \in SealedAttemptStates
      /\ grant.state = IF Succeeded(a) THEN "CONSUMED" ELSE "REVOKED"
      /\ Succeeded(a) => drafts[Draft].state = "COMMITTED"

(* As long as the lease keeps turns apart and no turn dies half way, an      *)
(* outcome is recorded together: between two turns every Receipt's Attempt   *)
(* is sealed with it, its Grant ended and, after a success, the Draft        *)
(* COMMITTED; and what is left in flight or reserved belongs to an Attempt   *)
(* without Receipt, which reconciliation lists (_transaction_commit_update,  *)
(* whose calls are separate transactions).                                   *)
RecordedTogether ==
  /\ setting.leaseHolds /\ ~setting.mayCrash
  /\ \A p \in Procs : pc[p] \in Resting
  =>
  /\ \A a \in Attempts : Exists(receipts[a]) => Settled(a)
  /\ drafts[Draft].state \in InFlightStates =>
       drafts[Draft].attempt \in Attempts /\ Open(drafts[Draft].attempt)
  /\ \A g \in Grants : grants[g].state = "RESERVED" => Open(grants[g].attempt)

(* Reconciliation owns recovery: no Attempt stays unsealed, after any number *)
(* of crashes, lost answers and timeouts.                                    *)
EveryAttemptCloses ==
  []<>(\A a \in Attempts : Exists(attempts[a]) => attempts[a].state \in SealedAttemptStates)

(* A Draft in flight does not stay in flight: its row reaches an outcome.    *)
EveryDraftSettles ==
  (drafts[Draft].state \in InFlightStates) ~> (drafts[Draft].state \notin InFlightStates)

(* Lost answers alone leave nothing in flight: as long as no turn dies half  *)
(* way, a Draft reaches an outcome and a reserved Grant is consumed or       *)
(* revoked (_transaction_commit_update, reconcile_attempts).                 *)
LostAnswersSettle ==
  ~setting.mayCrash =>
    []<>(/\ drafts[Draft].state \notin InFlightStates
         /\ \A g \in Grants : grants[g].state # "RESERVED")

-----------------------------------------------------------------------------
(* The strengthening of the safety properties that is inductive *)

\* A command prepared for an order version that has been; each revision has its own.
Prepared(revision, digest) == revision \in 1 .. digest /\ digest \in 1 .. version

Approving  == {"persist", "issue", "preflight", "void", "reconfirm", "represent", "reserve"}
Submitting == {"taken", "send", "wait", "mark", "record", "advance", "seal", "settle", "recover"}

\* What a turn at s may have in hand.
JobFits(s, j) ==
  /\ s \in Pcs /\ j \in JobRow
  /\ s \in Approving \cup Submitting => Prepared(j.revision, j.digest)
  /\ s \in {"reconfirm", "represent"} => j.revision < j.digest
  /\ s \in Approving => j.card \in Cards
  /\ s \in (Approving \ {"persist", "issue"}) \cup Submitting => j.grant \in Grants
  /\ s \in Submitting => j.attempt \in Attempts /\ AttemptOf(j.attempt, Draft, j.digest)
  /\ s = "wait" => j.call \in Calls
  /\ s \in {"mark", "record", "advance", "seal", "settle"} =>
       j.result \in ObservedStates /\ (j.result = "COMMITTED" => j.digest \in done)
  /\ s = "committed" => j.digest \in done

JobsFit ==
  /\ pc \in [Procs -> Pcs] /\ job \in [Procs -> JobRow]
  /\ \A p \in Procs : JobFits(pc[p], job[p])

\* A turn that waits has a request of its own, for its command.
CallsAwaited ==
  \A p \in Procs : pc[p] = "wait" =>
    /\ call[job[p].call].state # "idle" /\ call[job[p].call].cmd = job[p].digest
    /\ \A q \in Procs : pc[q] = "wait" /\ job[p].call = job[q].call => p = q

\* Draft and Attempts hold prepared commands; a Draft that waits on a card has one.
RowsPrepared ==
  /\ Exists(drafts[Draft]) => Prepared(drafts[Draft].revision, drafts[Draft].digest)
  /\ drafts[Draft].state = "AWAITING_AUTHORIZATION" => drafts[Draft].card # None
  /\ \A a \in Attempts : Exists(attempts[a]) => Prepared(attempts[a].revision, attempts[a].digest)

\* Requests are sent for the commands of Attempts, and "ok" answers their effects.
RequestsAuthorized ==
  /\ version \in 1 .. MaxOrderVersion
  /\ call \in [Calls -> [state : {"idle", "sent", "ok", "refused", "lost"},
                         cmd : Digests \cup {None}]]
  /\ \A i \in Calls : call[i].state # "idle" => KeyTaken(Draft, call[i].cmd)
  /\ \A i \in Calls : call[i].state = "ok" => call[i].cmd \in done

ProtocolInv ==
  /\ IndInv
  /\ JobsFit
  /\ CallsAwaited
  /\ RowsPrepared
  /\ RequestsAuthorized
  /\ EffectHasAttempt
  /\ SuccessReceiptIsReal

(* A command refused for good: the order has moved past it, or has an open   *)
(* application that nobody closes.                                           *)
RefusedForGood(c) == c \notin done /\ (version # c \/ open # {})

RefusalsStand == FirmRefusals =>
  /\ \A i \in Calls : call[i].state \in {"refused", "lost"} => RefusedForGood(call[i].cmd)
  /\ \A p \in Procs : pc[p] = "record" /\ job[p].result # "COMMITTED" =>
                         RefusedForGood(job[p].digest)
  /\ \A a \in Attempts : Exists(receipts[a]) /\ receipts[a].state = "FAILED" =>
                            RefusedForGood(attempts[a].digest)

-----------------------------------------------------------------------------
(* Why a "failed" stays true while the lease keeps turns apart.  The worker  *)
(* of a command is alone with it: its Draft waits on one card, the card has  *)
(* one Grant, the Grant one Attempt, and nobody else asks for its effect.    *)

OneTurn == \A p, q \in Procs : pc[p] \notin Resting /\ pc[q] \notin Resting => p = q

\* A command has one Grant, issued for the Draft as it is or as it was.
OneGrantPerCommand ==
  /\ \A g \in Grants : Exists(grants[g]) =>
       Exists(drafts[Draft]) /\ grants[g].digest <= drafts[Draft].digest
  /\ \A g, h \in Grants :
       Exists(grants[g]) /\ Exists(grants[h]) /\ grants[g].digest = grants[h].digest => g = h

\* The command a card asks for was never submitted, nor approved with another card.
CardIsFresh ==
  drafts[Draft].state = "AWAITING_AUTHORIZATION" =>
    /\ ~KeyTaken(Draft, drafts[Draft].digest)
    /\ \A g \in Grants : Exists(grants[g]) /\ grants[g].digest = drafts[Draft].digest =>
         grants[g].revision = drafts[Draft].revision /\ grants[g].card = drafts[Draft].card

\* A worker at s has the Draft's row in hand, or the successor it prepared for it.
HoldsRow(s, j) ==
  /\ s \in Approving => /\ drafts[Draft].state = "AWAITING_AUTHORIZATION"
                        /\ drafts[Draft].card = j.card
  /\ s \in Approving \cup Submitting => drafts[Draft].revision = j.revision
  /\ s \in {"reconfirm", "represent"} => drafts[Draft].digest < j.digest
  /\ s \in (Approving \ {"reconfirm", "represent"}) \cup Submitting =>
       drafts[Draft].digest = j.digest
  /\ s \in {"preflight", "void", "reserve"} =>
       Exists(grants[j.grant]) /\ grants[j.grant].digest = j.digest

NoRequest(c) == \A i \in Calls : call[i].state = "idle" \/ call[i].cmd # c

\* Neither done nor asked for, and its Attempt has a Receipt: it is not sent again.
Refuted(c) ==
  /\ c \notin done /\ NoRequest(c)
  /\ \E a \in Attempts : AttemptOf(a, Draft, c) /\ Exists(receipts[a])

\* Never submitted, and the only Grant for it is spent.
Spoiled(c) ==
  /\ ~KeyTaken(Draft, c)
  /\ \E g \in Grants : Exists(grants[g]) /\ grants[g].digest = c /\ grants[g].state # "ISSUED"

\* The only request for a worker's command is its own.
RequestIsOwn(s, j) ==
  /\ s = "send" => j.digest \notin done /\ NoRequest(j.digest)
  /\ s = "wait" =>
       /\ call[j.call].state # "ok" => j.digest \notin done
       /\ \A i \in Calls : call[i].state # "idle" /\ call[i].cmd = j.digest => i = j.call

\* What a worker says of its command, on the way to the outcome it tells and then.
TellsRight(s, j) ==
  /\ s # "taken"
  /\ j.handle # None => s \in {"advance", "seal", "settle"}
  /\ s = "mark" => j.result = "SUBMISSION_UNKNOWN"
  /\ s = "record" /\ j.result # "COMMITTED" => j.digest \notin done /\ NoRequest(j.digest)
  /\ s = "advance" /\ j.handle = None => j.result = "SUBMISSION_UNKNOWN"
  /\ (s = "advance" /\ j.handle # None) \/ s \in {"seal", "settle"} =>
       j.result = "COMMITTED" \/ Refuted(j.digest)
  /\ s = "failed" => Refuted(j.digest) \/ Spoiled(j.digest)

WorkerIsRight(s, j) == HoldsRow(s, j) /\ RequestIsOwn(s, j) /\ TellsRight(s, j)

TurnsApart == setting.leaseHolds =>
  /\ OneTurn
  /\ OneGrantPerCommand
  /\ CardIsFresh
  /\ \A w \in Workers : WorkerIsRight(pc[w], job[w])
  /\ \A p \in Procs : pc[p] = "send" => ~Exists(receipts[job[p].attempt])

-----------------------------------------------------------------------------
(* Why no Attempt is stranded: only the turn that has recorded an Attempt's  *)
(* Receipt takes its Grant out of RESERVED, because every turn knows whose   *)
(* Grant it has in hand.                                                     *)

\* A turn has recorded its Attempt's Receipt when it says more of it than "unknown".
HasRecorded(s, j) ==
  /\ s \in Submitting
  /\ \/ s \in {"seal", "settle"}
     \/ j.handle # None
     \/ s \in {"mark", "advance"} /\ j.result # "SUBMISSION_UNKNOWN"

\* A turn's Grant is for its command, or for the one the order has moved past.
GrantFits(s, j) ==
  /\ s \in {"preflight", "void", "reserve"} \cup Submitting =>
       Exists(grants[j.grant]) /\ grants[j.grant].digest = j.digest
  /\ s = "reconfirm" =>
       Exists(grants[j.grant]) /\ grants[j.grant].digest = drafts[Draft].digest
  /\ HasRecorded(s, j) => Exists(receipts[j.attempt])

ReservationsStand ==
  \A a \in Attempts : Open(a) => grants[attempts[a].grant].state = "RESERVED"

AttemptsAreListed ==
  \A a \in Attempts : Exists(attempts[a]) =>
    /\ attempts[a].state # "RECONCILIATION_REQUIRED"
    /\ attempts[a].state \in {"STARTED", "SUBMISSION_UNKNOWN"} => attempts[a].handle = None

GrantsInHand == setting.leaseHolds =>
  /\ \A p \in Procs : GrantFits(pc[p], job[p])
  /\ ReservationsStand
  /\ AttemptsAreListed

-----------------------------------------------------------------------------
(* Why an outcome is recorded together while no turn dies: a turn does not   *)
(* rest before it has settled the Attempt whose Receipt it has recorded.     *)

ReceiptsSettledBut(a) == \A b \in Attempts \ {a} : Exists(receipts[b]) => Settled(b)

\* An open Attempt keeps its Draft in flight, and only it and a do.
FlightIsOpenBut(a) ==
  /\ \A b \in Attempts : Open(b) =>
       drafts[Draft].state \in InFlightStates /\ drafts[Draft].attempt = b
  /\ drafts[Draft].state \in InFlightStates =>
       \E b \in Attempts : drafts[Draft].attempt = b /\ (b = a \/ Open(b))

ReservedForAttempts ==
  \A g \in Grants : grants[g].state = "RESERVED" =>
    \E a \in Attempts :
      grants[g].attempt = a /\ Exists(attempts[a]) /\ attempts[a].grant = g

\* The four tables agree about every Attempt but a.
SettledBut(a) == ReceiptsSettledBut(a) /\ FlightIsOpenBut(a) /\ ReservedForAttempts

\* The turn at s has recorded its Attempt's Receipt and not settled it yet.
Recording(s, j) == s \in {"advance", "seal", "settle"} /\ j.handle # None

\* The Receipt a turn has recorded, and how far it has come with the other rows.
RecordingFits(s, j) ==
  LET a == j.attempt
  IN  /\ SettledBut(a)
      /\ j.result \in OutcomeStates
      /\ Exists(receipts[a]) /\ receipts[a].handle = j.handle
      /\ Succeeded(a) <=> j.result = "COMMITTED"
      /\ attempts[a].grant = j.grant /\ grants[j.grant].state = "RESERVED"
      /\ IF s = "advance"
           THEN /\ drafts[Draft].state \in InFlightStates /\ drafts[Draft].attempt = a
                /\ SameCommand(attempts[a], Command(drafts[Draft]))
           ELSE /\ drafts[Draft].state \notin InFlightStates
                /\ Succeeded(a) => drafts[Draft].state = "COMMITTED"
      /\ IF s = "settle"
           THEN attempts[a].state \in SealedAttemptStates /\ attempts[a].handle = j.handle
           ELSE attempts[a].state \notin SealedAttemptStates

\* A turn that has an Attempt in hand and no Receipt for it.
UnrecordedFits(s, j) ==
  /\ Open(j.attempt) /\ j.handle = None
  /\ s \in {"recover", "send", "wait", "mark", "record", "advance"}
  /\ s = "record" => j.result \in OutcomeStates
  /\ s \in {"mark", "advance"} => j.result = "SUBMISSION_UNKNOWN"

OutcomeFits(s, j) ==
  IF Recording(s, j) THEN RecordingFits(s, j) ELSE s \in Submitting => UnrecordedFits(s, j)

OutcomesTogether == setting.leaseHolds /\ ~setting.mayCrash =>
  /\ \A p \in Procs : OutcomeFits(pc[p], job[p])
  /\ SettledBut(None) \/ \E p \in Procs : Recording(pc[p], job[p])
=============================================================================
