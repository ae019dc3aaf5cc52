# A formal model of the transaction path

The repository is a customer-service Agent: a language model proposes, the customer approves a card, and the
Agent then changes an order through an independent Business Service.  The models here are about the part where a
mistake is expensive and cannot be seen from one process: how an approved command reaches the Business Service
once, how what the Agent stores and tells the customer stays in agreement with what happened there, and how the
turns of a conversation and the workers of the document queue are kept apart, when they overlap, die, retry and
lose answers.

Paths are relative to `src/`; `agent_core/` is short for `services/agent-service/src/agent_core/`,
`app/` for `services/agent-service/app/`, `business_service/` for `services/business-service/business_service/`.

## 1. Inventory of the system

| part | state it keeps | operations | talks to |
|---|---|---|---|
| transaction repository, `agent_core/persistence/action_lifecycle_store.py`, with its policy `storage/transaction_policy.py`, `operations/draft.py` | tables `transaction_drafts`, `_grants`, `_attempts`, `_receipts` | `create_draft`, `advance_draft`, `issue_grant`, `reserve_grant_and_start_attempt`, `consume_grant`, `revoke_grant`, `record_receipt`, `transition_attempt` | called by every turn and reconciler |
| PostgreSQL repository, `agent_core/persistence/sqlalchemy_provider.py` | the same tables on PostgreSQL | the same operations, read first and written afterwards | the same callers |
| commit and reconciliation, `agent_core/transaction/{coordinator,commit_runtime,reconciliation,failure}.py` | none of its own: the graph's state dictionary, saved at checkpoints | approval, preflight, reservation, submission, classification of the answer, recording; recovery of listed Attempts | repository, Business Service |
| authority card and interaction, `agent_core/transaction/gateway_runtime.py`, `app/use_cases/interaction_submit.py` | the card in the Draft's projection | present a card, validate an approval | repository, commit |
| conversation lease and fencing, `app/services/turn_lock.py`, `agent_core/runtime/turn_fencing.py`, the two lock stores | `action_locks`, `action_lock_tokens`, checkpoints | acquire, renew in a thread, validate, release; fenced checkpoint writes | wraps every turn |
| Business Service commands, `business_service/application/{core_service,applications,order_operations}.py` | orders, applications, invoices, urges, `idempotency_records` | `_idempotent` around applications, invoices, address change, cancellation, delivery urge | called over HTTP by the Agent and by others |
| Business Service resource commands, `resource_commands.py`, `domain.py` | the same tables | staff and owners move an application through its states | - |
| document indexing queue, `agent_core/rag/index_jobs.py`, `app/services/document_service.py` | `document_index_jobs` | enqueue, claim, heartbeat, complete, fail, recover expired claims | retrieval provider |
| lifecycle, goal graph, planning, capability gate (`agent_core/{lifecycle,goal_graph,kernel,runtime}`) | the graph's state dictionary | functions from dictionary to dictionary | model gateway, tools |
| artifact ledger, context, presentation, frontend | projections | rendering and reference resolution | - |
| model calls, retrieval, identity, release and governance tooling (`skill-system`, `governance`, `scripts`) | files, external services | - | - |

### What is hard, and what must hold

*Transaction repository.*  Its operations are atomic on SQLite, but its callers are not: any turn may call any of
them with a row it read long ago, and a Draft may collect several cards, Grants and revisions.  It must never have
two submissions of one Draft whose outcome is unknown, never submit after a success, never contradict a Receipt,
and never reopen what is sealed.  On PostgreSQL its calls are not atomic either: they read at READ COMMITTED,
decide, and write by primary key.  What must survive there is the evidence: a Grant is spent once, a command is
submitted once, Receipts stay.

*Commit and reconciliation.*  One approval is seven or more calls to two services.  A process can die between any
two, a request can time out and be executed later, a reconciler works on what another turn left, and, if a lease
expires, beside it.  Receipts must agree with the effect, nothing may take effect without an authorized Attempt,
a customer must not be told something that turns out false, and every Attempt must get an outcome.

*Lease and fencing.*  A lease expires under a live turn; the turn notices at its next check, possibly after its
successor has read the conversation.  A deposed turn must not write over its successor's checkpoints, must not be
reported as successful if it did, and must not end its successor's lease; every turn must end.

*Business Service.*  A command is a key lookup, checks and inserts in one database transaction; whether they are
one step depends on the database.  A repeated command must be applied once, an update must not be lost, an order
must have one open application and one invoice of a title, and a refusal must mean that there was no effect,
because the Agent records it as a failure.

*Document queue.*  A worker claims several jobs and renews one lease at a time, so claims expire while it still
means to work on them.  A running claim must be ended by its own worker, a job must be ready only when its document
is indexed, tried a bounded number of times, and end.

`PROJECT.json` lists every hazard at the line where it bites and names the properties that look for it.

## 2. Modules

    TransactionPolicy         the pure decisions over rows
      TransactionStore        the repository on SQLite: one action per operation, arbitrary callers
        TransactionStore_proofs
        PostgresStore         the same calls on PostgreSQL, reads and writes as separate steps
          PostgresStore_proofs
        CommitProtocol        turns, reconcilers and the Business Service around the repository
          CommitProtocol_proofs
            CommitLease_proofs      what holds besides while the lease keeps turns apart
              CommitRecovery_proofs   what recovery finds under the lease, and how outcomes are recorded
    SubmissionLedger          what TransactionStore implements
    CommandService            what a caller of the Business Service may rely on: atomic idempotent commands
    BusinessCommands          the same commands statement by statement; implements CommandService on SQLite
      BusinessCommands_proofs
    ConversationLease         the lease, its tokens, the turns and their checkpoint writes
      ConversationLease_proofs
    TurnRegister              what the lease implements on PostgreSQL: turns that follow one another
    DocumentJobs              the indexing queue and its workers
      DocumentJobs_proofs
    JobContract               what the queue implements

`MCTransactionStore`, `MCPostgresStore`, `MCCommitProtocol`, `MCBusinessCommands` and `MCConversationLease` hold
the values and symmetries of the instances.  A component that behaves differently on its two databases has the
database as a variable that is fixed at the start (`database`, `backend`, `setting`), so that one run covers both
and a property can say which one it is about.

**TransactionPolicy** follows `draft.py` and `transaction_policy.py` decision by decision
(`draft_persistence_update_decision` is `DraftUpdateAllowed`, and so on).  A row is a record; a missing row has
state `"NONE"`, an empty reference is `None`.  Tenant, user and thread are one scope which every caller derives
from the Draft, so scope comparisons appear as comparisons of the Draft.  The authority's and the form's revision
and `updated_turn` are one `turn`.

**TransactionStore** has the four tables as variables.  The SQLite repository runs each operation under one
process-wide lock in one transaction, so an operation is one action; a call that the policy refuses changes
nothing and is a stuttering step, except where the code changes something on refusal (`RejectReservation` revokes
the Grant, `ExpireGrant` marks it).  `Next` lets any caller call anything, with any row, restricted only to the
target states the code's callers pass and to pointers at rows of the same Draft.  What holds here holds for every
caller.  Two peculiarities of the code are kept because properties depend on them: `advance_draft` checks the
Receipt under the Attempt the row named *before* the call and then stores the Attempt the caller named, and the
idempotency key binds Draft and command digest but not revision, Grant or card (`KeyTaken`).

**PostgresStore** takes the policy's guards from TransactionStore and splits each call: `ReadFor...` evaluates the
guard and stores in `pending` the statements that will be executed; `Write...` executes them on whatever the rows
are by then, with the conditions the SQL itself has: the state of the Grant in its UPDATE, the unique keys of
Attempts and Receipts.  `RollBack` is every statement that fails and every connection that dies.  `revoke_grant` is
one guarded UPDATE and remains one step.  `GivenRows` is the set of rows callers pass to `create_draft`.

**CommitProtocol** runs one Draft.  A turn has a program counter, `pc`, and what it has in hand, `job`; each
repository or business call is one step, and the calls of `TransactionStore` are used as they are.  `TryCreate`,
`TryTransition`, `TryConsume` and `TryAdvance` are calls whose refusal the caller does not notice.

| code | steps |
|---|---|
| `validate_action_authority`, `issue_grant_for_authority` | `Approve`, `PersistAuthority`, `Issue` |
| `commit_action_node`, preflight | `Preflight`, then `Void` (rejected) or `Reconfirm`, `Represent` (the command changed) |
| `commit_action_node`, reservation | `Reserve`; `Taken` when the command already has an Attempt |
| `_execute_business_command_envelope` | `SendCommand`, `Receive` or `TimeOut`, `Mark` |
| `_transaction_commit_update` | `Record`, `Advance`, `Seal`, `Settle`: Receipt, Draft, Attempt, Grant |
| `reconcile_attempts` | `Pick` (the listing), `Recover`, then the same submission steps |
| process death | `Crash`, between any two steps |

A digest stands for the command prepared for one version of the order, because `expected_version` is the part of
the command that a preflight changes.  The command is an application for a signed order.  `Represent` ends the
turn: after persisting the new card the node calls `interaction_response_contract`, a name `commit_runtime.py`
does not import, and raises.

The circumstances of a behaviour are a record, `setting`, fixed at the start: `database` (of the Business
Service), `leaseHolds` (turns never overlap), `mayCrash`, `applicationsClose` (staff may close an
application, which lets a refused command succeed later), and `serverErrors` (the Business Service may roll a command
back and answer with an HTTP 500, which `classify_business_failure` takes for a final failure: `ServerError`).  A turn that lost its lease is stopped at its next
checkpoint write, not at a repository or business call, so without `leaseHolds` turns overlap anywhere.
CommitProtocol takes the lease's promise as this flag; ConversationLease is the code behind it, and its theorem
`TurnsAreSeparate` says when the flag is justified: as long as no turn is still at work when its lease has run out.
CommitProtocol uses the SQLite repository with either database of the Business Service; the PostgreSQL repository is
modelled on its own.

**CommandService** is the Business Service as a caller sees it: `Accept`, `Replay`, `Refuse` or `Lose`, each one
step.  **BusinessCommands** is the code behind it: `Begin` (open the transaction, look the key up), `CheckOrder`
(version and status from one SELECT), `CheckPolicy` (applications) or `LookUp` (invoice, urge), `Write` or
`WriteAnswer` with the record, or `WriteRefused`.  A command is of one kind:

| kind | code | accepted when | its write asks again for |
|---|---|---|---|
| `apply` | `_create_order_application` | the order is signed, no application is open | - |
| `change` | `change_address` | unshipped | the version |
| `cancel` | `cancel_order` | unshipped | version and status |
| `invoice` | `create_invoice` | not cancelled; an invoice of the title is the answer | uniqueness of the title |
| `urge` | `urge_delivery` | unshipped; a waiting urge is the answer | - |

SQLite opens every transaction with `BEGIN IMMEDIATE` (`Serialised`, `writer`); on PostgreSQL the statements of
concurrent transactions interleave as READ COMMITTED lets them.  The primary key of `idempotency_records` refuses a
second record and the transaction that tried rolls back.  CommitProtocol adds `ServeOverlapping` for PostgreSQL:
executions of a command that overlap the accepted one are refused.  Shipping and delivery happen outside of `src/`;
`TouchOrder` assumes that whoever does it raises the order's version, as every writer of orders in `src/` does.

**ConversationLease** follows one conversation: `_serialized_turn` with its local lock (`Enter`, `GiveUpWaiting`),
the acquisition on SQLite (one transaction) and on PostgreSQL (`DeleteExpired`, `TakeToken`, `InsertLease`: the
token comes from a sequence outside the transaction), the renewal thread (`Renew`, `RenewalFails`), the turn
(`Read`, then checkpoint writes), and the release.  `BeginWrite` is the check before a write; on SQLite
`PlainWrite` follows unguarded and `FinishWrite` checks again, on PostgreSQL `Guard` locks the valid lease's row and
`GuardedWrite` writes in the same transaction.  Any statement can fail: of the acquisition (`AcquireFails`: the turn
ends as if the conversation were busy), of the turn (`Raise`), or of the release (`CloseFails`).  The last one leaves
the `finally` clause before `local_lock.release()`, so the local lock is held until the process ends (`LockLeaked`);
it is an RLock, which still lets in the thread that holds it, so a later turn either waits in vain or enters.  A lease's
`expires_at` is computed just before the transaction that stores it; a delay in between is a `Tick` right after
`InsertLease`.  `written` is the sequence of checkpoints; each remembers what its turn
had read and whether the turn still owned the lease, which no code stores and only properties read.  Time is the
number of units a lease has left.

**DocumentJobs** follows `process_pending_jobs`: recover, claim up to `Limit` jobs (which recovers once more),
then one job after the other with a heartbeat for that one only.  PostgreSQL recovers in one locked transaction
(`Recover`); SQLite selects first and updates afterwards, asking for the state only (`FindExpired`, `ResetFound`).
A claim's token is unique, and so is the attempt counter among the claims of one job, which stands for it.

## 3. Runs

| run | instance | shows |
|---|---|---|
| `store` | 1 Draft, 2 commands, 2 cards, 2 Grants, 2 Attempts, 2 handles, 2 revisions | all safety properties of the repository, the inductive invariant (`TypeOK` and `AttemptSpendsItsGrant` are parts of it), that outcomes are final, and the refinement of `SubmissionLedger` |
| `postgres_evidence` | 2 connections; 1 Draft, 1 command and revision, 2 cards, Grants and Attempts | with reads and writes interleaved: a Grant is spent once and on its command, a command is submitted once, consumed Grants rest on Receipts, evidence stays |
| `commit_overlap` | 2 approving workers, 1 reconciler, 2 requests under way; on each database without the lease, and with the lease, applications that close and internal errors of the service; crashes in all; the last also without crashes | Receipts tell the effect, every effect has its authorized Attempt, what the customer was told stays true; under the lease no Attempt is stranded, and without crashes every outcome is recorded in all four tables between two turns |
| `commit_recovery` | the same turns, 1 request under way, lease, fairness; with crashes, or with applications that close and internal errors | every Attempt is sealed in the end; without crashes no Draft stays in flight and no Grant reserved |
| `business` | 3 requests, 8 commands on one order, both databases | applied once, no lost update, one invoice of a title; on SQLite also: checks hold, refusal means no effect, refinement of `CommandService` |
| `lease` | 3 turns of 2 processes, both databases, leases of 1 unit, 1 write after the first read, 1 turn whose release may fail, fairness | fencing, success owns its writes, the lease separates turns, tokens grow, leases end by their turn, every turn ends, refinement of `TurnRegister` |
| `document_jobs` | 2 jobs, 2 workers, 2 attempts, batches of 2, leases of 2 units, 1 crash, both databases, fairness | no stuck job, running claims end by their worker, every job ends, refinement of `JobContract` |
| `business_postgres_policy` | violation | two commands open two applications on PostgreSQL |
| `crash_after_receipt` | violation | a Draft that stays COMMITTING |
| `postgres_receipt` | violation | a FAILED Receipt for an executed command |
| `revoked_in_flight` | violation | an Attempt that can never be closed |
| `postgres_overlap` | violation | two open Attempts of one Draft on PostgreSQL |

### The bounds and why they are enough

- *One Draft, one order, one conversation.*  Rows of different Drafts never meet: every operation names one Draft,
  and the keys bind it.  The same is true of orders and of conversations.  The theorems of section 5 about the
  repositories hold for any number of Drafts.
- *Two of everything that competes.*  Two commands of one Draft, two cards, Grants, Attempts and handles, two
  revisions: enough for a second approval of the same card, a second card for the same command, a new revision
  after a refused one, a late or repeated Receipt.  `MaxVersion` and `MaxTurn` only bound the projection's
  freshness counters; 1 and 0 keep their two-valued test (present or not).
- *Two workers and a reconciler, two requests.*  A worker and a reconciler suffice for all recovery
  interleavings, the second worker for double approval; the second request is the one that timed out and is
  still under way.  `revoked_in_flight` takes one of everything: its counterexample needs no more.
- *Liveness runs* use one request under way and no symmetry.  Closing of abandoned requests keeps the one slot
  from blocking for ever.
- *Eight commands, three requests.*  Every pair of kinds that competes is there: address change against
  cancellation for one version, two invoices of a title, two urges, two applications, and a `TouchOrder` between.
  A third request is the retry of one of the two.  `MaxOrderVersion = 2` lets the version be spent once.
- *Three turns, two of one process* meet in the local lock and in the durable one; a third turn is what can take the
  lease over while a second one waits inside its acquisition.  A lease of one unit has both its states, valid and
  expired; longer ones only add time steps between.  One turn's release may fail (`Unreleased`), the one that shares
  its process: the lock that it leaks is met by the other turn of that process, and its lease by all.
- *Two jobs, two workers, two attempts*: one job waits while its worker is busy with the other, expires, and is
  claimed by the second worker with its last attempt.
- *Two connections and one command* for `postgres_evidence`: a lost update needs two transactions.  The second
  command and revision that `postgres_overlap` needs make the space too large for an exhaustive run, and section 5
  proves the same properties without these bounds.

`CHECK_DEADLOCK FALSE` is set for `store`, the commit runs, the PostgreSQL runs and `lease`: when all bounded rows
are used, or all turns have ended and nothing is left to do, the system may stop.  `business` and
`document_jobs` check deadlock.

### Fairness, and why the code justifies it

`FairSpec` of CommitProtocol (`commit_recovery`, `crash_after_receipt`, `revoked_in_flight`):

- *Weak fairness of a worker's and a reconciler's next step*: a turn is one synchronous function; if it is not
  killed it goes on.
- *Weak fairness of a request*: the Business Service answers what it received, or the request is gone.
- *Strong fairness of `Pick`*: `_reconcile_pending_transaction_attempts` runs at the start of every turn of the
  conversation; the assumption is that the customer comes back again and again.
- *Strong fairness of a reconciler's individual steps and of a served and received answer*: a pass may die or go
  unanswered any number of times, but not for ever at the same point.  Without it recovery is plainly impossible.

`FairSpec` of ConversationLease: weak fairness of a turn's own steps, for the same reason.  Nothing is assumed of the
renewal thread or of time, so `EveryTurnEnds` holds also when no lease ever expires.
`FairSpec` of DocumentJobs: weak fairness of a worker's steps (`process_pending_jobs` is called again and again) and
of time, that is, leases that are not renewed run out and retry delays end.

Nothing is assumed of crashes, timeouts, the order, staff or the customer.  The counterexamples of
`crash_after_receipt` and `revoked_in_flight` satisfy all of this fairness: retrying does not help.

## 4. Where the code and its own words disagree

Each is a `violation` run and a finding in `PROJECT.json`.

1. `crash_after_receipt`.  `commit_runtime.py:434-435` says draft state, attempt and receipt are recorded
   together; they are separate transactions.  After a crash between `record_receipt` and `advance_draft`, the
   reconciler finds the Receipt and only seals the Attempt (`reconciliation.py:42`).  The Attempt is then no longer
   listed, so the Draft stays COMMITTING and its Grant RESERVED.  A death is what it takes: while turns are kept
   apart and none dies half way, the docstring is right (`RecordedTogether`, proved).
2. `business_postgres_policy`.  The open-application check and the insert are two statements without a lock;
   only SQLite's `BEGIN IMMEDIATE` makes them one.
3. `postgres_receipt`.  The reconciler's repetition of a request that is still executing is refused on
   PostgreSQL, and the refusal becomes a FAILED Receipt of a command that took effect.
4. `revoked_in_flight`.  Two overlapping turns hold the same Grant; a rejected preflight of one revokes it while
   the other's command is under way, and `validate_receipt_binding` then refuses every Receipt of that Attempt.
5. `postgres_overlap`.  `draft.py:172-173` says SQLite and SQLAlchemy cannot develop competing lifecycle semantics.
   The SQLAlchemy repository decides on rows it read at READ COMMITTED and updates the Draft by its id alone: two
   reservations, of an old and of a new revision, overlap and leave two open Attempts.

Observations that are not findings, because nothing in the repository says otherwise:

- A request that timed out may be executed after a repetition of it was refused and a FAILED Receipt recorded, once
  the application that blocked both is closed.  `ReceiptTellsTheEffect` therefore speaks of FAILED Receipts only
  while no application closes (`FirmRefusals`).  The same can happen when the repetition is answered with an
  internal error, which refuses nothing but is recorded as a final failure (`failure.py:31`).  Under the lease no customer is told wrongly even so, because
  the turn that timed out said "unknown" (`ToldOutcome`, checked with
  `applicationsClose` and `serverErrors`, and proved on both databases).
- On SQLite `recover_expired` (`index_jobs.py:160`) may reset a job that was recovered and claimed again since its
  SELECT; if that was the last attempt the job waits for ever.  `NoJobIsStuck`, `ClaimEndsByItsWorker` and
  `EveryJobEnds` are therefore stated for PostgreSQL; `JobContract` holds on both.
- On PostgreSQL the fencing token is taken before the lease (`sqlalchemy_provider.py:572`), so tokens are different
  but need not grow with every change of hands.  Checkpoint writes compare a token for equality under a row lock, which is
  why `CheckpointsBuildOnTheLast` holds nevertheless; `TokensGrow` is stated for SQLite.
- The SQLite repository's operations are one step because of the process-wide lock; only the reservation uses
  `BEGIN IMMEDIATE`.  Two processes on one file are outside of the model, and outside of the configuration the
  code allows for production.
- `urge_delivery` has no unique index behind its look-up: two urges are possible on PostgreSQL (`ChecksHold` speaks of
  SQLite only).  Invoices are protected by theirs on both (`OneInvoice`).
- `create_invoice` answers with an existing invoice of the title whatever its state, one that staff rejected too.
- `change_address` compares the order's version but not its status in the UPDATE.  `VersionsAreSpentOnce` shows that the
  version is enough among the service's own commands, which all raise it.

## 5. What is proved

TLAPS proves the following for every value of the constants, that is, for any number of turns, requests, workers,
rows and versions.

**`TransactionStore_proofs`**, assuming `NoneAssumption` (`None` is none of the identifiers) and `BoundAssumption`
(the bounds are naturals):

| theorem | says |
|---|---|
| `Invariance`, `TypeCorrect` | the inductive invariant `IndInv`, and with it `TypeOK`, always hold |
| `OneOpenAttempt` | at most one Attempt of a Draft is open |
| `SuccessIsLast` | no Attempt is started for a Draft after a success |
| `CommittedRestsOnReceipt`, `ConsumedGrantsCloseChains`, `AttemptsSpendTheirGrants` | COMMITTED has its SUCCESS Receipt, CONSUMED its closed chain, every Attempt its Grant |
| `OutcomesStayFinal` | no step reopens a sealed Draft revision, Attempt or Grant |
| `Refinement` | the repository implements `SubmissionLedger` |

The argument.  `AtMostOneOpenAttempt` is not inductive: nothing in it says why a reservation cannot happen while
an Attempt is open.  The reason is the Draft: an Attempt that is *unrefuted* (no Receipt, or a SUCCESS one) keeps
its Draft's row in flight or sealed, on the very revision and command of the Attempt
(`UnrefutedAttemptHoldsDraft`), and a Grant can only be issued or reserved on a row that waits for authorization.
That fact survives `create_draft` because an in-flight row rejects a new revision, and survives `advance_draft`
only because a failure needs the FAILED Receipt of the same command; this needs that one Draft and command have
one Attempt (`UniqueKeys`) and that a Receipt belongs to an Attempt of the same outcome
(`ReceiptsCloseAttempts`).  Two open Attempts of a Draft would then both have the row's command, so they are one.

**`PostgresStore_proofs`**, assuming also `RowsAssumption` (`GivenRows` are rows): `PgInvariance`, `PgTypeCorrect`,
`GrantsAreSpentOnce`, `CommandsAreSubmittedOnce`, `ConsumedGrantsRestOnReceipts`, `EvidenceIsKept`.  The invariant
`PgInv` adds to the properties what an open transaction may still rely on when it writes (`StillTrue`): the existence
of a row, the command of a Grant, a Receipt.  These never change, by any step; that the Draft's state is
not among them is what `postgres_overlap` shows.

**`CommitProtocol_proofs`**, assuming also `ProtocolAssumption` (one Draft; digests are order versions; the
repository's bounds leave room for them):

| theorem | says |
|---|---|
| `ProtocolInvariance`, `ProtocolTypeCorrect` | the invariant `ProtocolInv`, and with it `ProtocolTypeOK` |
| `ProtocolUsesStore`, `ProtocolKeepsOneOpen` | `ProtocolSpec => Spec`: every step of a turn is a step or a stutter of the repository, so all its theorems hold here |
| `ProtocolImplementsLedger` | so workers and reconcilers together implement `SubmissionLedger`: a corollary of that and of `Refinement` |
| `ProtocolUsesService` | on SQLite every step is a step of `CommandService` or leaves the service alone; `CommandService` is what `BusinessCommands` is proved to implement there |
| `EffectsAreAuthorized` | every effect has its Attempt and Grant, with or without the lease |
| `SuccessReceiptsAreReal`, `ToldSuccessIsTrue` | a SUCCESS Receipt, and a customer told "committed", mean an effect; on both databases |
| `ReceiptsTellTheEffect` | where refusals are firm, a FAILED Receipt means no effect, ever |

`ProtocolInv` says for each place of a turn what it has in hand (`JobsFit`): an Attempt of its command once it
submits, a result COMMITTED only for a command that is done.  Requests are only ever for the commands of Attempts
(`RequestsAuthorized`), rows hold only commands prepared for versions that have been (`RowsPrepared`).  For FAILED Receipts
there is a second invariant, `RefusalsStand`: a command that was refused on SQLite is *refused for good*, because the
order has moved past its version and never returns, or has an application that, by assumption, nobody closes.  This
stays true of the answer under way, of the turn that is about to record it, and of the Receipt.

**`CommitLease_proofs`** proves what more is true while `leaseHolds`, on both databases, with applications that
close and with internal errors of the service.  It needs of `ProtocolAssumption` that a turn is a worker or a reconciler and not both.

| theorem | says |
|---|---|
| `LeaseKeepsTurnsApart` | the invariant `TurnsApart` |
| `ToldOutcomeIsTrue` | a customer told "committed" or "failed" is told the truth, for ever |

"Failed" is the difficult half: a request that the turn gave up may be executed afterwards.  `TurnsApart` says why
none is left.  One turn runs at a time (`OneTurn`).  A command has at most one Grant (`OneGrantPerCommand`), and the
command that a Draft waits on was never submitted (`CardIsFresh`), so the worker that submits it is alone with it:
the only request for it is its own (`RequestIsOwn`).  A worker ends in "failed" in one of two ways.  Either the preflight
revoked the command's only Grant before it was submitted (`Spoiled`: it never will be), or the one request was
refused and its Receipt recorded (`Refuted`: nobody asks again, because a reconciler that finds a Receipt does not
send).  A worker whose request timed out says "unknown".

**`CommitRecovery_proofs`** proves that under the lease recovery always finds something that it can finish, and that
an outcome is recorded as a whole unless a turn dies.

| theorem | says |
|---|---|
| `ReservationsOutliveTurns` | the invariant `GrantsInHand` |
| `AttemptsCanBeClosed` | every unsealed Attempt is listed by `reconcile_attempts`, and its Receipt or its sealing is accepted, wherever turns died |
| `OutcomesAreSettled` | the invariant `OutcomesTogether` |
| `OutcomesAreRecordedTogether` | without deaths, between two turns every Receipt's Attempt is sealed, its Grant ended and, after a success, its Draft COMMITTED; what is in flight or reserved belongs to an Attempt without Receipt |

A Receipt is refused when the Attempt's Grant is no longer RESERVED; that is how `revoked_in_flight` strands an
Attempt.  `GrantsInHand` says why it cannot happen under the lease: every turn holds the Grant of its own command
(`GrantFits`), a Grant that is revoked in the preflight has no Attempt, and a turn that consumes or revokes a Grant at
the end has the Receipt already (`HasRecorded`).  `EveryAttemptCloses` is the temporal counterpart that TLC checks.

`RecordedTogether` speaks of the moments between turns and so is not inductive.  `OutcomesTogether` says what is true
during a turn: the tables agree about every Attempt but the one whose Receipt the running turn has recorded and not
yet settled (`SettledBut`), and for that one how far the turn has come (`RecordingFits`).  The policy checks each of
the four calls, so a turn that got one of them refused would rest with the tables in disagreement;
`OutcomeIsAccepted` and the lemmas on `Advance`, `Seal` and `Settle` show that the rows as the earlier calls left them
satisfy every check that is still to come.

`Revoke` and the `Try...` calls state the guard of the call they repeat or ignore (`MayCreate`, `MayTransition`,
`MayConsume`, `MayAdvance`) and not `ENABLED`, which is out of the prover's reach; the proofs take both of their cases.

**`BusinessCommands_proofs`**, assuming `CommandAssumption` (kinds and versions are assigned to commands; the bound leaves
room for the changes):

| theorem | says |
|---|---|
| `BusinessInvariance`, `BusinessTypeCorrect` | the invariant `IInv` and `TypeOK`, on both databases |
| `CommandsApplyOnce` | on both databases a command has its effect once at most, and its record rests on a row |
| `NoLostUpdate`, `InvoicesAreUnique` | on both databases two changes for one version are never both made; a title has one invoice |
| `ChecksAreActedOn` | on SQLite one open application and one urge |
| `RefusedWithoutEffect` | on SQLite a refused command has no effect |
| `ServiceRefinement` | on SQLite `BusinessCommands` implements `CommandService` |

For both databases the argument needs only what the writing statements ask for: the record's primary key, the version in the
UPDATEs (`Spent`: a change that was made has raised the version past its own), the unique index.  For SQLite the
invariant is the lock: the request whose transaction runs holds it, and what it has looked up and checked is still true,
because everything that could change it needs the lock (`LockInv`).

**`ConversationLease_proofs`**, assuming `LeaseAssumption`: `Invariance`, `TypeCorrect`, `Fencing`,
`SuccessOwnsItsWrites`, `TokensOrderTurns`, `LeaseKept`, `TurnsAreSeparate`, `RegisterRefined`.  `TurnsAreSeparate`
links the modules: while every turn that is at work still has its lease, at most one is, which is what CommitProtocol
takes as `leaseHolds`.  The invariant: row locks exclude each
other and are held on the lease they were taken for (`LockInv`); while a turn owns the lease on PostgreSQL nobody else
adds a checkpoint after its read (`TailInv`); a turn that lost the lease never owns it again (`OwnedInv`).

**`DocumentJobs_proofs`**, assuming `JobAssumption`: `TypeCorrect`, `QueuedJobsCanBeClaimed`, `ClaimKept`,
`ContractRefined`.  The invariant: no two workers hold the same attempt of a job (`ClaimInv`), a job found FAILED
has spent its attempts (`RowInv`), and a worker completes what it has ingested (`IndexInv`).

## 6. What is only model-checked

- Liveness: `EveryAttemptCloses`, `LostAnswersSettle`, `EveryTurnEnds`, `EveryJobEnds`.  Temporal properties under
  fairness are outside of the prover.
  Their safety halves are proved: `AttemptsCanBeClosed`, `OutcomesAreRecordedTogether`, `QueuedJobsCanBeClaimed`.
- The five violations.

## 7. What is not modelled, and why

- *`start_attempt`* of both repositories has no caller left; the outbox, idempotency and action-run stores in the
  same files have no caller on this path.  The branch `draft_update_rejected` of the reservation and the two
  branches of `reconcile_attempts` for a missing or unverifiable envelope cannot be reached: the reservation checks the
  first itself and stores the envelope with the Attempt.
- *A lost answer to COMMIT.*  A failing transaction of the Business Service has no effect in the models.  If the
  connection to PostgreSQL breaks while COMMIT is answered, the effect is there, the answer is an HTTP 500 and the Agent
  records a failure.  What PostgreSQL did is outside of `src/`; the hazard is listed without a property.
- *Refusals before the command* (authentication, HTTP 401 and 403): identity is left out, and they look to the Agent
  like any other refusal.
- *`advance_draft` without an Attempt* is called by tests only; `AdvanceDraft` names one, as every caller in the
  program does.
- *Several Drafts in one reconciliation.*  `reconcile_attempts` raises on the first Attempt whose Receipt cannot be
  recorded and does not reach the ones after it; CommitProtocol lets a reconciler pick any Attempt.
- *CommitProtocol on the PostgreSQL repository.*  The two are modelled one by one; their product is too large for
  TLC, and what the repository guarantees to its callers there is what `PostgresStore_proofs` states.
- *Business Service*: complaints and human handoffs (one insert, no check), compensation and evidence
  applications, transitions of a resource other than its closing, previews and queries.
- *Rejected cards, input forms and interrupts*: they change a Draft only before a card is approved.
- *Lifecycle, goal graph, planning, capability gate*: functions from a model's answer and a state dictionary to a new
  dictionary, run by one thread.  What is hard in them is the content of large dictionaries, which a finite instance would
  not show.
- *Artifact ledger, context, presentation, frontend*: projections that never carry authority.
- *Model calls, retrieval, identity*: adapters around external services.  *`skill-system`, `governance`, `release`,
  `scripts`*: development tooling that shares no state with the customer's path.
