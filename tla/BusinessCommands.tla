--------------------------- MODULE BusinessCommands ---------------------------
(***************************************************************************)
(* The Business Service executing idempotent commands on one paid order:   *)
(* applications (refund, after-sales), changes of the order (address,      *)
(* cancellation) and requests that an existing row answers (invoice,       *)
(* delivery urge), each inside _idempotent                                 *)
(* (services/business-service/business_service/application).  The          *)
(* statements of one database transaction are separate steps here, because *)
(* the two databases interleave them differently: SQLite opens every       *)
(* transaction with BEGIN IMMEDIATE and so runs one at a time; PostgreSQL  *)
(* runs them concurrently at its default level, READ COMMITTED, where each *)
(* statement sees what is committed when it starts.                        *)
(*                                                                         *)
(* A command stands for its idempotency key and its request body: the key  *)
(* is a hash of the command, so one key never comes with two bodies.       *)
(* Applications are of one kind (one table), invoices have one title.      *)
(***************************************************************************)
EXTENDS Naturals, FiniteSets

CONSTANTS
  Calls,             \* concurrent requests
  Commands,          \* idempotency keys
  KindOf,            \* what each command does
  ExpectedVersion,   \* expected_version of each command
  MaxOrderVersion,   \* bound on the order's version
  Databases,         \* what the service may run on: "sqlite", "postgres"
  None

Kinds    == {"apply", "change", "cancel", "invoice", "urge"}
Statuses == {"unshipped", "signed", "cancelled"}

Changes(c) == KindOf[c] \in {"change", "cancel"}
Reuses(c)  == KindOf[c] \in {"invoice", "urge"}

ASSUME CommandAssumption ==
  /\ KindOf \in [Commands -> Kinds]
  /\ ExpectedVersion \in [Commands -> Nat]
  /\ MaxOrderVersion \in Nat \ {0}
  /\ \A c \in Commands : Changes(c) => ExpectedVersion[c] < MaxOrderVersion
  /\ Databases \subseteq {"sqlite", "postgres"}
  /\ None \notin Commands \cup Calls

VARIABLES
  database,   \* fixed at the start
  version,    \* orders.version
  status,     \* orders.status
  rows,       \* rows[c]: rows that command c has inserted, or changes it has made
  open,       \* applications that are not closed, rejected or finished
  records,    \* idempotency_records
  call,       \* call[i]: the request and how far its transaction is
  writer      \* the transaction that holds SQLite's write lock

order  == <<version, status>>
tables == <<order, rows, open, records>>
vars   == <<database, tables, call, writer>>

\* The transaction runs: opened, order checked, existing row found, about to write.
InTransaction == {"begun", "current", "found", "checked"}
CallStates    == InTransaction \cup {"idle", "sent", "ok", "refused", "lost"}

TypeOK ==
  /\ database \in Databases
  /\ version \in 1 .. MaxOrderVersion
  /\ status \in Statuses
  /\ rows \in [Commands -> Nat]
  /\ open \subseteq Commands
  /\ records \subseteq Commands
  /\ call \in [Calls -> [state : CallStates, cmd : Commands \cup {None}]]
  /\ writer \in Calls \cup {None}

Idle == [state |-> "idle", cmd |-> None]

Init ==
  /\ database \in Databases
  /\ version = 1
  /\ status = "unshipped"
  /\ rows = [c \in Commands |-> 0]
  /\ open = {}
  /\ records = {}
  /\ call = [i \in Calls |-> Idle]
  /\ writer = None

-----------------------------------------------------------------------------
To(i, s) == call' = [call EXCEPT ![i].state = s]

\* COMMIT or ROLLBACK: the transaction ends and gives the write lock back.
EndTransaction(i) == writer' = IF writer = i THEN None ELSE writer

\* The transaction goes on, or its answer is an error and it is rolled back.
Continue(i, s) == To(i, s) /\ UNCHANGED <<database, tables, writer>>
Refuse(i)      == To(i, "refused") /\ EndTransaction(i) /\ UNCHANGED <<database, tables>>

Serialised    == database = "sqlite"
WriteLockFree == Serialised => writer = None

Send(i, c) ==
  /\ call[i].state = "idle"
  /\ call' = [call EXCEPT ![i] = [state |-> "sent", cmd |-> c]]
  /\ UNCHANGED <<database, tables, writer>>

\* Mutant: the transaction opens with a plain BEGIN.
BeginDeferred(i) ==
  /\ call[i].state = "sent"
  /\ Continue(i, IF call[i].cmd \in records THEN "ok" ELSE "begun")

\* Mutant: the idempotency record is not looked up.
BeginWithoutLookup(i) ==
  /\ call[i].state = "sent"
  /\ WriteLockFree
  /\ To(i, "begun")
  /\ writer' = IF Serialised THEN i ELSE None
  /\ UNCHANGED <<database, tables>>

\* Open the transaction and look the idempotency key up.
Begin(i) ==
  /\ call[i].state = "sent"
  /\ WriteLockFree
  /\ IF call[i].cmd \in records
       THEN To(i, "ok") /\ UNCHANGED writer
       ELSE To(i, "begun") /\ writer' = IF Serialised THEN i ELSE None
  /\ UNCHANGED <<database, tables>>

\* The states of the order in which a command is accepted.
EligibleStatuses ==
  [apply |-> {"signed"}, change |-> {"unshipped"}, cancel |-> {"unshipped"},
   urge |-> {"unshipped"}, invoice |-> {"unshipped", "signed"}]

\* One SELECT of the order: the version the command names, in a state that allows it.
CheckOrder(i) ==
  LET c == call[i].cmd
      eligible == version = ExpectedVersion[c] /\ status \in EligibleStatuses[KindOf[c]]
  IN  /\ call[i].state = "begun"
      /\ \/ eligible /\ Continue(i, IF Changes(c) THEN "checked" ELSE "current")
         \/ ~eligible /\ Refuse(i)

\* The policy of applications: one that is still open denies a second one.
CheckPolicy(i) ==
  /\ call[i].state = "current" /\ KindOf[call[i].cmd] = "apply"
  /\ \/ open = {} /\ Continue(i, "checked")
     \/ open # {} /\ Refuse(i)

\* Rows that answer a command of this kind: the invoice of the title, the delivery urge.
Existing(c) == {d \in Commands : KindOf[d] = KindOf[c] /\ rows[d] > 0}

\* create_invoice, urge_delivery: a row that exists is the answer.
LookUp(i) ==
  /\ call[i].state = "current" /\ Reuses(call[i].cmd)
  /\ Continue(i, IF Existing(call[i].cmd) = {} THEN "checked" ELSE "found")

\* Mutant: the address is updated by order_id alone.
WritableBlind(c) ==
  /\ KindOf[c] = "cancel" => status = "unshipped" /\ version = ExpectedVersion[c]
  /\ KindOf[c] = "invoice" => Existing(c) = {}

\* Mutant: an order may have two invoices of one title.
WritableNotUnique(c) ==
  /\ Changes(c) => version = ExpectedVersion[c]
  /\ KindOf[c] = "cancel" => status = "unshipped"

(* What the statement that writes asks for: the UPDATEs of the order compare *)
(* its version (cancel_order its status too), and (order_id, invoice_title)  *)
(* is unique.                                                                *)
Writable(c) ==
  /\ Changes(c) => version = ExpectedVersion[c]
  /\ KindOf[c] = "cancel" => status = "unshipped"
  /\ KindOf[c] = "invoice" => Existing(c) = {}

\* Mutant: the record is not written with the effect.
WriteWithoutRecord(i) ==
  LET c == call[i].cmd
  IN  /\ call[i].state = "checked" /\ Writable(c)
      /\ rows' = [rows EXCEPT ![c] = @ + 1]
      /\ open' = IF KindOf[c] = "apply" THEN open \cup {c} ELSE open
      /\ To(i, "ok") /\ EndTransaction(i)
      /\ UNCHANGED <<database, order, records>>

(* Write the effect and the idempotency record, and commit.  The record's    *)
(* primary key refuses a second one: the whole transaction rolls back and    *)
(* the caller gets an error.                                                 *)
Write(i) ==
  LET c == call[i].cmd
  IN  /\ call[i].state = "checked" /\ c \notin records /\ Writable(c)
      /\ rows' = [rows EXCEPT ![c] = @ + 1]
      /\ open' = IF KindOf[c] = "apply" THEN open \cup {c} ELSE open
      /\ version' = IF Changes(c) THEN version + 1 ELSE version
      /\ status' = IF KindOf[c] = "cancel" THEN "cancelled" ELSE status
      /\ records' = records \cup {c}
      /\ To(i, "ok") /\ EndTransaction(i)
      /\ UNCHANGED database

\* The row that was found is recorded as the answer.
WriteAnswer(i) ==
  /\ call[i].state = "found" /\ call[i].cmd \notin records
  /\ records' = records \cup {call[i].cmd}
  /\ To(i, "ok") /\ EndTransaction(i)
  /\ UNCHANGED <<database, order, rows, open>>

WriteRefused(i) ==
  LET c == call[i].cmd
  IN  /\ \/ call[i].state = "checked" /\ (c \in records \/ ~Writable(c))
         \/ call[i].state = "found" /\ c \in records
      /\ Refuse(i)

\* The connection or the process dies: rollback.
Abort(i) ==
  /\ call[i].state \in InTransaction
  /\ To(i, "lost") /\ EndTransaction(i)
  /\ UNCHANGED <<database, tables>>

\* Mutant: the connection is given back without its request.
ForgetStateOnly(i) ==
  /\ call[i].state \in {"ok", "refused", "lost"}
  /\ call' = [call EXCEPT ![i] = [state |-> "idle"]]
  /\ UNCHANGED <<database, tables, writer>>

\* The caller goes on, having seen the answer or not; it may send again.
Forget(i) ==
  /\ call[i].state \in {"ok", "refused", "lost"}
  /\ call' = [call EXCEPT ![i] = Idle]
  /\ UNCHANGED <<database, tables, writer>>

\* Whoever else writes orders, the merchant's delivery for one, raises the version.
TouchOrder ==
  /\ WriteLockFree
  /\ version < MaxOrderVersion
  /\ version' = version + 1
  /\ status' \in IF status = "unshipped" THEN {"unshipped", "signed"} ELSE {status}
  /\ UNCHANGED <<database, rows, open, records, call, writer>>

\* Staff or the owner finish or reject an application; the order's version stays.
CloseApplication(c) ==
  /\ WriteLockFree
  /\ c \in open
  /\ open' = open \ {c}
  /\ UNCHANGED <<database, order, rows, records, call, writer>>

Transaction(i) ==
  \/ Begin(i) \/ CheckOrder(i) \/ CheckPolicy(i) \/ LookUp(i)
  \/ Write(i) \/ WriteAnswer(i) \/ WriteRefused(i) \/ Abort(i)

Next ==
  \/ \E i \in Calls : Transaction(i) \/ Forget(i) \/ \E c \in Commands : Send(i, c)
  \/ TouchOrder
  \/ \E c \in Commands : CloseApplication(c)

Spec == Init /\ [][Next]_vars

-----------------------------------------------------------------------------
(* Correctness *)

(* A command has its effect once at most, whatever is retried or runs        *)
(* concurrently; it leaves a record exactly when it had it, or when there    *)
(* was a row to answer it (_idempotent).                                     *)
AppliedOnce ==
  \A c \in Commands :
    /\ rows[c] <= 1 /\ (rows[c] = 1 => c \in records)
    /\ c \in records => rows[c] = 1 \/ (Reuses(c) /\ Existing(c) # {})

(* No lost update: two changes that were prepared for one version of the     *)
(* order are never both made, on either database (the UPDATEs of             *)
(* change_address and cancel_order).                                         *)
VersionsAreSpentOnce ==
  \A c, d \in records :
    Changes(c) /\ Changes(d) /\ ExpectedVersion[c] = ExpectedVersion[d] => c = d

OneOfKind(kind) ==
  \A c, d \in Commands :
    KindOf[c] = kind /\ KindOf[d] = kind /\ rows[c] > 0 /\ rows[d] > 0 => c = d

(* An order has one invoice of a title, on either database, although the     *)
(* look-up and the insert are two statements (create_invoice).               *)
OneInvoice == OneOfKind("invoice")

(* The policy of refund_decision: an order has one open application at most, *)
(* although the check and the insert are two statements.                     *)
OneOpenApplication == Cardinality(open) <= 1

(* On SQLite what was checked still holds when it is acted on: one open      *)
(* application and one delivery urge.                                        *)
ChecksHold == Serialised => OneOpenApplication /\ OneOfKind("urge")

(* A caller that is refused may conclude that its command has no effect, on  *)
(* SQLite: the Agent records a FAILED Receipt on that ground.                *)
RefusalMeansNoEffect ==
  [][Serialised =>
       \A i \in Calls :
         call[i].state # "refused" /\ call'[i].state = "refused"
           => call[i].cmd \notin records']_vars

\* While its transaction runs, a request is, to the caller, just sent.
VisibleCall ==
  [i \in Calls |-> IF call[i].state \in InTransaction
                     THEN [call[i] EXCEPT !.state = "sent"] ELSE call[i]]

Service == INSTANCE CommandService WITH done <- records, call <- VisibleCall

(* On SQLite the statements of a transaction are one step to the caller: the *)
(* service implements CommandService.                                        *)
ImplementsCommandService ==
  /\ Service!Init
  /\ [][Serialised => Service!Next \/ UNCHANGED Service!vars]_vars
=============================================================================
