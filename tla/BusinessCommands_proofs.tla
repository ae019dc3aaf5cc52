------------------------ MODULE BusinessCommands_proofs ------------------------
(***************************************************************************)
(* Proofs about BusinessCommands.  On both databases a command has its     *)
(* effect at most once, an order's version is spent once and a title has   *)
(* one invoice.  On SQLite the transactions also act on what they have     *)
(* checked, refuse only commands without effect, and implement the atomic  *)
(* CommandService.                                                         *)
(***************************************************************************)
EXTENDS BusinessCommands, FiniteSetTheorems, TLAPS

\* What a transaction has checked, on SQLite, stays true until it writes.
Checked(i) ==
  LET c == call[i].cmd
  IN  /\ c \notin records
      /\ call[i].state \in {"current", "found", "checked"} =>
           version = ExpectedVersion[c] /\ status \in EligibleStatuses[KindOf[c]]
      /\ call[i].state = "checked" /\ KindOf[c] = "apply" => open = {}
      /\ call[i].state = "checked" /\ Reuses(c) => Existing(c) = {}

LockInv ==
  Serialised =>
    /\ writer \in Calls => call[writer].state \in InTransaction
    /\ \A i \in Calls : call[i].state \in InTransaction => writer = i /\ Checked(i)

CallsInv ==
  \A i \in Calls :
    /\ IF call[i].state = "idle" THEN call[i].cmd = None ELSE call[i].cmd \in Commands
    /\ call[i].state = "found" => Reuses(call[i].cmd) /\ Existing(call[i].cmd) # {}

\* A change that was made has raised the version past the one it was prepared for.
Spent == \A c \in records : Changes(c) => ExpectedVersion[c] < version

OneOpen == Serialised => (\A c, d \in open : c = d) /\ OneOfKind("urge")

IInv ==
  /\ TypeOK /\ CallsInv /\ AppliedOnce
  /\ Spent /\ VersionsAreSpentOnce /\ OneInvoice
  /\ LockInv /\ OneOpen

-----------------------------------------------------------------------------
(* Nothing takes a row away, so what answers a command once answers it always. *)
LEMMA RowsStay ==
  ASSUME TypeOK, [Next]_vars
  PROVE  \A c \in Commands : rows'[c] >= rows[c]
<1>1. ASSUME NEW i \in Calls, Write(i) PROVE \A c \in Commands : rows'[c] >= rows[c]
  BY <1>1 DEF Write, TypeOK
<1>2. CASE UNCHANGED rows
  BY <1>2 DEF TypeOK
<1> QED BY <1>1, <1>2 DEF Next, Transaction, vars, tables, Send, Begin, CheckOrder, CheckPolicy,
             LookUp, WriteAnswer, WriteRefused, Abort, Forget, TouchOrder, CloseApplication,
             Continue, Refuse

LEMMA ExistingStays ==
  ASSUME TypeOK, [Next]_vars, NEW c \in Commands, Existing(c) # {}
  PROVE  (Existing(c))' # {}
<1>1. PICK d \in Commands : KindOf[d] = KindOf[c] /\ rows[d] > 0
  BY DEF Existing
<1>2. rows[d] \in Nat /\ rows'[d] >= rows[d] /\ rows' \in [Commands -> Nat]
  <2>1. rows' \in [Commands -> Nat]
    BY DEF TypeOK, Next, Transaction, vars, tables, Send, Begin, CheckOrder, CheckPolicy, LookUp,
           Write, WriteAnswer, WriteRefused, Abort, Forget, TouchOrder, CloseApplication,
           Continue, Refuse
  <2> QED BY <2>1, RowsStay DEF TypeOK
<1> QED BY <1>1, <1>2 DEF Existing

(* The tables and the requests keep their shape (init_db, the service's routes). *)
LEMMA TypeInvariant ==
  ASSUME TypeOK, CallsInv, [Next]_vars
  PROVE  TypeOK'
<1> USE CommandAssumption DEF TypeOK, CallStates, InTransaction, tables, order
<1>1. ASSUME NEW i \in Calls, NEW c \in Commands, Send(i, c) PROVE TypeOK'
  BY <1>1 DEF Send
<1>2. ASSUME NEW i \in Calls, Begin(i) PROVE TypeOK'
  BY <1>2 DEF Begin, To, WriteLockFree
<1>3. ASSUME NEW i \in Calls, CheckOrder(i) \/ CheckPolicy(i) \/ LookUp(i) PROVE TypeOK'
  <2>1. CASE CheckOrder(i)
    BY <2>1 DEF CheckOrder, Continue, Refuse, To, EndTransaction
  <2>2. CASE CheckPolicy(i)
    BY <2>2 DEF CheckPolicy, Continue, Refuse, To, EndTransaction
  <2>3. CASE LookUp(i)
    BY <2>3 DEF LookUp, Continue, To
  <2> QED BY <1>3, <2>1, <2>2, <2>3
<1>4. ASSUME NEW i \in Calls, Write(i) PROVE TypeOK'
  <2>1. call[i].cmd \in Commands
    BY <1>4 DEF Write, CallsInv
  <2>2. version' \in 1 .. MaxOrderVersion /\ status' \in Statuses
    BY <1>4, <2>1 DEF Write, Writable, Changes, Statuses
  <2>3. rows' \in [Commands -> Nat] /\ open' \subseteq Commands /\ records' \subseteq Commands
    BY <1>4, <2>1 DEF Write
  <2>4. call' \in [Calls -> [state : CallStates, cmd : Commands \cup {None}]]
        /\ writer' \in Calls \cup {None} /\ database' = database
    BY <1>4 DEF Write, To, EndTransaction
  <2> QED BY <2>2, <2>3, <2>4
<1>5. ASSUME NEW i \in Calls, WriteAnswer(i) \/ WriteRefused(i) PROVE TypeOK'
  <2>1. CASE WriteAnswer(i)
    BY <2>1 DEF WriteAnswer, CallsInv, To, EndTransaction
  <2>2. CASE WriteRefused(i)
    BY <2>2 DEF WriteRefused, Refuse, To, EndTransaction
  <2> QED BY <1>5, <2>1, <2>2
<1>6. ASSUME NEW i \in Calls, Abort(i) \/ Forget(i) PROVE TypeOK'
  <2>1. CASE Abort(i)
    BY <2>1 DEF Abort, To, EndTransaction
  <2>2. CASE Forget(i)
    BY <2>2 DEF Forget, Idle
  <2> QED BY <1>6, <2>1, <2>2
<1>7. ASSUME TouchOrder PROVE TypeOK'
  BY <1>7 DEF TouchOrder, Statuses
<1>8. ASSUME NEW c \in Commands, CloseApplication(c) PROVE TypeOK'
  BY <1>8 DEF CloseApplication
<1>9. CASE UNCHANGED vars
  BY <1>9 DEF vars
<1> QED BY <1>1, <1>2, <1>3, <1>4, <1>5, <1>6, <1>7, <1>8, <1>9 DEF Next, Transaction

(* A request carries a command until it is forgotten; a row that was found stays. *)
LEMMA CallsStep ==
  ASSUME TypeOK, CallsInv, [Next]_vars
  PROVE  CallsInv'
<1> SUFFICES ASSUME NEW j \in Calls
             PROVE  /\ IF call'[j].state = "idle" THEN call'[j].cmd = None
                                                  ELSE call'[j].cmd \in Commands
                    /\ call'[j].state = "found" =>
                         Reuses(call'[j].cmd) /\ (Existing(call[j].cmd))' # {}
  BY DEF CallsInv, Existing
<1>1. CASE call'[j] = call[j]
  BY <1>1, ExistingStays DEF CallsInv, Existing
<1>2. ASSUME NEW c \in Commands, Send(j, c)
      PROVE  call'[j].state = "sent" /\ call'[j].cmd = c
  BY <1>2 DEF Send, TypeOK
<1>3. ASSUME LookUp(j)
      PROVE  /\ call'[j].cmd = call[j].cmd /\ call[j].state # "idle"
             /\ call'[j].state \in {"found", "checked"}
             /\ call'[j].state = "found" => Reuses(call[j].cmd) /\ Existing(call[j].cmd) # {}
  BY <1>3 DEF LookUp, Continue, To, TypeOK
<1>4. ASSUME Transaction(j), ~LookUp(j)
      PROVE  /\ call'[j].cmd = call[j].cmd /\ call[j].state # "idle"
             /\ call'[j].state \notin {"idle", "found"}
  BY <1>4 DEF Transaction, Begin, CheckOrder, CheckPolicy, Write, WriteAnswer, WriteRefused,
              Abort, Continue, Refuse, To, TypeOK, InTransaction
<1>5. ASSUME Forget(j) PROVE call'[j] = Idle
  BY <1>5 DEF Forget, TypeOK
<1>6. CASE \E c \in Commands : Send(j, c)
  BY <1>2, <1>6
<1>7. CASE LookUp(j)
  BY <1>3, <1>7, ExistingStays DEF CallsInv, Existing
<1>8. CASE Transaction(j) /\ ~LookUp(j)
  BY <1>4, <1>8 DEF CallsInv
<1>9. CASE Forget(j)
  BY <1>5, <1>9 DEF Idle
<1>10. \/ call'[j] = call[j] \/ Transaction(j) \/ Forget(j) \/ \E c \in Commands : Send(j, c)
  <2>1. ASSUME NEW i \in Calls, i # j, Transaction(i) \/ Forget(i) \/ \E c \in Commands : Send(i, c)
        PROVE  call'[j] = call[j]
    BY <2>1 DEF Transaction, Begin, CheckOrder, CheckPolicy, LookUp, Write, WriteAnswer,
                WriteRefused, Abort, Forget, Send, Continue, Refuse, To, TypeOK
  <2>2. ASSUME TouchOrder \/ (\E c \in Commands : CloseApplication(c)) \/ UNCHANGED vars
        PROVE  call'[j] = call[j]
    BY <2>2 DEF TouchOrder, CloseApplication, vars
  <2> QED BY <2>1, <2>2 DEF Next
<1> QED BY <1>1, <1>6, <1>7, <1>8, <1>9, <1>10

-----------------------------------------------------------------------------
(* What holds on both databases *)

\* A step that writes nothing changes neither rows, nor records, nor the order.
LEMMA OnlyWritersWrite ==
  ASSUME [Next]_vars,
         ~\E i \in Calls : Write(i) \/ WriteAnswer(i),
         ~TouchOrder
  PROVE  UNCHANGED <<rows, records, version, status>>
  BY DEF Next, Transaction, vars, tables, order, Send, Begin, CheckOrder, CheckPolicy, LookUp,
         WriteRefused, Abort, Forget, CloseApplication, Continue, Refuse

(* The record's primary key alone keeps a command to one effect, whatever    *)
(* transactions run concurrently (_idempotent).                              *)
LEMMA AppliedOnceStep ==
  ASSUME TypeOK, CallsInv, AppliedOnce, [Next]_vars
  PROVE  AppliedOnce'
<1>1. ASSUME NEW i \in Calls, Write(i) PROVE AppliedOnce'
  <2>1. call[i].cmd \in Commands /\ call[i].cmd \notin records
    BY <1>1 DEF Write, CallsInv
  <2>2. rows[call[i].cmd] = 0
    <3>1. rows[call[i].cmd] \in Nat /\ rows[call[i].cmd] <= 1 /\ rows[call[i].cmd] # 1
      BY <2>1 DEF TypeOK, AppliedOnce
    <3> QED BY <3>1
  <2>3. rows' = [rows EXCEPT ![call[i].cmd] = 1] /\ records' = records \cup {call[i].cmd}
    BY <1>1, <2>2 DEF Write
  <2>4. ASSUME NEW c \in Commands, c \in records, Existing(c) # {} PROVE (Existing(c))' # {}
    BY <2>4, ExistingStays
  <2> QED BY <2>1, <2>2, <2>3, <2>4 DEF AppliedOnce, TypeOK
<1>2. ASSUME NEW i \in Calls, WriteAnswer(i) PROVE AppliedOnce'
  <2>1. call[i].cmd \in Commands /\ Reuses(call[i].cmd) /\ Existing(call[i].cmd) # {}
    BY <1>2 DEF WriteAnswer, CallsInv
  <2> QED BY <1>2, <2>1 DEF WriteAnswer, AppliedOnce, Existing
<1>3. ASSUME UNCHANGED <<rows, records>> PROVE AppliedOnce'
  BY <1>3 DEF AppliedOnce, Existing
<1>4. CASE TouchOrder
  BY <1>3, <1>4 DEF TouchOrder
<1> QED BY <1>1, <1>2, <1>3, <1>4, OnlyWritersWrite

(* The UPDATEs of the order compare its version: no lost update.             *)
LEMMA SpentStep ==
  ASSUME TypeOK, CallsInv, Spent, VersionsAreSpentOnce, [Next]_vars
  PROVE  Spent' /\ VersionsAreSpentOnce'
<1> USE CommandAssumption DEF TypeOK
<1>1. ASSUME NEW i \in Calls, Write(i) PROVE Spent' /\ VersionsAreSpentOnce'
  <2> DEFINE c == call[i].cmd
  <2>1. c \in Commands /\ records' = records \cup {c}
    BY <1>1 DEF Write, CallsInv
  <2>2. CASE Changes(c)
    <3>1. version = ExpectedVersion[c] /\ version' = version + 1
      BY <1>1, <2>2 DEF Write, Writable
    <3>2. \A d \in records : Changes(d) => ExpectedVersion[d] < ExpectedVersion[c]
      BY <3>1 DEF Spent
    <3>3. \A d \in records : ExpectedVersion[d] \in Nat
      OBVIOUS
    <3>4. Spent'
      BY <2>1, <3>1, <3>2, <3>3 DEF Spent
    <3>5. VersionsAreSpentOnce'
      BY <2>1, <3>2, <3>3 DEF VersionsAreSpentOnce
    <3> QED BY <3>4, <3>5
  <2>3. CASE ~Changes(c)
    <3>1. version' = version
      BY <1>1, <2>3 DEF Write
    <3> QED BY <2>1, <2>3, <3>1 DEF Spent, VersionsAreSpentOnce
  <2> QED BY <2>2, <2>3
<1>2. ASSUME NEW i \in Calls, WriteAnswer(i) PROVE Spent' /\ VersionsAreSpentOnce'
  <2>1. ~Changes(call[i].cmd) /\ records' = records \cup {call[i].cmd} /\ version' = version
    BY <1>2 DEF WriteAnswer, CallsInv, Changes, Reuses, order
  <2> QED BY <2>1 DEF Spent, VersionsAreSpentOnce
<1>3. CASE TouchOrder
  <2>1. \A d \in records : ExpectedVersion[d] \in Nat
    OBVIOUS
  <2> QED BY <1>3, <2>1 DEF TouchOrder, Spent, VersionsAreSpentOnce
<1>4. ASSUME UNCHANGED <<records, version>> PROVE Spent' /\ VersionsAreSpentOnce'
  BY <1>4 DEF Spent, VersionsAreSpentOnce
<1> QED BY <1>1, <1>2, <1>3, <1>4, OnlyWritersWrite

\* A command of the kind is the first to insert a row.
LEMMA FirstOfKind ==
  ASSUME TypeOK, NEW kind, OneOfKind(kind), NEW i \in Calls, call[i].cmd \in Commands, Write(i),
         KindOf[call[i].cmd] = kind => Existing(call[i].cmd) = {}
  PROVE  OneOfKind(kind)'
<1>1. rows' = [rows EXCEPT ![call[i].cmd] = @ + 1]
  BY DEF Write
<1>2. ASSUME KindOf[call[i].cmd] = kind
      PROVE  \A d \in Commands : KindOf[d] = kind => ~(rows[d] > 0)
  BY <1>2 DEF Existing
<1> QED BY <1>1, <1>2 DEF OneOfKind, TypeOK

(* (order_id, invoice_title) is unique.                                      *)
LEMMA OneInvoiceStep ==
  ASSUME TypeOK, CallsInv, OneInvoice, [Next]_vars
  PROVE  OneInvoice'
<1>1. ASSUME NEW i \in Calls, Write(i) PROVE OneInvoice'
  <2>1. call[i].cmd \in Commands
    BY <1>1 DEF Write, CallsInv
  <2>2. KindOf[call[i].cmd] = "invoice" => Existing(call[i].cmd) = {}
    BY <1>1 DEF Write, Writable
  <2> QED BY <1>1, <2>1, <2>2, FirstOfKind DEF OneInvoice
<1>2. ASSUME UNCHANGED rows PROVE OneInvoice'
  BY <1>2 DEF OneInvoice, OneOfKind
<1>3. CASE TouchOrder \/ \E i \in Calls : WriteAnswer(i)
  BY <1>2, <1>3 DEF TouchOrder, WriteAnswer
<1> QED BY <1>1, <1>2, <1>3, OnlyWritersWrite

-----------------------------------------------------------------------------
(* BEGIN IMMEDIATE: nothing changes between the checks of a transaction and  *)
(* its write.                                                                *)

\* A transaction that ends gives the lock back, and the tables are its own.
LEMMA EndKeepsLock ==
  ASSUME TypeOK, Serialised, LockInv, Serialised', NEW i \in Calls,
         call[i].state \in InTransaction, NEW s \in CallStates \ InTransaction,
         To(i, s), EndTransaction(i)
  PROVE  LockInv'
<1>1. writer = i /\ writer' = None
  BY DEF LockInv, EndTransaction
<1>2. \A j \in Calls : call'[j].state \notin InTransaction
  BY <1>1 DEF LockInv, To, TypeOK
<1> QED BY <1>1, <1>2, CommandAssumption DEF LockInv

\* A transaction that goes on has checked what its new state says.
LEMMA ContinueKeepsLock ==
  ASSUME TypeOK, Serialised, LockInv, NEW i \in Calls, call[i].state \in InTransaction,
         NEW s \in InTransaction, Continue(i, s),
         s \in {"current", "found", "checked"} =>
           /\ version = ExpectedVersion[call[i].cmd]
           /\ status \in EligibleStatuses[KindOf[call[i].cmd]],
         s = "checked" /\ KindOf[call[i].cmd] = "apply" => open = {},
         s = "checked" /\ Reuses(call[i].cmd) => Existing(call[i].cmd) = {}
  PROVE  LockInv'
<1>1. writer' = i /\ \A j \in Calls : call[j].state \in InTransaction => j = i
  BY DEF LockInv, Continue
<1>2. call' = [call EXCEPT ![i].state = s] /\ UNCHANGED <<version, status, open, records, rows>>
  BY DEF Continue, To, tables, order
<1>3. call'[i].state = s /\ call'[i].cmd = call[i].cmd
      /\ \A j \in Calls \ {i} : call'[j] = call[j]
  BY <1>2 DEF TypeOK
<1>4. call[i].cmd \notin records
  BY DEF LockInv, Checked
<1>5. Checked(i)'
  BY <1>2, <1>3, <1>4 DEF Checked, Existing
<1>6. \A j \in Calls : call'[j].state \in InTransaction => j = i
  BY <1>1, <1>3
<1> QED BY <1>1, <1>3, <1>5, <1>6 DEF LockInv

LEMMA LockStep ==
  ASSUME TypeOK, CallsInv, LockInv, [Next]_vars
  PROVE  LockInv'
<1>0. database' = database
  BY DEF Next, Transaction, vars, Send, Begin, CheckOrder, CheckPolicy, LookUp, Write,
         WriteAnswer, WriteRefused, Abort, Forget, TouchOrder, CloseApplication, Continue, Refuse
<1> SUFFICES ASSUME Serialised PROVE LockInv'
  BY <1>0 DEF LockInv, Serialised
<1>a. Serialised'
  BY <1>0 DEF Serialised
<1>1. ASSUME NEW i \in Calls, (\E c \in Commands : Send(i, c)) \/ Forget(i) PROVE LockInv'
  <2>1. call[i].state \notin InTransaction /\ call'[i].state \notin InTransaction
        /\ \A j \in Calls \ {i} : call'[j] = call[j]
    BY <1>1 DEF Send, Forget, InTransaction, TypeOK, Idle
  <2>2. UNCHANGED <<database, version, status, rows, open, records, writer>>
    BY <1>1 DEF Send, Forget, tables, order
  <2>3. \A j \in Calls : call'[j].state \in InTransaction => Checked(j)'
    BY <2>1, <2>2 DEF LockInv, Checked, Existing
  <2> QED BY <2>1, <2>2, <2>3 DEF LockInv
<1>2. ASSUME NEW i \in Calls, Begin(i) PROVE LockInv'
  <2>1. writer = None /\ \A j \in Calls : call[j].state \notin InTransaction
    BY <1>2, CommandAssumption DEF Begin, WriteLockFree, LockInv
  <2>2. CASE call[i].cmd \in records
    <3>1. \A j \in Calls : call'[j].state \notin InTransaction
      BY <1>2, <2>1, <2>2 DEF Begin, To, TypeOK, InTransaction
    <3> QED BY <1>2, <2>1, <2>2, <3>1, CommandAssumption DEF Begin, LockInv
  <2>3. CASE call[i].cmd \notin records
    <3>1. writer' = i /\ UNCHANGED <<version, status, rows, open, records>>
      BY <1>2, <2>3 DEF Begin, tables, order
    <3>2. call'[i].state = "begun" /\ call'[i].cmd = call[i].cmd
          /\ \A j \in Calls \ {i} : call'[j] = call[j]
      BY <1>2, <2>3 DEF Begin, To, TypeOK
    <3>3. Checked(i)'
      BY <2>3, <3>1, <3>2 DEF Checked
    <3> QED BY <2>1, <3>1, <3>2, <3>3 DEF LockInv, InTransaction
  <2> QED BY <2>2, <2>3
<1>3. ASSUME NEW i \in Calls, CheckOrder(i) PROVE LockInv'
  <2>1. CASE Refuse(i)
    BY <1>a, <1>3, <2>1, EndKeepsLock DEF CheckOrder, Refuse, InTransaction, CallStates
  <2>2. CASE ~Refuse(i)
    <3>1. PICK s \in {"checked", "current"} :
            Continue(i, s) /\ (s = "checked" => Changes(call[i].cmd))
      BY <1>3, <2>2 DEF CheckOrder
    <3>2. version = ExpectedVersion[call[i].cmd]
          /\ status \in EligibleStatuses[KindOf[call[i].cmd]]
      BY <1>3, <2>2 DEF CheckOrder
    <3>3. s = "checked" => KindOf[call[i].cmd] # "apply" /\ ~Reuses(call[i].cmd)
      BY <3>1 DEF Changes, Reuses
    <3>4. call[i].state \in InTransaction /\ s \in InTransaction
      BY <1>3 DEF CheckOrder, InTransaction
    <3> QED BY <3>1, <3>2, <3>3, <3>4, ContinueKeepsLock
  <2> QED BY <2>1, <2>2
<1>4. ASSUME NEW i \in Calls, CheckPolicy(i) \/ LookUp(i) PROVE LockInv'
  <2>0. call[i].state = "current" /\ call[i].state \in InTransaction
    BY <1>4 DEF CheckPolicy, LookUp, InTransaction
  <2>1. version = ExpectedVersion[call[i].cmd] /\ status \in EligibleStatuses[KindOf[call[i].cmd]]
    BY <2>0 DEF LockInv, Checked
  <2>2. CASE Refuse(i)
    BY <1>a, <2>0, <2>2, EndKeepsLock DEF Refuse, InTransaction, CallStates
  <2>3. CASE CheckPolicy(i) /\ ~Refuse(i)
    <3>1. Continue(i, "checked") /\ open = {} /\ KindOf[call[i].cmd] = "apply"
      BY <2>3 DEF CheckPolicy
    <3>2. ~Reuses(call[i].cmd) /\ "checked" \in InTransaction
      BY <3>1 DEF Reuses, InTransaction
    <3> QED BY <2>0, <2>1, <3>1, <3>2, ContinueKeepsLock
  <2>4. CASE LookUp(i)
    <3>1. PICK s \in {"checked", "found"} :
            Continue(i, s) /\ (s = "checked" => Existing(call[i].cmd) = {})
      BY <2>4 DEF LookUp
    <3>2. KindOf[call[i].cmd] # "apply" /\ s \in InTransaction
      BY <2>4 DEF LookUp, Reuses, InTransaction
    <3> QED BY <2>0, <2>1, <3>1, <3>2, ContinueKeepsLock
  <2> QED BY <1>4, <2>2, <2>3, <2>4
<1>5. ASSUME NEW i \in Calls, Write(i) \/ WriteAnswer(i) \/ WriteRefused(i) \/ Abort(i)
      PROVE  LockInv'
  <2>1. call[i].state \in InTransaction /\ EndTransaction(i)
        /\ \E s \in {"ok", "refused", "lost"} : To(i, s)
    BY <1>5 DEF Write, WriteAnswer, WriteRefused, Abort, Refuse, InTransaction
  <2>2. {"ok", "refused", "lost"} \subseteq CallStates \ InTransaction
    BY DEF CallStates, InTransaction
  <2> QED BY <1>a, <2>1, <2>2, EndKeepsLock
<1>6. ASSUME TouchOrder \/ \E c \in Commands : CloseApplication(c) PROVE LockInv'
  <2>1. writer = None /\ writer' = None /\ call' = call
    BY <1>6 DEF TouchOrder, CloseApplication, WriteLockFree
  <2> QED BY <2>1, CommandAssumption DEF LockInv
<1>7. CASE UNCHANGED vars
  BY <1>7 DEF vars, tables, order, LockInv, Checked, Existing, Serialised
<1> QED BY <1>1, <1>2, <1>3, <1>4, <1>5, <1>6, <1>7 DEF Next, Transaction

LEMMA OneOpenStep ==
  ASSUME TypeOK, CallsInv, LockInv, OneOpen, [Next]_vars
  PROVE  OneOpen'
<1>0. database' = database
  BY DEF Next, Transaction, vars, Send, Begin, CheckOrder, CheckPolicy, LookUp, Write,
         WriteAnswer, WriteRefused, Abort, Forget, TouchOrder, CloseApplication, Continue, Refuse
<1> SUFFICES ASSUME Serialised PROVE OneOpen'
  BY <1>0 DEF OneOpen, Serialised
<1>1. ASSUME NEW i \in Calls, Write(i) PROVE OneOpen'
  <2>1. call[i].cmd \in Commands /\ Checked(i) /\ call[i].state = "checked"
    BY <1>1 DEF Write, CallsInv, LockInv, InTransaction
  <2>2. KindOf[call[i].cmd] = "urge" => Existing(call[i].cmd) = {}
    BY <2>1 DEF Checked, Reuses
  <2>3. OneOfKind("urge")'
    BY <1>1, <2>1, <2>2, FirstOfKind DEF OneOpen
  <2>4. \A c, d \in open' : c = d
    BY <1>1, <2>1 DEF Write, Checked, OneOpen
  <2> QED BY <2>3, <2>4 DEF OneOpen
<1>2. ASSUME open' \subseteq open, UNCHANGED rows PROVE OneOpen'
  BY <1>2 DEF OneOpen, OneOfKind
<1>3. CASE ~\E i \in Calls : Write(i)
  <2>1. open' \subseteq open /\ UNCHANGED rows
    BY <1>3 DEF Next, Transaction, vars, tables, Send, Begin, CheckOrder, CheckPolicy, LookUp,
         WriteAnswer, WriteRefused, Abort, Forget, TouchOrder, CloseApplication, Continue, Refuse
  <2> QED BY <1>2, <2>1
<1> QED BY <1>1, <1>3

-----------------------------------------------------------------------------
LEMMA Initially == Init => IInv
<1> SUFFICES ASSUME Init PROVE IInv
  OBVIOUS
<1> USE CommandAssumption DEF Init, Idle
<1>1. TypeOK
  BY DEF TypeOK, CallStates, Statuses
<1>2. CallsInv /\ AppliedOnce /\ Spent /\ VersionsAreSpentOnce
  BY DEF CallsInv, AppliedOnce, Spent, VersionsAreSpentOnce
<1>3. OneInvoice /\ LockInv /\ OneOpen
  BY DEF OneInvoice, OneOfKind, LockInv, InTransaction, OneOpen
<1> QED BY <1>1, <1>2, <1>3 DEF IInv

(* The invariant is inductive, on both databases.                          *)
THEOREM BusinessInvariance == Spec => []IInv
<1>1. Init => IInv
  BY Initially
<1>2. IInv /\ [Next]_vars => IInv'
  BY TypeInvariant, CallsStep, AppliedOnceStep, SpentStep, OneInvoiceStep, LockStep, OneOpenStep
     DEF IInv
<1> QED BY <1>1, <1>2, PTL DEF Spec

(* Requests, locks and records keep their values, on both databases.       *)
THEOREM BusinessTypeCorrect == Spec => []TypeOK
<1>1. IInv => TypeOK
  BY DEF IInv
<1> QED BY BusinessInvariance, <1>1, PTL

(* A command has its effect once at most, on SQLite and on PostgreSQL, and *)
(* its record rests on a row (_idempotent).                                *)
THEOREM CommandsApplyOnce == Spec => []AppliedOnce
<1>1. IInv => AppliedOnce
  BY DEF IInv
<1> QED BY BusinessInvariance, <1>1, PTL

(* On both databases two changes prepared for one version of the order are *)
(* never both made (change_address, cancel_order).                         *)
THEOREM NoLostUpdate == Spec => []VersionsAreSpentOnce
<1>1. IInv => VersionsAreSpentOnce
  BY DEF IInv
<1> QED BY BusinessInvariance, <1>1, PTL

(* On both databases an order has one invoice of a title (create_invoice). *)
THEOREM InvoicesAreUnique == Spec => []OneInvoice
<1>1. IInv => OneInvoice
  BY DEF IInv
<1> QED BY BusinessInvariance, <1>1, PTL

(* On SQLite an order never has two open applications (_active_exists) nor *)
(* two delivery urges (urge_delivery).                                     *)
THEOREM ChecksAreActedOn == Spec => []ChecksHold
<1>1. IInv => ChecksHold
  <2> SUFFICES ASSUME IInv, Serialised PROVE OneOpenApplication /\ OneOfKind("urge")
    BY DEF ChecksHold
  <2>0. (\A c, d \in open : c = d) /\ OneOfKind("urge")
    BY DEF IInv, OneOpen
  <2>1. CASE open = {}
    BY <2>0, <2>1, FS_EmptySet DEF OneOpenApplication
  <2>2. CASE open # {}
    <3>1. PICK c \in open : TRUE
      BY <2>2
    <3>2. open = {c}
      BY <2>0, <3>1
    <3>3. Cardinality(open) = 1
      BY <3>2, FS_Singleton
    <3> QED BY <2>0, <3>3 DEF OneOpenApplication
  <2> QED BY <2>1, <2>2
<1> QED BY BusinessInvariance, <1>1, PTL

-----------------------------------------------------------------------------
(* Under the lock a statement that writes is never refused. *)
LEMMA WritersSucceed ==
  ASSUME Serialised, IInv, NEW i \in Calls
  PROVE  ~WriteRefused(i)
<1> SUFFICES ASSUME WriteRefused(i) PROVE FALSE
  OBVIOUS
<1> DEFINE c == call[i].cmd
<1>1. call[i].state \in {"checked", "found"} /\ Checked(i) /\ c \in Commands
  BY DEF WriteRefused, IInv, LockInv, CallsInv, InTransaction
<1>2. c \notin records /\ call[i].state = "checked" /\ ~Writable(c)
  BY <1>1 DEF WriteRefused, Checked
<1>3. version = ExpectedVersion[c] /\ status \in EligibleStatuses[KindOf[c]]
  BY <1>1 DEF Checked
<1>4. KindOf[c] = "cancel" => status = "unshipped"
  BY <1>3 DEF EligibleStatuses
<1>5. KindOf[c] = "invoice" => Existing(c) = {}
  BY <1>1, <1>2 DEF Checked, Reuses
<1> QED BY <1>2, <1>3, <1>4, <1>5 DEF Writable

(* On SQLite a refused command has no effect (the primary key is never     *)
(* what refuses it).                                                       *)
THEOREM RefusedWithoutEffect == Spec => RefusalMeansNoEffect
<1> DEFINE NoEffect == Serialised =>
                         \A i \in Calls :
                           call[i].state # "refused" /\ call'[i].state = "refused"
                             => call[i].cmd \notin records'
<1>1. IInv /\ [Next]_vars => [NoEffect]_vars
  <2> SUFFICES ASSUME IInv, Next, Serialised, NEW i \in Calls,
                      call[i].state # "refused", call'[i].state = "refused"
               PROVE  call[i].cmd \notin records'
    BY DEF NoEffect
  <2>1. CheckOrder(i) \/ CheckPolicy(i)
    <3>1. ASSUME NEW j \in Calls, Transaction(j) \/ Forget(j) \/ \E c \in Commands : Send(j, c),
                 ~(CheckOrder(j) \/ CheckPolicy(j))
          PROVE  FALSE
      BY <3>1, WritersSucceed
         DEF Transaction, Begin, LookUp, Write, WriteAnswer, Abort, Forget, Send, Continue, To,
             IInv, TypeOK, Idle
    <3>2. ASSUME NEW j \in Calls, CheckOrder(j) \/ CheckPolicy(j) PROVE j = i
      BY <3>2 DEF CheckOrder, CheckPolicy, Continue, Refuse, To, IInv, TypeOK
    <3>3. call' # call
      OBVIOUS
    <3> QED BY <3>1, <3>2, <3>3 DEF Next, TouchOrder, CloseApplication
  <2>2. call[i].state \in InTransaction
    BY <2>1 DEF CheckOrder, CheckPolicy, InTransaction
  <2>3. call[i].cmd \notin records
    BY <2>2 DEF IInv, LockInv, Checked
  <2> QED BY <2>1, <2>3 DEF CheckOrder, CheckPolicy, Continue, Refuse, tables
<1> QED BY BusinessInvariance, <1>1, PTL DEF Spec, RefusalMeansNoEffect

-----------------------------------------------------------------------------
(* Refinement of CommandService on SQLite *)

\* What the caller sees of a request changes as the request itself, or not at all.
LEMMA Visible ==
  ASSUME TypeOK, NEW i \in Calls, NEW s \in CallStates, To(i, s)
  PROVE  VisibleCall' = IF s \in InTransaction
                          THEN [VisibleCall EXCEPT ![i] = [call[i] EXCEPT !.state = "sent"]]
                          ELSE [VisibleCall EXCEPT ![i] = [call[i] EXCEPT !.state = s]]
  BY DEF TypeOK, To, VisibleCall

\* A transaction that runs is a request that has been sent.
LEMMA Running ==
  ASSUME TypeOK, NEW i \in Calls, call[i].state \in InTransaction
  PROVE  /\ VisibleCall[i] = [call[i] EXCEPT !.state = "sent"]
         /\ VisibleCall[i].state = "sent" /\ VisibleCall[i].cmd = call[i].cmd
  BY DEF TypeOK, VisibleCall

\* Its end is the service's answer.
LEMMA Answered ==
  ASSUME TypeOK, NEW i \in Calls, call[i].state \in InTransaction,
         NEW s \in CallStates \ InTransaction, To(i, s)
  PROVE  Service!Answer(i, s)
<1>1. VisibleCall' = [VisibleCall EXCEPT ![i] = [call[i] EXCEPT !.state = s]]
  BY Visible
<1>2. [VisibleCall[i] EXCEPT !.state = s] = [call[i] EXCEPT !.state = s]
  BY Running DEF TypeOK
<1>3. VisibleCall' = [VisibleCall EXCEPT ![i].state = s]
  BY <1>1, <1>2
<1> QED BY <1>3 DEF Service!Answer

LEMMA Unseen ==
  ASSUME TypeOK, NEW i \in Calls, call[i].state \in InTransaction, NEW s \in InTransaction,
         Continue(i, s)
  PROVE  UNCHANGED Service!vars
<1>1. VisibleCall' = VisibleCall
  BY Running DEF Continue, To, VisibleCall, TypeOK
<1> QED BY <1>1 DEF Service!vars, Service!order, Continue, tables, order

LEMMA RefusalSeen ==
  ASSUME Serialised, IInv, NEW i \in Calls, call[i].state \in InTransaction, Refuse(i),
         ~Service!Acceptable(call[i].cmd)
  PROVE  Service!Refuse(i)
<1>1. TypeOK /\ call[i].cmd \notin records
  BY DEF IInv, LockInv, Checked
<1>2. "refused" \in CallStates \ InTransaction
  BY DEF CallStates, InTransaction
<1>3. Service!Answer(i, "refused")
  BY <1>1, <1>2, Answered DEF Refuse
<1> QED BY <1>1, <1>3, Running DEF Service!Refuse, Service!order, Refuse, tables, order

LEMMA SameEligible == Service!Eligible = EligibleStatuses
  BY DEF Service!Eligible, EligibleStatuses

(* Every step of a transaction is a step of the service, or none that its  *)
(* caller can see: the service works where its writer writes.              *)
LEMMA ServiceStep ==
  ASSUME Serialised, IInv, [Next]_vars
  PROVE  Service!Next \/ UNCHANGED Service!vars
<1>0. TypeOK /\ LockInv /\ OneOpen /\ CallsInv
  BY DEF IInv
<1>a. {"ok", "refused", "lost"} \subseteq CallStates \ InTransaction
  BY DEF CallStates, InTransaction
<1>1. ASSUME NEW i \in Calls, NEW c \in Commands, Send(i, c) PROVE Service!Send(i, c)
  <2>1. VisibleCall[i] = Service!Idle
    BY <1>0, <1>1 DEF Send, Service!Idle, VisibleCall, TypeOK, CallsInv, InTransaction
  <2>2. VisibleCall' = [VisibleCall EXCEPT ![i] = [state |-> "sent", cmd |-> c]]
    BY <1>0, <1>1 DEF Send, VisibleCall, TypeOK, InTransaction
  <2> QED BY <1>1, <2>1, <2>2 DEF Send, Service!Send, Service!order, tables, order
<1>2. ASSUME NEW i \in Calls, Begin(i)
      PROVE  Service!Replay(i) \/ UNCHANGED Service!vars
  <2>1. VisibleCall[i] = call[i]
    BY <1>2 DEF Begin, VisibleCall, InTransaction
  <2>2. CASE call[i].cmd \in records
    <3>1. VisibleCall' = [VisibleCall EXCEPT ![i] = [call[i] EXCEPT !.state = "ok"]]
      BY <1>0, <1>2, <1>a, <2>2, Visible DEF Begin
    <3> QED BY <1>2, <2>1, <2>2, <3>1
            DEF Begin, Service!Replay, Service!Answer, Service!order, tables, order
  <2>3. CASE call[i].cmd \notin records
    <3>1. VisibleCall' = VisibleCall
      BY <1>0, <1>2, <2>3 DEF Begin, To, VisibleCall, TypeOK, InTransaction
    <3> QED BY <1>2, <2>3, <3>1 DEF Begin, Service!vars, Service!order, tables, order
  <2> QED BY <2>2, <2>3
<1>3. ASSUME NEW i \in Calls, CheckOrder(i)
      PROVE  Service!Refuse(i) \/ UNCHANGED Service!vars
  <2>1. call[i].state \in InTransaction
    BY <1>3 DEF CheckOrder, InTransaction
  <2>2. CASE Refuse(i) /\ ~(/\ version = ExpectedVersion[call[i].cmd]
                            /\ status \in EligibleStatuses[KindOf[call[i].cmd]])
    <3>1. ~Service!Acceptable(call[i].cmd)
      BY <2>2, SameEligible DEF Service!Acceptable
    <3> QED BY <2>1, <2>2, <3>1, RefusalSeen
  <2>3. CASE \E s \in {"checked", "current"} : Continue(i, s)
    BY <1>0, <2>1, <2>3, Unseen DEF InTransaction
  <2> QED BY <1>3, <2>2, <2>3 DEF CheckOrder
<1>4. ASSUME NEW i \in Calls, CheckPolicy(i) \/ LookUp(i)
      PROVE  Service!Refuse(i) \/ UNCHANGED Service!vars
  <2>1. call[i].state \in InTransaction
    BY <1>4 DEF CheckPolicy, LookUp, InTransaction
  <2>2. CASE Refuse(i) /\ KindOf[call[i].cmd] = "apply" /\ open # {}
    <3>1. ~Service!Acceptable(call[i].cmd)
      BY <2>2 DEF Service!Acceptable
    <3> QED BY <2>1, <2>2, <3>1, RefusalSeen
  <2>3. CASE \E s \in {"checked", "found"} : Continue(i, s)
    BY <1>0, <2>1, <2>3, Unseen DEF InTransaction
  <2> QED BY <1>4, <2>2, <2>3 DEF CheckPolicy, LookUp
<1>5. ASSUME NEW i \in Calls, Write(i) PROVE Service!Accept(i)
  <2> DEFINE c == call[i].cmd
  <2>1. call[i].state = "checked" /\ call[i].state \in InTransaction /\ c \in Commands
    BY <1>0, <1>5 DEF Write, InTransaction, CallsInv
  <2>2. /\ c \notin records /\ version = ExpectedVersion[c]
        /\ status \in EligibleStatuses[KindOf[c]]
        /\ KindOf[c] = "apply" => open = {}
    BY <1>0, <2>1 DEF LockInv, Checked
  <2>3. Service!Acceptable(c)
    BY <2>2, SameEligible DEF Service!Acceptable
  <2>4. Service!Answer(i, "ok")
    BY <1>0, <1>5, <1>a, <2>1, Answered DEF Write
  <2>5. /\ records' = records \cup {c}
        /\ open' = IF KindOf[c] = "apply" THEN {c} ELSE open
        /\ version' = IF KindOf[c] \in {"change", "cancel"} THEN version + 1 ELSE version
        /\ status' = IF KindOf[c] = "cancel" THEN "cancelled" ELSE status
    BY <1>5, <2>2 DEF Write, Changes
  <2>6. VisibleCall[i].state = "sent" /\ VisibleCall[i].cmd = c
    BY <1>0, <2>1, Running
  <2> QED BY <2>2, <2>3, <2>4, <2>5, <2>6 DEF Service!Accept
<1>6. ASSUME NEW i \in Calls, WriteAnswer(i) PROVE Service!Accept(i)
  <2> DEFINE c == call[i].cmd
  <2>1. call[i].state = "found" /\ call[i].state \in InTransaction /\ Reuses(c)
    BY <1>0, <1>6 DEF WriteAnswer, InTransaction, CallsInv
  <2>2. c \notin records /\ version = ExpectedVersion[c] /\ status \in EligibleStatuses[KindOf[c]]
    BY <1>0, <2>1 DEF LockInv, Checked
  <2>3. KindOf[c] \notin {"apply", "change", "cancel"}
    BY <2>1 DEF Reuses
  <2>4. Service!Acceptable(c)
    BY <2>2, <2>3, SameEligible DEF Service!Acceptable
  <2>5. Service!Answer(i, "ok")
    BY <1>0, <1>6, <1>a, <2>1, Answered DEF WriteAnswer
  <2>6. records' = records \cup {c} /\ UNCHANGED <<open, version, status>>
    BY <1>6 DEF WriteAnswer, order
  <2>7. VisibleCall[i].state = "sent" /\ VisibleCall[i].cmd = c
    BY <1>0, <2>1, Running
  <2> QED BY <2>2, <2>3, <2>4, <2>5, <2>6, <2>7 DEF Service!Accept
<1>7. ASSUME NEW i \in Calls, Abort(i) PROVE Service!Lose(i)
  <2>1. call[i].state \in InTransaction
    BY <1>7 DEF Abort
  <2>2. Service!Answer(i, "lost")
    BY <1>0, <1>7, <1>a, <2>1, Answered DEF Abort
  <2> QED BY <1>0, <1>7, <2>1, <2>2, Running DEF Abort, Service!Lose, Service!order, tables, order
<1>8. ASSUME NEW i \in Calls, Forget(i) PROVE Service!Forget(i)
  <2>1. VisibleCall[i] = call[i]
    BY <1>8 DEF Forget, VisibleCall, InTransaction
  <2>2. VisibleCall' = [VisibleCall EXCEPT ![i] = Service!Idle]
    BY <1>0, <1>8 DEF Forget, VisibleCall, TypeOK, Service!Idle, Idle, InTransaction
  <2> QED BY <1>8, <2>1, <2>2 DEF Forget, Service!Forget, Service!order, tables, order
<1>9. ASSUME TouchOrder PROVE Service!TouchOrder
  BY <1>9 DEF TouchOrder, Service!TouchOrder, VisibleCall
<1>10. ASSUME NEW c \in Commands, CloseApplication(c) PROVE Service!CloseApplications
  <2>1. open = {c}
    BY <1>0, <1>10 DEF CloseApplication, OneOpen
  <2> QED BY <1>10, <2>1
          DEF CloseApplication, Service!CloseApplications, Service!order, order, VisibleCall
<1>11. CASE UNCHANGED vars
  BY <1>11 DEF vars, tables, order, Service!vars, Service!order, VisibleCall
<1>12. ASSUME NEW i \in Calls, WriteRefused(i) PROVE FALSE
  BY <1>12, WritersSucceed
<1> QED BY <1>1, <1>2, <1>3, <1>4, <1>5, <1>6, <1>7, <1>8, <1>9, <1>10, <1>11, <1>12
        DEF Next, Transaction, Service!Next

(* On SQLite the Business Service, with its transactions of several        *)
(* statements, implements the service whose commands are atomic.           *)
THEOREM ServiceRefinement == Spec => ImplementsCommandService
<1>1. Init => Service!Init
  BY DEF Init, Idle, Service!Init, Service!Idle, VisibleCall, InTransaction
<1>2. IInv /\ [Next]_vars => [Serialised => Service!Next \/ UNCHANGED Service!vars]_vars
  BY ServiceStep
<1> QED BY BusinessInvariance, <1>1, <1>2, PTL DEF Spec, ImplementsCommandService
=============================================================================
