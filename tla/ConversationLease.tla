-------------------------- MODULE ConversationLease --------------------------
(***************************************************************************)
(* The lease that keeps the turns of one conversation apart: the local     *)
(* lock and the durable lock of AgentService._serialized_turn, the lease   *)
(* that a thread renews (turn_lock.py), the lock store with its fencing    *)
(* tokens (ActionLockStore and its SQLAlchemy twin), and the checkpoint    *)
(* writes that are fenced by it (turn_fencing.py).                         *)
(*                                                                         *)
(* The owner's name is unique for each turn.  A turn waits, loses its      *)
(* lease and dies between any two database statements, and any statement   *)
(* of its own can fail.                                                    *)
(***************************************************************************)
EXTENDS Naturals, Sequences

CONSTANTS
  Turns,       \* requests for one conversation
  Processes,   \* service processes
  ProcessOf,   \* the process that serves each turn
  Backends,    \* what lock and checkpoints are stored in: "sqlite", "postgres"
  Ttl,         \* time units a lease lasts without renewal
  MaxWrites,   \* bound on the checkpoints written after a turn's first read
  Unreleased,  \* bound on the turns whose release may fail
  None

ASSUME LeaseAssumption ==
  /\ None \notin Turns /\ None \notin [owner : Turns, token : Nat, left : Nat]
  /\ ProcessOf \in [Turns -> Processes]
  /\ Backends \subseteq {"sqlite", "postgres"}
  /\ Ttl \in Nat \ {0}
  /\ MaxWrites \in Nat
  /\ Unreleased \subseteq Turns

VARIABLES
  backend,      \* fixed at the start
  row,          \* action_locks: the lease of the conversation, or None
  tokens,       \* action_lock_tokens: the last token that was issued
  pc,           \* where each turn is
  token,        \* its fencing token, 0 before it has one
  deleted,      \* its uncommitted transaction has deleted the expired lease
  lost,         \* ConversationLease._lost
  base,         \* how many checkpoints the turn found when it began
  written       \* the checkpoints

leaseVars == <<row, tokens>>
turnVars  == <<pc, token, deleted, lost, base>>
vars      == <<backend, leaseVars, turnVars, written>>

Lease(t, n, left) == [owner |-> t, token |-> n, left |-> left]

Ended  == {"done", "failed", "leaked", "busy", "dead"}
Inside == {"acquire", "token", "insert", "read", "work", "checked", "guarded", "wrote",
           "closing", "raised"}
Renewed == {"read", "work", "checked", "guarded", "wrote"}   \* the renewal thread runs

Init ==
  /\ backend \in Backends
  /\ row = None
  /\ tokens = 0
  /\ pc = [t \in Turns |-> "new"]
  /\ token = [t \in Turns |-> 0]
  /\ deleted = [t \in Turns |-> FALSE]
  /\ lost = [t \in Turns |-> FALSE]
  /\ base = [t \in Turns |-> 0]
  /\ written = <<>>

-----------------------------------------------------------------------------
Goto(t, s) == pc' = [pc EXCEPT ![t] = s]

Owns(t)  == row # None /\ row.owner = t /\ row.token = token[t]
Valid(t) == Owns(t) /\ row.left > 0
Available == row # None => row.left = 0

\* PostgreSQL holds a row lock for the transactions that are not finished.
Locks(t)     == pc[t] = "guarded" \/ (pc[t] \in {"token", "insert"} /\ deleted[t])
RowIsFree(t) == \A u \in Turns \ {t} : ~Locks(u)

(* The local lock: a turn waits for the one that its process is working on,  *)
(* thirty seconds at most.  It is an RLock: one that was never released      *)
(* still lets in the thread that holds it, and no other.                     *)
LocallyBusy(t) == \E u \in Turns \ {t} : ProcessOf[u] = ProcessOf[t] /\ pc[u] \in Inside
LockLeaked(t)  == \E u \in Turns : ProcessOf[u] = ProcessOf[t] /\ pc[u] = "leaked"

Enter(t) ==
  /\ pc[t] = "new" /\ ~LocallyBusy(t)
  /\ Goto(t, "acquire")
  /\ UNCHANGED <<backend, leaseVars, token, deleted, lost, base, written>>

GiveUpWaiting(t) ==
  /\ pc[t] = "new" /\ (LocallyBusy(t) \/ LockLeaked(t))
  /\ Goto(t, "busy")
  /\ UNCHANGED <<backend, leaseVars, token, deleted, lost, base, written>>

-----------------------------------------------------------------------------
(* acquire *)

\* Mutant: the expired lease is handed over with the token it has.
AcquireOldToken(t) ==
  /\ backend = "sqlite" /\ pc[t] = "acquire"
  /\ Available
  /\ tokens' = IF row = None THEN tokens + 1 ELSE row.token
  /\ row' = Lease(t, tokens', Ttl)
  /\ token' = [token EXCEPT ![t] = tokens']
  /\ Goto(t, "read")
  /\ UNCHANGED <<backend, deleted, lost, base, written>>

\* ActionLockStore: one BEGIN IMMEDIATE transaction.
Acquire(t) ==
  /\ backend = "sqlite" /\ pc[t] = "acquire"
  /\ Available
  /\ tokens' = tokens + 1
  /\ row' = Lease(t, tokens', Ttl)
  /\ token' = [token EXCEPT ![t] = tokens']
  /\ Goto(t, "read")
  /\ UNCHANGED <<backend, deleted, lost, base, written>>

AcquireRefused(t) ==
  /\ backend = "sqlite" /\ pc[t] = "acquire"
  /\ ~Available
  /\ Goto(t, "busy")
  /\ UNCHANGED <<backend, leaseVars, token, deleted, lost, base, written>>

\* _SqlAlchemyActionLockRepository: three statements of one transaction.
DeleteExpired(t) ==
  /\ backend = "postgres" /\ pc[t] = "acquire" /\ RowIsFree(t)
  /\ deleted' = [deleted EXCEPT ![t] = row # None /\ Available]
  /\ Goto(t, "token")
  /\ UNCHANGED <<backend, leaseVars, token, lost, base, written>>

\* The token comes from a sequence, outside the transaction.
TakeToken(t) ==
  /\ pc[t] = "token"
  /\ tokens' = tokens + 1
  /\ token' = [token EXCEPT ![t] = tokens']
  /\ Goto(t, "insert")
  /\ UNCHANGED <<backend, row, deleted, lost, base, written>>

\* The primary key refuses the lease if there is one; the commit is the same step.
InsertLease(t) ==
  /\ pc[t] = "insert"
  /\ row = None \/ deleted[t]
  /\ row' = Lease(t, token[t], Ttl)
  /\ deleted' = [deleted EXCEPT ![t] = FALSE]
  /\ Goto(t, "read")
  /\ UNCHANGED <<backend, tokens, token, lost, base, written>>

\* Mutant: a refused acquisition is tried until it succeeds.
InsertRetried(t) ==
  /\ pc[t] = "insert"
  /\ row # None /\ ~deleted[t]
  /\ UNCHANGED vars

InsertRefused(t) ==
  /\ pc[t] = "insert"
  /\ row # None /\ ~deleted[t]
  /\ Goto(t, "busy")
  /\ UNCHANGED <<backend, leaseVars, token, deleted, lost, base, written>>

\* A statement fails and the transaction is rolled back: an error, like a busy conversation.
AcquireFails(t) ==
  /\ pc[t] \in {"acquire", "token", "insert"}
  /\ Goto(t, "busy")
  /\ deleted' = [deleted EXCEPT ![t] = FALSE]
  /\ UNCHANGED <<backend, leaseVars, token, lost, base, written>>

-----------------------------------------------------------------------------
(* The turn: the graph reads the last checkpoint and writes new ones *)

Read(t) ==
  /\ pc[t] = "read"
  /\ base' = [base EXCEPT ![t] = Len(written)]
  /\ Goto(t, "work")
  /\ UNCHANGED <<backend, leaseVars, token, deleted, lost, written>>

(* assert_valid: fails for good once it has failed, or the thread could not  *)
(* renew the lease.                                                          *)
AssertValid(t, s) ==
  LET valid == ~lost[t] /\ Valid(t)
  IN  /\ lost' = [lost EXCEPT ![t] = ~valid]
      /\ Goto(t, IF valid THEN s ELSE "raised")
      /\ UNCHANGED <<backend, leaseVars, token, deleted, base, written>>

\* FencedCheckpointer._write, before the write.
BeginWrite(t) ==
  /\ pc[t] = "work"
  /\ Len(written) < base[t] + MaxWrites
  /\ AssertValid(t, "checked")

Checkpoint(t) == [turn |-> t, base |-> base[t], owned |-> Owns(t)]

\* A saver without atomic_fence_write writes, and the lease is validated once more.
PlainWrite(t) ==
  /\ backend = "sqlite" /\ pc[t] = "checked"
  /\ written' = Append(written, Checkpoint(t))
  /\ Goto(t, "wrote")
  /\ UNCHANGED <<backend, leaseVars, token, deleted, lost, base>>

\* Mutant: what became of the lease during the write is not looked at.
FinishWriteUnchecked(t) ==
  /\ pc[t] = "wrote"
  /\ Goto(t, "closing")
  /\ UNCHANGED <<backend, leaseVars, token, deleted, lost, base, written>>

FinishWrite(t) == pc[t] = "wrote" /\ AssertValid(t, "work")

\* Mutant: the check before the write is taken for the guard.
GuardUnlocked(t) ==
  /\ backend = "postgres" /\ pc[t] = "checked" /\ RowIsFree(t)
  /\ Goto(t, "guarded")
  /\ UNCHANGED <<backend, leaseVars, token, deleted, lost, base, written>>

\* AtomicallyFencedPostgresSaver: SELECT ... FOR UPDATE of the valid lease, or an error.
Guard(t) ==
  /\ backend = "postgres" /\ pc[t] = "checked" /\ RowIsFree(t)
  /\ Goto(t, IF Valid(t) THEN "guarded" ELSE "raised")
  /\ UNCHANGED <<backend, leaseVars, token, deleted, lost, base, written>>

GuardedWrite(t) ==
  /\ pc[t] = "guarded"
  /\ written' = Append(written, Checkpoint(t))
  /\ Goto(t, "work")
  /\ UNCHANGED <<backend, leaseVars, token, deleted, lost, base>>

\* The lease is validated at the end.
Finish(t) == pc[t] = "work" /\ AssertValid(t, "closing")

\* A read, a write or the graph itself fails; a guarded write is rolled back.
Raise(t) ==
  /\ pc[t] \in {"read", "work", "checked", "guarded"}
  /\ Goto(t, "raised")
  /\ UNCHANGED <<backend, leaseVars, token, deleted, lost, base, written>>

\* Mutant: whoever closes releases the lease of the conversation.
CloseByKey(t) ==
  /\ pc[t] \in {"closing", "raised"} /\ RowIsFree(t)
  /\ row' = None
  /\ Goto(t, IF pc[t] = "closing" THEN "done" ELSE "failed")
  /\ UNCHANGED <<backend, tokens, token, deleted, lost, base, written>>

\* release, by owner and token, whether the lease has expired or not.
Close(t) ==
  /\ pc[t] \in {"closing", "raised"} /\ RowIsFree(t)
  /\ row' = IF Owns(t) THEN None ELSE row
  /\ Goto(t, IF pc[t] = "closing" THEN "done" ELSE "failed")
  /\ UNCHANGED <<backend, tokens, token, deleted, lost, base, written>>

\* release fails: the finally clause is left before it releases the local lock.
CloseFails(t) ==
  /\ t \in Unreleased /\ pc[t] \in {"closing", "raised"}
  /\ Goto(t, "leaked")
  /\ UNCHANGED <<backend, leaseVars, token, deleted, lost, base, written>>

-----------------------------------------------------------------------------
(* The renewal thread, time and failures *)

\* Mutant: renewals add up.
RenewAdds(t) ==
  /\ pc[t] \in Renewed /\ ~lost[t]
  /\ \A u \in Turns : ~Locks(u)
  /\ Valid(t)
  /\ row' = [row EXCEPT !.left = @ + Ttl]
  /\ UNCHANGED <<backend, tokens, turnVars, written>>

Renew(t) ==
  /\ pc[t] \in Renewed /\ ~lost[t]
  /\ \A u \in Turns : ~Locks(u)
  /\ Valid(t)
  /\ row' = [row EXCEPT !.left = Ttl]
  /\ UNCHANGED <<backend, tokens, turnVars, written>>

\* The lease is gone or has expired, or the store cannot be reached.
RenewalFails(t) ==
  /\ pc[t] \in Renewed /\ ~lost[t]
  /\ lost' = [lost EXCEPT ![t] = TRUE]
  /\ UNCHANGED <<backend, leaseVars, pc, token, deleted, base, written>>

Tick ==
  /\ ~Available
  /\ row' = [row EXCEPT !.left = @ - 1]
  /\ UNCHANGED <<backend, tokens, turnVars, written>>

(* A process dies with the turn it works on and the local lock that was      *)
(* leaked; its transaction is rolled back.                                   *)
Crash(p) ==
  LET gone == {t \in Turns : ProcessOf[t] = p /\ pc[t] \in Inside \cup {"leaked"}}
  IN  /\ gone # {}
      /\ pc' = [t \in Turns |-> IF t \in gone THEN "dead" ELSE pc[t]]
      /\ deleted' = [t \in Turns |-> deleted[t] /\ t \notin gone]
      /\ UNCHANGED <<backend, leaseVars, token, lost, base, written>>

TurnStep(t) ==
  \/ Enter(t) \/ GiveUpWaiting(t)
  \/ Acquire(t) \/ AcquireRefused(t)
  \/ DeleteExpired(t) \/ TakeToken(t) \/ InsertLease(t) \/ InsertRefused(t)
  \/ Read(t) \/ BeginWrite(t) \/ PlainWrite(t) \/ FinishWrite(t) \/ Guard(t) \/ GuardedWrite(t)
  \/ Finish(t) \/ Close(t)

Next ==
  \/ \E t \in Turns : \/ TurnStep(t) \/ Renew(t)
                      \/ AcquireFails(t) \/ Raise(t) \/ CloseFails(t) \/ RenewalFails(t)
  \/ Tick
  \/ \E p \in Processes : Crash(p)

Spec == Init /\ [][Next]_vars

\* A turn that has not died goes on.
FairSpec == Spec /\ \A t \in Turns : WF_vars(TurnStep(t))

-----------------------------------------------------------------------------
(* Correctness *)

TypeOK ==
  /\ backend \in Backends
  /\ tokens \in Nat
  /\ row = None \/ row \in [owner : Turns, token : 0 .. tokens, left : 0 .. Ttl]
  /\ pc \in [Turns -> {"new"} \cup Inside \cup Ended]
  /\ token \in [Turns -> 0 .. tokens]
  /\ deleted \in [Turns -> BOOLEAN]
  /\ lost \in [Turns -> BOOLEAN]
  /\ base \in [Turns -> 0 .. Len(written)]
  /\ written \in Seq([turn : Turns, base : Nat, owned : BOOLEAN])

(* No lost update: on PostgreSQL a checkpoint is written on top of the ones  *)
(* its turn has read and its own, so a deposed turn never writes over or     *)
(* after its successor's (AtomicallyFencedPostgresSaver).                    *)
CheckpointsBuildOnTheLast ==
  backend = "postgres" =>
    \A i \in 1 .. Len(written) : \A j \in written[i].base + 1 .. i :
      written[j].turn = written[i].turn

(* Where the saver is not atomic a deposed turn may write once more, but it  *)
(* is never reported as successful: the customer of a finished turn was      *)
(* answered from checkpoints that were the conversation's                    *)
(* (FencedCheckpointer._finish_write).                                       *)
FinishedTurnsOwnedTheirWrites ==
  \A i \in 1 .. Len(written) :
    pc[written[i].turn] \in {"closing", "done"} => written[i].owned

(* Fencing tokens grow with every change of hands (ActionLockStore.acquire). *)
(* On PostgreSQL they are only different: the token is taken two statements  *)
(* before the lease, and a turn may come and go in between.                  *)
Held == Renewed \cup {"closing", "raised", "done", "failed", "leaked"}

TokensGrow ==
  [][backend = "sqlite" /\ row' # None /\ (row = None \/ row'.owner # row.owner)
       => \A t \in Turns : pc[t] \in Held => token[t] < row'.token]_vars

(* Nobody ends a lease that has time left but its own turn: not a turn that  *)
(* was deposed and closes late, not one that acquires (release, acquire).    *)
LeaseEndsByItsTurn ==
  [][\A t \in Turns : Valid(t) /\ (row' # None => row'.owner # t) =>
       pc[t] \in {"closing", "raised"} /\ pc'[t] \in Ended]_vars

(* What the commit path takes from the lease: turns work one after the other *)
(* as long as none works longer than its lease runs (_serialized_turn).      *)
AtWork(t)         == pc[t] \in Renewed
LeaseOutlivesWork == \A t \in Turns : AtWork(t) /\ Owns(t) => Valid(t)
OneTurnWorks      == \A t, u \in Turns : AtWork(t) /\ AtWork(u) => t = u

LeaseSeparatesTurns == []LeaseOutlivesWork => []OneTurnWorks

(* A turn ends, whoever holds the lease, whatever transaction it waits for   *)
(* and although a local lock is never released, or its process dies          *)
(* (_serialized_turn).                                                       *)
EveryTurnEnds == \A t \in Turns : <>(pc[t] \in Ended)

(* On PostgreSQL lease and checkpoints together are a register of turns.     *)
Register == INSTANCE TurnRegister
              WITH current <- IF row = None THEN None ELSE row.owner,
                   log     <- [i \in 1 .. Len(written) |-> written[i].turn]

ImplementsTurnRegister ==
  [][backend = "postgres" => Register!Next \/ UNCHANGED Register!vars]_vars
=============================================================================
