----------------------- MODULE ConversationLease_proofs -----------------------
(***************************************************************************)
(* Proofs about the conversation lease, for any number of turns, processes *)
(* and writes, on both backends.                                           *)
(***************************************************************************)
EXTENDS ConversationLease, SequenceTheorems, TLAPS

WriteRow == [turn : Turns, base : Nat, owned : BOOLEAN]

\* A turn that writes has read the checkpoints before.
Writing == {"work", "checked", "guarded", "wrote"}

\* PostgreSQL's row locks: one at a time, on the lease they were taken for.
LockInv ==
  /\ \A t, u \in Turns : Locks(t) /\ Locks(u) => t = u
  /\ \A t \in Turns : pc[t] = "guarded" => backend = "postgres" /\ Owns(t)
  /\ \A t \in Turns : pc[t] \in {"token", "insert"} /\ deleted[t] => row # None /\ row.left = 0
  /\ \A t \in Turns : pc[t] \in {"token", "insert"} => backend = "postgres"

\* While a turn owns the lease nobody else adds a checkpoint.
TailInv ==
  backend = "postgres" =>
    \A t \in Turns : pc[t] \in Writing /\ Owns(t) =>
      \A j \in base[t] + 1 .. Len(written) : written[j].turn = t

\* Who has written has had the lease, and a turn that lost it never has it again.
OwnedInv ==
  /\ \A i \in 1 .. Len(written) : pc[written[i].turn] \notin {"new", "acquire", "token", "insert"}
  /\ \A i \in 1 .. Len(written) : ~written[i].owned => ~Owns(written[i].turn)

IInv == TypeOK /\ LockInv /\ TailInv /\ OwnedInv /\ CheckpointsBuildOnTheLast
          /\ FinishedTurnsOwnedTheirWrites

-----------------------------------------------------------------------------
(* What appending one checkpoint does to the ones that are there. *)
LEMMA AppendRow ==
  ASSUME NEW s \in Seq(WriteRow), NEW r \in WriteRow
  PROVE  /\ Append(s, r) \in Seq(WriteRow)
         /\ Len(Append(s, r)) = Len(s) + 1
         /\ \A i \in 1 .. Len(s) : Append(s, r)[i] = s[i]
         /\ Append(s, r)[Len(s) + 1] = r
         /\ Len(s) \in Nat
  OBVIOUS

(* The parts of a checkpoint. *)
LEMMA RowTypes ==
  ASSUME TypeOK, NEW i \in 1 .. Len(written)
  PROVE  written[i].turn \in Turns /\ written[i].base \in Nat
<1>1. written \in Seq(WriteRow)
  BY DEF TypeOK, WriteRow
<1>2. written[i] \in WriteRow
  BY <1>1, ElementOfSeq
<1>3. QED
  BY <1>2 DEF WriteRow

(* Goto changes one program counter. *)
LEMMA GotoEffect ==
  ASSUME TypeOK, NEW t \in Turns, NEW s, Goto(t, s)
  PROVE  /\ pc'[t] = s
         /\ \A u \in Turns \ {t} : pc'[u] = pc[u]
  BY DEF Goto, TypeOK

(* Time and renewal leave the lease with its turn and its token. *)
LEMMA SameLease ==
  ASSUME TypeOK, row # None, NEW n \in 0 .. Ttl, row' = [row EXCEPT !.left = n]
  PROVE  /\ row' # None /\ row' \in [owner : Turns, token : 0 .. tokens, left : 0 .. Ttl]
         /\ row'.owner = row.owner /\ row'.token = row.token /\ row'.left = n
<1>1. row \in [owner : Turns, token : 0 .. tokens, left : 0 .. Ttl]
  BY DEF TypeOK
<1>2. /\ row' \in [owner : Turns, token : 0 .. tokens, left : 0 .. Ttl]
      /\ row'.owner = row.owner /\ row'.token = row.token /\ row'.left = n
  BY <1>1
<1>3. row' \in [owner : Turns, token : Nat, left : Nat]
  BY <1>2, LeaseAssumption DEF TypeOK
<1>4. QED
  BY <1>2, <1>3, LeaseAssumption

(* What a tick does to the lease. *)
LEMMA TickEffect ==
  ASSUME TypeOK, Tick
  PROVE  /\ row # None /\ row.left > 0
         /\ row' # None /\ row' \in [owner : Turns, token : 0 .. tokens, left : 0 .. Ttl]
         /\ row'.owner = row.owner /\ row'.token = row.token
<1>1. row # None /\ row.left # 0
  BY DEF Tick, Available
<1>2. row.left \in 0 .. Ttl
  BY <1>1 DEF TypeOK
<1>3. row.left > 0 /\ row.left - 1 \in 0 .. Ttl
  BY <1>1, <1>2, LeaseAssumption
<1>4. QED
  BY <1>1, <1>3, SameLease DEF Tick

(* What a renewal does to it. *)
LEMMA RenewEffect ==
  ASSUME TypeOK, NEW t \in Turns, Renew(t)
  PROVE  /\ row # None /\ row' # None
         /\ row' \in [owner : Turns, token : 0 .. tokens, left : 0 .. Ttl]
         /\ row'.owner = row.owner /\ row'.token = row.token
<1>1. row # None /\ Ttl \in 0 .. Ttl
  BY LeaseAssumption DEF Renew, Valid, Owns
<1>2. QED
  BY <1>1, SameLease DEF Renew

LEMMA InitInv == Init => IInv
<1> SUFFICES ASSUME Init PROVE IInv
  OBVIOUS
<1>1. TypeOK
  BY LeaseAssumption DEF Init, TypeOK
<1>2. LockInv
  BY DEF Init, LockInv, Locks
<1>3. TailInv
  BY DEF Init, TailInv, Writing
<1>4. OwnedInv /\ CheckpointsBuildOnTheLast /\ FinishedTurnsOwnedTheirWrites
  BY DEF Init, OwnedInv, CheckpointsBuildOnTheLast, FinishedTurnsOwnedTheirWrites
<1>5. QED
  BY <1>1, <1>2, <1>3, <1>4 DEF IInv

-----------------------------------------------------------------------------
(* Every step keeps the types. *)
LEMMA TypeStep == TypeOK /\ [Next]_vars => TypeOK'
<1> SUFFICES ASSUME TypeOK, [Next]_vars PROVE TypeOK'
  OBVIOUS
<1> USE LeaseAssumption
<1>1. ASSUME NEW t \in Turns, Enter(t) PROVE TypeOK'
  BY <1>1 DEF Enter, TypeOK, Goto, leaseVars, turnVars, Inside, Ended
<1>2. ASSUME NEW t \in Turns, GiveUpWaiting(t) PROVE TypeOK'
  BY <1>2 DEF GiveUpWaiting, TypeOK, Goto, leaseVars, turnVars, Inside, Ended
<1>3. ASSUME NEW t \in Turns, Acquire(t) PROVE TypeOK'
  BY <1>3 DEF Acquire, TypeOK, Goto, leaseVars, turnVars, Inside, Ended, Lease, Available
<1>4. ASSUME NEW t \in Turns, AcquireRefused(t) PROVE TypeOK'
  BY <1>4 DEF AcquireRefused, TypeOK, Goto, leaseVars, turnVars, Inside, Ended
<1>5. ASSUME NEW t \in Turns, DeleteExpired(t) PROVE TypeOK'
  BY <1>5 DEF DeleteExpired, TypeOK, Goto, leaseVars, turnVars, Inside, Ended, Available
<1>6. ASSUME NEW t \in Turns, TakeToken(t) PROVE TypeOK'
  BY <1>6 DEF TakeToken, TypeOK, Goto, leaseVars, turnVars, Inside, Ended
<1>7. ASSUME NEW t \in Turns, InsertLease(t) PROVE TypeOK'
  BY <1>7 DEF InsertLease, TypeOK, Goto, leaseVars, turnVars, Inside, Ended, Lease
<1>8. ASSUME NEW t \in Turns, InsertRefused(t) PROVE TypeOK'
  BY <1>8 DEF InsertRefused, TypeOK, Goto, leaseVars, turnVars, Inside, Ended
<1>9. ASSUME NEW t \in Turns, Read(t) PROVE TypeOK'
  BY <1>9 DEF Read, TypeOK, Goto, leaseVars, turnVars, Inside, Ended
<1>10. ASSUME NEW t \in Turns, BeginWrite(t) PROVE TypeOK'
  BY <1>10 DEF BeginWrite, TypeOK, Goto, leaseVars, turnVars, Inside, Ended, AssertValid
<1>11. ASSUME NEW t \in Turns, PlainWrite(t) PROVE TypeOK'
  <2>1. Checkpoint(t) \in WriteRow
    BY DEF Checkpoint, WriteRow, Owns, TypeOK
  <2>2. written' \in Seq(WriteRow) /\ Len(written') = Len(written) + 1 /\ Len(written) \in Nat
    BY <1>11, <2>1, AppendRow DEF PlainWrite, TypeOK, WriteRow
  <2>3. base' \in [Turns -> 0 .. Len(written')]
    BY <1>11, <2>2 DEF PlainWrite, TypeOK
  <2>4. QED
    BY <1>11, <2>2, <2>3 DEF PlainWrite, TypeOK, WriteRow, Goto, leaseVars, Inside, Ended
<1>12. ASSUME NEW t \in Turns, FinishWrite(t) PROVE TypeOK'
  BY <1>12 DEF FinishWrite, TypeOK, Goto, leaseVars, turnVars, Inside, Ended, AssertValid
<1>13. ASSUME NEW t \in Turns, Guard(t) PROVE TypeOK'
  BY <1>13 DEF Guard, TypeOK, Goto, leaseVars, turnVars, Inside, Ended
<1>14. ASSUME NEW t \in Turns, GuardedWrite(t) PROVE TypeOK'
  <2>1. Checkpoint(t) \in WriteRow
    BY DEF Checkpoint, WriteRow, Owns, TypeOK
  <2>2. written' \in Seq(WriteRow) /\ Len(written') = Len(written) + 1 /\ Len(written) \in Nat
    BY <1>14, <2>1, AppendRow DEF GuardedWrite, TypeOK, WriteRow
  <2>3. base' \in [Turns -> 0 .. Len(written')]
    BY <1>14, <2>2 DEF GuardedWrite, TypeOK
  <2>4. QED
    BY <1>14, <2>2, <2>3 DEF GuardedWrite, TypeOK, WriteRow, Goto, leaseVars, Inside, Ended
<1>15. ASSUME NEW t \in Turns, Finish(t) PROVE TypeOK'
  BY <1>15 DEF Finish, TypeOK, Goto, leaseVars, turnVars, Inside, Ended, AssertValid
<1>16. ASSUME NEW t \in Turns, Close(t) PROVE TypeOK'
  BY <1>16 DEF Close, TypeOK, Goto, leaseVars, turnVars, Inside, Ended
<1>17. ASSUME NEW t \in Turns, Raise(t) PROVE TypeOK'
  BY <1>17 DEF Raise, TypeOK, Goto, leaseVars, turnVars, Inside, Ended
<1>18. ASSUME NEW t \in Turns, Renew(t) PROVE TypeOK'
  BY <1>18, RenewEffect DEF Renew, turnVars, TypeOK
<1>19. ASSUME NEW t \in Turns, RenewalFails(t) PROVE TypeOK'
  BY <1>19 DEF RenewalFails, TypeOK, Goto, leaseVars, turnVars, Inside, Ended
<1>20. ASSUME Tick PROVE TypeOK'
  BY <1>20, TickEffect DEF Tick, turnVars, TypeOK
<1>21. ASSUME NEW p \in Processes, Crash(p) PROVE TypeOK'
  BY <1>21 DEF Crash, TypeOK, Goto, leaseVars, turnVars, Inside, Ended
<1>22. ASSUME UNCHANGED vars PROVE TypeOK'
  BY <1>22 DEF vars, TypeOK, Goto, leaseVars, turnVars, Inside, Ended
<1>23. ASSUME NEW t \in Turns, AcquireFails(t) PROVE TypeOK'
  BY <1>23 DEF AcquireFails, TypeOK, Goto, leaseVars, turnVars, Inside, Ended
<1>24. ASSUME NEW t \in Turns, CloseFails(t) PROVE TypeOK'
  BY <1>24 DEF CloseFails, TypeOK, Goto, leaseVars, turnVars, Inside, Ended
<1>25. QED
  BY <1>1, <1>2, <1>3, <1>4, <1>5, <1>6, <1>7, <1>8, <1>9, <1>10, <1>11,
     <1>12, <1>13, <1>14, <1>15, <1>16, <1>17, <1>18, <1>19, <1>20, <1>21, <1>22, <1>23, <1>24
     DEF Next, TurnStep

-----------------------------------------------------------------------------
(* Row locks exclude one another and keep the lease as they found it. *)
LEMMA LockStep == TypeOK /\ LockInv /\ Next => LockInv'
<1> SUFFICES ASSUME TypeOK /\ LockInv, Next PROVE LockInv'
  OBVIOUS
<1> USE LeaseAssumption DEF Ended, Inside
<1>1. ASSUME NEW t \in Turns, Enter(t) PROVE LockInv'
  BY <1>1 DEF Enter, LockInv, Locks, Goto, TypeOK, Owns, Valid, leaseVars, turnVars
<1>2. ASSUME NEW t \in Turns, GiveUpWaiting(t) PROVE LockInv'
  BY <1>2 DEF GiveUpWaiting, LockInv, Locks, Goto, TypeOK, Owns, Valid, leaseVars, turnVars
<1>3. ASSUME NEW t \in Turns, Acquire(t) PROVE LockInv'
  BY <1>3 DEF Acquire, LockInv, Locks, Goto, TypeOK, Owns, Valid, leaseVars, turnVars
<1>4. ASSUME NEW t \in Turns, AcquireRefused(t) PROVE LockInv'
  BY <1>4 DEF AcquireRefused, LockInv, Locks, Goto, TypeOK, Owns, Valid, leaseVars, turnVars
<1>5. ASSUME NEW t \in Turns, DeleteExpired(t) PROVE LockInv'
  <2>1. \A u \in Turns \ {t} : pc'[u] = pc[u] /\ deleted'[u] = deleted[u] /\ ~Locks(u)
    BY <1>5 DEF DeleteExpired, RowIsFree, Goto, TypeOK
  <2>2. pc'[t] = "token" /\ deleted'[t] = (row # None /\ row.left = 0)
    BY <1>5 DEF DeleteExpired, Available, Goto, TypeOK
  <2>3. backend = "postgres" /\ UNCHANGED <<backend, row, token>>
    BY <1>5 DEF DeleteExpired, leaseVars
  <2>4. \A u \in Turns : Locks(u)' => u = t
    BY <2>1, <2>3 DEF Locks
  <2>5. QED
    BY <2>1, <2>2, <2>3, <2>4 DEF LockInv, Owns
<1>6. ASSUME NEW t \in Turns, TakeToken(t) PROVE LockInv'
  <2>1. \A u \in Turns : Locks(u)' <=> Locks(u)
    BY <1>6 DEF TakeToken, Locks, Goto, TypeOK
  <2>2. \A u \in Turns \ {t} : pc'[u] = pc[u] /\ token'[u] = token[u]
    BY <1>6 DEF TakeToken, Goto, TypeOK
  <2>3. pc[t] = "token" /\ pc'[t] = "insert" /\ UNCHANGED <<row, deleted, backend>>
    BY <1>6 DEF TakeToken, Goto, TypeOK
  <2>4. QED
    BY <2>1, <2>2, <2>3 DEF LockInv, Owns
<1>7. ASSUME NEW t \in Turns, InsertLease(t) PROVE LockInv'
  BY <1>7 DEF InsertLease, Lease, LockInv, Locks, Goto, TypeOK, Owns, Valid, leaseVars, turnVars
<1>8. ASSUME NEW t \in Turns, InsertRefused(t) PROVE LockInv'
  BY <1>8 DEF InsertRefused, LockInv, Locks, Goto, TypeOK, Owns, Valid, leaseVars, turnVars
<1>9. ASSUME NEW t \in Turns, Read(t) PROVE LockInv'
  BY <1>9 DEF Read, LockInv, Locks, Goto, TypeOK, Owns, Valid, leaseVars, turnVars
<1>10. ASSUME NEW t \in Turns, BeginWrite(t) PROVE LockInv'
  BY <1>10 DEF BeginWrite, AssertValid, LockInv, Locks, Goto, TypeOK, Owns, Valid, leaseVars,
     turnVars
<1>11. ASSUME NEW t \in Turns, PlainWrite(t) PROVE LockInv'
  BY <1>11 DEF PlainWrite, LockInv, Locks, Goto, TypeOK, Owns, Valid, leaseVars, turnVars
<1>12. ASSUME NEW t \in Turns, FinishWrite(t) PROVE LockInv'
  BY <1>12 DEF FinishWrite, AssertValid, LockInv, Locks, Goto, TypeOK, Owns, Valid, leaseVars,
     turnVars
<1>13. ASSUME NEW t \in Turns, Guard(t) PROVE LockInv'
  BY <1>13 DEF Guard, RowIsFree, LockInv, Locks, Goto, TypeOK, Owns, Valid, leaseVars, turnVars
<1>14. ASSUME NEW t \in Turns, GuardedWrite(t) PROVE LockInv'
  BY <1>14 DEF GuardedWrite, LockInv, Locks, Goto, TypeOK, Owns, Valid, leaseVars, turnVars
<1>15. ASSUME NEW t \in Turns, Finish(t) PROVE LockInv'
  BY <1>15 DEF Finish, AssertValid, LockInv, Locks, Goto, TypeOK, Owns, Valid, leaseVars, turnVars
<1>16. ASSUME NEW t \in Turns, Close(t) PROVE LockInv'
  BY <1>16 DEF Close, RowIsFree, LockInv, Locks, Goto, TypeOK, Owns, Valid, leaseVars, turnVars
<1>17. ASSUME NEW t \in Turns, Raise(t) PROVE LockInv'
  BY <1>17 DEF Raise, LockInv, Locks, Goto, TypeOK, Owns, Valid, leaseVars, turnVars
<1>18. ASSUME NEW t \in Turns, Renew(t) PROVE LockInv'
  BY <1>18 DEF Renew, LockInv, Locks, Goto, TypeOK, Owns, Valid, leaseVars, turnVars
<1>19. ASSUME NEW t \in Turns, RenewalFails(t) PROVE LockInv'
  BY <1>19 DEF RenewalFails, LockInv, Locks, Goto, TypeOK, Owns, Valid, leaseVars, turnVars
<1>20. ASSUME Tick PROVE LockInv'
  <2>1. \A u \in Turns : pc[u] \in {"token", "insert"} => ~deleted[u]
    BY <1>20, TickEffect DEF LockInv, TypeOK
  <2>2. QED
    BY <1>20, <2>1, TickEffect DEF Tick, turnVars, LockInv, Locks, Owns
<1>21. ASSUME NEW p \in Processes, Crash(p) PROVE LockInv'
  BY <1>21 DEF Crash, LockInv, Locks, Goto, TypeOK, Owns, Valid, leaseVars, turnVars
<1>22. ASSUME NEW t \in Turns, AcquireFails(t) PROVE LockInv'
  BY <1>22 DEF AcquireFails, LockInv, Locks, Goto, TypeOK, Owns, Valid, leaseVars, turnVars
<1>23. ASSUME NEW t \in Turns, CloseFails(t) PROVE LockInv'
  BY <1>23 DEF CloseFails, LockInv, Locks, Goto, TypeOK, Owns, Valid, leaseVars, turnVars
<1>24. QED
  BY <1>1, <1>2, <1>3, <1>4, <1>5, <1>6, <1>7, <1>8, <1>9, <1>10, <1>11,
     <1>12, <1>13, <1>14, <1>15, <1>16, <1>17, <1>18, <1>19, <1>20, <1>21, <1>22, <1>23
     DEF Next, TurnStep

-----------------------------------------------------------------------------
(* The owner of the lease stays alone with what it read and wrote. *)
LEMMA TailStep == TypeOK /\ LockInv /\ TailInv /\ Next => TailInv'
<1> SUFFICES ASSUME TypeOK /\ LockInv /\ TailInv, Next PROVE TailInv'
  OBVIOUS
<1> USE DEF Writing
<1>1. ASSUME NEW t \in Turns, Enter(t) PROVE TailInv'
  BY <1>1 DEF Enter, TailInv, Owns, Goto, TypeOK, leaseVars, turnVars
<1>2. ASSUME NEW t \in Turns, GiveUpWaiting(t) PROVE TailInv'
  BY <1>2 DEF GiveUpWaiting, TailInv, Owns, Goto, TypeOK, leaseVars, turnVars
<1>3. ASSUME NEW t \in Turns, Acquire(t) PROVE TailInv'
  BY <1>3 DEF Acquire, Lease, TailInv, Owns, Goto, TypeOK, leaseVars, turnVars
<1>4. ASSUME NEW t \in Turns, AcquireRefused(t) PROVE TailInv'
  BY <1>4 DEF AcquireRefused, TailInv, Owns, Goto, TypeOK, leaseVars, turnVars
<1>5. ASSUME NEW t \in Turns, DeleteExpired(t) PROVE TailInv'
  BY <1>5 DEF DeleteExpired, TailInv, Owns, Goto, TypeOK, leaseVars, turnVars
<1>6. ASSUME NEW t \in Turns, TakeToken(t) PROVE TailInv'
  BY <1>6 DEF TakeToken, TailInv, Owns, Goto, TypeOK, leaseVars, turnVars
<1>7. ASSUME NEW t \in Turns, InsertLease(t) PROVE TailInv'
  BY <1>7 DEF InsertLease, Lease, TailInv, Owns, Goto, TypeOK, leaseVars, turnVars
<1>8. ASSUME NEW t \in Turns, InsertRefused(t) PROVE TailInv'
  BY <1>8 DEF InsertRefused, TailInv, Owns, Goto, TypeOK, leaseVars, turnVars
<1>9. ASSUME NEW t \in Turns, Read(t) PROVE TailInv'
  <2>1. \A u \in Turns \ {t} : pc'[u] = pc[u] /\ base'[u] = base[u]
    BY <1>9 DEF Read, Goto, TypeOK
  <2>2. base'[t] = Len(written) /\ Len(written) \in Nat
        /\ UNCHANGED <<backend, row, token, written>>
    BY <1>9 DEF Read, leaseVars, TypeOK
  <2>3. QED
    <3> SUFFICES ASSUME backend' = "postgres", NEW u \in Turns, pc'[u] \in Writing, Owns(u)',
                        NEW j \in base'[u] + 1 .. Len(written')
                 PROVE  written'[j].turn = u
      BY DEF TailInv
    <3>1. u # t
      BY <2>2
    <3>2. QED
      BY <2>1, <2>2, <3>1 DEF TailInv, Owns
<1>10. ASSUME NEW t \in Turns, BeginWrite(t) PROVE TailInv'
  BY <1>10 DEF BeginWrite, AssertValid, TailInv, Owns, Goto, TypeOK, leaseVars, turnVars
<1>11. ASSUME NEW t \in Turns, PlainWrite(t) PROVE TailInv'
  BY <1>11 DEF PlainWrite, TailInv, Owns, Goto, TypeOK, leaseVars, turnVars
<1>12. ASSUME NEW t \in Turns, FinishWrite(t) PROVE TailInv'
  BY <1>12 DEF FinishWrite, AssertValid, TailInv, Owns, Goto, TypeOK, leaseVars, turnVars
<1>13. ASSUME NEW t \in Turns, Guard(t) PROVE TailInv'
  BY <1>13 DEF Guard, TailInv, Owns, Goto, TypeOK, leaseVars, turnVars
<1>14. ASSUME NEW t \in Turns, GuardedWrite(t) PROVE TailInv'
  <2>1. /\ Len(written) \in Nat /\ Len(written') = Len(written) + 1
        /\ \A i \in 1 .. Len(written) : written'[i] = written[i]
        /\ written'[Len(written) + 1].turn = t
    <3>1. Checkpoint(t) \in WriteRow
      BY DEF Checkpoint, WriteRow, Owns, TypeOK
    <3>2. QED
      BY <1>14, <3>1, AppendRow DEF GuardedWrite, TypeOK, WriteRow, Checkpoint
  <2>2. Owns(t) /\ pc[t] \in Writing /\ UNCHANGED <<backend, row, token, base>>
    BY <1>14 DEF GuardedWrite, LockInv, leaseVars
  <2>3. \A u \in Turns : Owns(u)' => u = t
    BY <2>2 DEF Owns
  <2>4. QED
    <3> SUFFICES ASSUME backend' = "postgres", NEW u \in Turns, pc'[u] \in Writing, Owns(u)',
                        NEW j \in base'[u] + 1 .. Len(written')
                 PROVE  written'[j].turn = u
      BY DEF TailInv
    <3>1. u = t /\ base[t] \in Nat
      BY <2>3, <2>1 DEF TypeOK
    <3>2. CASE j = Len(written) + 1
      BY <2>1, <3>1, <3>2
    <3>3. CASE j # Len(written) + 1
      <4>1. j \in base[t] + 1 .. Len(written)
        BY <2>1, <2>2, <3>1, <3>3
      <4>2. QED
        BY <2>1, <2>2, <3>1, <4>1 DEF TailInv
    <3>4. QED
      BY <3>2, <3>3
<1>15. ASSUME NEW t \in Turns, Finish(t) PROVE TailInv'
  BY <1>15 DEF Finish, AssertValid, TailInv, Owns, Goto, TypeOK, leaseVars, turnVars
<1>16. ASSUME NEW t \in Turns, Close(t) PROVE TailInv'
  BY <1>16 DEF Close, TailInv, Owns, Goto, TypeOK, leaseVars, turnVars
<1>17. ASSUME NEW t \in Turns, Raise(t) PROVE TailInv'
  BY <1>17 DEF Raise, TailInv, Owns, Goto, TypeOK, leaseVars, turnVars
<1>18. ASSUME NEW t \in Turns, Renew(t) PROVE TailInv'
  BY <1>18, RenewEffect DEF Renew, TailInv, Owns, Goto, TypeOK, leaseVars, turnVars
<1>19. ASSUME NEW t \in Turns, RenewalFails(t) PROVE TailInv'
  BY <1>19 DEF RenewalFails, TailInv, Owns, Goto, TypeOK, leaseVars, turnVars
<1>20. ASSUME Tick PROVE TailInv'
  BY <1>20, TickEffect DEF Tick, TailInv, Owns, Goto, TypeOK, leaseVars, turnVars
<1>21. ASSUME NEW p \in Processes, Crash(p) PROVE TailInv'
  BY <1>21 DEF Crash, TailInv, Owns, Goto, TypeOK, leaseVars, turnVars
<1>22. ASSUME NEW t \in Turns, AcquireFails(t) PROVE TailInv'
  BY <1>22 DEF AcquireFails, TailInv, Owns, Goto, TypeOK, leaseVars, turnVars
<1>23. ASSUME NEW t \in Turns, CloseFails(t) PROVE TailInv'
  BY <1>23 DEF CloseFails, TailInv, Owns, Goto, TypeOK, leaseVars, turnVars
<1>24. QED
  BY <1>1, <1>2, <1>3, <1>4, <1>5, <1>6, <1>7, <1>8, <1>9, <1>10, <1>11,
     <1>12, <1>13, <1>14, <1>15, <1>16, <1>17, <1>18, <1>19, <1>20, <1>21, <1>22, <1>23
     DEF Next, TurnStep

-----------------------------------------------------------------------------
Before == {"new", "acquire", "token", "insert"}

Progress(u) ==
  /\ pc[u] \notin Before => pc'[u] \notin Before /\ (Owns(u)' => Owns(u))
  /\ pc'[u] \in {"closing", "done"} => pc[u] \in {"closing", "done"} \/ Owns(u)

(* Whoever has had the lease and lost it never owns it again, and only an owner finishes. *)
LEMMA TurnProgress == ASSUME TypeOK, Next, NEW u \in Turns PROVE Progress(u)
<1> USE DEF Before
<1>1. ASSUME NEW t \in Turns, Enter(t) PROVE Progress(u)
  BY <1>1 DEF Enter, Progress, Owns, Goto, TypeOK, leaseVars, turnVars
<1>2. ASSUME NEW t \in Turns, GiveUpWaiting(t) PROVE Progress(u)
  BY <1>2 DEF GiveUpWaiting, Progress, Owns, Goto, TypeOK, leaseVars, turnVars
<1>3. ASSUME NEW t \in Turns, Acquire(t) PROVE Progress(u)
  BY <1>3 DEF Acquire, Lease, Progress, Owns, Goto, TypeOK, leaseVars, turnVars
<1>4. ASSUME NEW t \in Turns, AcquireRefused(t) PROVE Progress(u)
  BY <1>4 DEF AcquireRefused, Progress, Owns, Goto, TypeOK, leaseVars, turnVars
<1>5. ASSUME NEW t \in Turns, DeleteExpired(t) PROVE Progress(u)
  BY <1>5 DEF DeleteExpired, Progress, Owns, Goto, TypeOK, leaseVars, turnVars
<1>6. ASSUME NEW t \in Turns, TakeToken(t) PROVE Progress(u)
  BY <1>6 DEF TakeToken, Progress, Owns, Goto, TypeOK, leaseVars, turnVars
<1>7. ASSUME NEW t \in Turns, InsertLease(t) PROVE Progress(u)
  BY <1>7 DEF InsertLease, Lease, Progress, Owns, Goto, TypeOK, leaseVars, turnVars
<1>8. ASSUME NEW t \in Turns, InsertRefused(t) PROVE Progress(u)
  BY <1>8 DEF InsertRefused, Progress, Owns, Goto, TypeOK, leaseVars, turnVars
<1>9. ASSUME NEW t \in Turns, Read(t) PROVE Progress(u)
  BY <1>9 DEF Read, Progress, Owns, Goto, TypeOK, leaseVars, turnVars
<1>10. ASSUME NEW t \in Turns, BeginWrite(t) PROVE Progress(u)
  BY <1>10 DEF BeginWrite, AssertValid, Progress, Owns, Goto, TypeOK, leaseVars, turnVars
<1>11. ASSUME NEW t \in Turns, PlainWrite(t) PROVE Progress(u)
  BY <1>11 DEF PlainWrite, Progress, Owns, Goto, TypeOK, leaseVars, turnVars
<1>12. ASSUME NEW t \in Turns, FinishWrite(t) PROVE Progress(u)
  BY <1>12 DEF FinishWrite, AssertValid, Progress, Owns, Goto, TypeOK, leaseVars, turnVars
<1>13. ASSUME NEW t \in Turns, Guard(t) PROVE Progress(u)
  BY <1>13 DEF Guard, Progress, Owns, Goto, TypeOK, leaseVars, turnVars
<1>14. ASSUME NEW t \in Turns, GuardedWrite(t) PROVE Progress(u)
  BY <1>14 DEF GuardedWrite, Progress, Owns, Goto, TypeOK, leaseVars, turnVars
<1>15. ASSUME NEW t \in Turns, Finish(t) PROVE Progress(u)
  BY <1>15 DEF Finish, AssertValid, Valid, Progress, Owns, Goto, TypeOK, leaseVars, turnVars
<1>16. ASSUME NEW t \in Turns, Close(t) PROVE Progress(u)
  BY <1>16 DEF Close, Progress, Owns, Goto, TypeOK, leaseVars, turnVars
<1>17. ASSUME NEW t \in Turns, Raise(t) PROVE Progress(u)
  BY <1>17 DEF Raise, Progress, Owns, Goto, TypeOK, leaseVars, turnVars
<1>18. ASSUME NEW t \in Turns, Renew(t) PROVE Progress(u)
  BY <1>18, RenewEffect DEF Renew, Progress, Owns, Goto, TypeOK, leaseVars, turnVars
<1>19. ASSUME NEW t \in Turns, RenewalFails(t) PROVE Progress(u)
  BY <1>19 DEF RenewalFails, Progress, Owns, Goto, TypeOK, leaseVars, turnVars
<1>20. ASSUME Tick PROVE Progress(u)
  BY <1>20, TickEffect DEF Tick, Progress, Owns, Goto, TypeOK, leaseVars, turnVars
<1>21. ASSUME NEW p \in Processes, Crash(p) PROVE Progress(u)
  BY <1>21 DEF Crash, Progress, Owns, Goto, TypeOK, leaseVars, turnVars
<1>22. ASSUME NEW t \in Turns, AcquireFails(t) PROVE Progress(u)
  BY <1>22 DEF AcquireFails, Progress, Owns, Goto, TypeOK, leaseVars, turnVars
<1>23. ASSUME NEW t \in Turns, CloseFails(t) PROVE Progress(u)
  BY <1>23 DEF CloseFails, Progress, Owns, Goto, TypeOK, leaseVars, turnVars
<1>24. QED
  BY <1>1, <1>2, <1>3, <1>4, <1>5, <1>6, <1>7, <1>8, <1>9, <1>10, <1>11,
     <1>12, <1>13, <1>14, <1>15, <1>16, <1>17, <1>18, <1>19, <1>20, <1>21, <1>22, <1>23
     DEF Next, TurnStep

(* Checkpoints are only added, one at a time, by PlainWrite and GuardedWrite. *)
Wrote(t) ==
  /\ Len(written) \in Nat /\ Len(written') = Len(written) + 1
  /\ \A i \in 1 .. Len(written) : written'[i] = written[i]
  /\ written'[Len(written) + 1] = Checkpoint(t)
  /\ UNCHANGED <<backend, row, token, base>>
  /\ \/ backend = "sqlite" /\ pc[t] = "checked" /\ pc'[t] = "wrote"
     \/ pc[t] = "guarded" /\ pc'[t] = "work"

LEMMA WriteEffect ==
  ASSUME TypeOK, NEW t \in Turns, PlainWrite(t) \/ GuardedWrite(t)
  PROVE  Wrote(t)
<1>1. Checkpoint(t) \in WriteRow
  BY DEF Checkpoint, WriteRow, Owns, TypeOK
<1>2. written' = Append(written, Checkpoint(t)) /\ written \in Seq(WriteRow)
  BY DEF PlainWrite, GuardedWrite, TypeOK, WriteRow
<1>3. /\ Len(written) \in Nat /\ Len(written') = Len(written) + 1
      /\ \A i \in 1 .. Len(written) : written'[i] = written[i]
      /\ written'[Len(written) + 1] = Checkpoint(t)
  BY <1>1, <1>2, AppendRow
<1>4. QED
  BY <1>3 DEF PlainWrite, GuardedWrite, Wrote, leaseVars, Goto, TypeOK

LEMMA Writes ==
  ASSUME TypeOK, Next
  PROVE  UNCHANGED backend /\ (UNCHANGED <<written>> \/ \E t \in Turns : Wrote(t))
<1>1. CASE \E t \in Turns : PlainWrite(t) \/ GuardedWrite(t)
  BY <1>1, WriteEffect DEF Wrote
<1>2. CASE ~\E t \in Turns : PlainWrite(t) \/ GuardedWrite(t)
  BY <1>2 DEF Next, TurnStep, leaseVars, turnVars, Enter, GiveUpWaiting, Acquire,
       AcquireRefused, DeleteExpired, TakeToken, InsertLease, InsertRefused, Read,
       BeginWrite, FinishWrite, Guard, Finish, AssertValid, Close, Raise, Renew,
       AcquireFails, CloseFails, RenewalFails, Tick, Crash
<1>3. QED
  BY <1>1, <1>2

-----------------------------------------------------------------------------
(* A checkpoint is never added between what a turn has read and what it writes. *)
LEMMA BuildStep ==
  TypeOK /\ LockInv /\ TailInv /\ CheckpointsBuildOnTheLast /\ Next
    => CheckpointsBuildOnTheLast'
<1> SUFFICES ASSUME TypeOK, LockInv, TailInv, CheckpointsBuildOnTheLast, Next
             PROVE  CheckpointsBuildOnTheLast'
  OBVIOUS
<1>1. CASE UNCHANGED written
  BY <1>1, Writes DEF CheckpointsBuildOnTheLast
<1>2. ASSUME NEW t \in Turns, Wrote(t) PROVE CheckpointsBuildOnTheLast'
  <2> SUFFICES ASSUME backend' = "postgres", NEW i \in 1 .. Len(written'),
                      NEW j \in written'[i].base + 1 .. i
               PROVE  written'[j].turn = written'[i].turn
    BY DEF CheckpointsBuildOnTheLast
  <2>1. backend = "postgres" /\ pc[t] = "guarded" /\ Owns(t)
    BY <1>2 DEF Wrote, LockInv
  <2>2. CASE i = Len(written) + 1
    <3>1. written'[i].base = base[t] /\ written'[i].turn = t
      BY <1>2, <2>2 DEF Wrote, Checkpoint
    <3>2. base[t] \in Nat
      BY <1>2 DEF Wrote, TypeOK
    <3>3. CASE j = i
      BY <3>3
    <3>4. CASE j # i
      <4>1. j \in base[t] + 1 .. Len(written) /\ j \in 1 .. Len(written)
        BY <1>2, <2>2, <3>1, <3>2, <3>4 DEF Wrote
      <4>2. written[j].turn = t
        BY <2>1, <4>1 DEF TailInv, Writing
      <4>3. QED
        BY <1>2, <3>1, <4>1, <4>2 DEF Wrote
    <3>5. QED
      BY <3>3, <3>4
  <2>3. CASE i # Len(written) + 1
    <3>1. i \in 1 .. Len(written) /\ written'[i] = written[i]
      BY <1>2, <2>3 DEF Wrote
    <3>2. written[i].base \in Nat
      BY <3>1, RowTypes
    <3>3. j \in 1 .. Len(written) /\ written'[j] = written[j]
      BY <1>2, <3>1, <3>2 DEF Wrote
    <3>4. QED
      BY <2>1, <3>1, <3>3 DEF CheckpointsBuildOnTheLast
  <2>4. QED
    BY <2>2, <2>3
<1>3. QED
  BY <1>1, <1>2, Writes

(* Who may have written, and what a checkpoint outside the lease says. *)
LEMMA OwnedStep ==
  TypeOK /\ OwnedInv /\ FinishedTurnsOwnedTheirWrites /\ Next
    => OwnedInv' /\ FinishedTurnsOwnedTheirWrites'
<1> SUFFICES ASSUME TypeOK, OwnedInv, FinishedTurnsOwnedTheirWrites, Next
             PROVE  OwnedInv' /\ FinishedTurnsOwnedTheirWrites'
  OBVIOUS
<1>1. ASSUME NEW i \in 1 .. Len(written), written'[i] = written[i]
      PROVE  /\ pc'[written'[i].turn] \notin Before
             /\ (~written[i].owned => ~Owns(written[i].turn))'
             /\ pc'[written'[i].turn] \in {"closing", "done"} => written'[i].owned
  <2>1. written[i].turn \in Turns
    BY RowTypes
  <2>2. pc[written[i].turn] \notin Before /\ (~written[i].owned => ~Owns(written[i].turn))
    BY DEF OwnedInv, Before
  <2>3. Progress(written[i].turn)
    BY <2>1, TurnProgress
  <2>4. QED
    BY <1>1, <2>2, <2>3 DEF Progress, FinishedTurnsOwnedTheirWrites, Owns
<1>2. CASE UNCHANGED written
  BY <1>1, <1>2 DEF OwnedInv, FinishedTurnsOwnedTheirWrites, Before
<1>3. ASSUME NEW t \in Turns, Wrote(t) PROVE OwnedInv' /\ FinishedTurnsOwnedTheirWrites'
  <2> DEFINE n == Len(written) + 1
  <2>1. /\ pc'[written'[n].turn] \notin Before \cup {"closing", "done"}
        /\ ~written'[n].owned => ~(row' # None /\ row'.owner = written'[n].turn
                                    /\ row'.token = token'[written'[n].turn])
    <3>1. written'[n] = Checkpoint(t)
      BY <1>3 DEF Wrote
    <3>2. Checkpoint(t).turn = t /\ (Checkpoint(t).owned <=> Owns(t))
      BY DEF Checkpoint
    <3>3. pc'[t] \in {"wrote", "work"} /\ (Owns(t)' <=> Owns(t))
      BY <1>3 DEF Wrote, Owns
    <3>4. QED
      BY <3>1, <3>2, <3>3 DEF Before, Owns
  <2>2. \A i \in 1 .. Len(written') : i = n \/ i \in 1 .. Len(written)
    BY <1>3 DEF Wrote
  <2>3. \A i \in 1 .. Len(written) : written'[i] = written[i]
    BY <1>3 DEF Wrote
  <2>4. OwnedInv'
    BY <1>1, <2>1, <2>2, <2>3 DEF OwnedInv, Before, Owns
  <2>5. FinishedTurnsOwnedTheirWrites'
    BY <1>1, <2>1, <2>2, <2>3 DEF FinishedTurnsOwnedTheirWrites
  <2>6. QED
    BY <2>4, <2>5
<1>4. QED
  BY <1>2, <1>3, Writes

-----------------------------------------------------------------------------
(* The lease changes when it is acquired, renewed, released or grows older. *)
LEMMA LeaseSteps ==
  ASSUME TypeOK, Next
  PROVE  \/ UNCHANGED row
         \/ \E t \in Turns : Acquire(t) \/ InsertLease(t) \/ Close(t) \/ Renew(t)
         \/ Tick
BY DEF Next, TurnStep, leaseVars, turnVars, Enter, GiveUpWaiting, AcquireRefused,
       DeleteExpired, TakeToken, InsertRefused, Read, BeginWrite, PlainWrite, FinishWrite,
       Guard, GuardedWrite, Finish, AssertValid, Raise, AcquireFails, CloseFails,
       RenewalFails, Crash

(* A lease somebody else might insert is one that has expired. *)
LEMMA InsertEffect ==
  ASSUME LockInv, NEW t \in Turns, InsertLease(t)
  PROVE  /\ backend = "postgres" /\ UNCHANGED <<backend, written>>
         /\ Available
         /\ row' = Lease(t, token[t], Ttl)
  BY DEF InsertLease, LockInv, Available

(* A change of hands comes with a token above every token a turn has. *)
LEMMA TokenStep ==
  ASSUME TypeOK, LockInv, Next, backend = "sqlite", row' # None,
         row = None \/ row'.owner # row.owner, NEW u \in Turns
  PROVE  token[u] < row'.token
<1>1. PICK t \in Turns : Acquire(t)
  <2>1. row # row'
    OBVIOUS
  <2>2. ~Tick
    BY TickEffect
  <2>3. \A t \in Turns : ~Renew(t) /\ ~InsertLease(t) /\ ~Close(t)
    BY RenewEffect, InsertEffect DEF Close
  <2>4. QED
    BY <2>1, <2>2, <2>3, LeaseSteps
<1>2. row'.token = tokens + 1
  BY <1>1 DEF Acquire, Lease
<1>3. token[u] \in 0 .. tokens /\ tokens \in Nat
  BY DEF TypeOK
<1>4. QED
  BY <1>2, <1>3

(* Only its own turn ends a lease that has time left, by closing. *)
LEMMA EndStep ==
  ASSUME TypeOK, LockInv, Next, NEW u \in Turns, Valid(u), row' # None => row'.owner # u
  PROVE  pc[u] \in {"closing", "raised"} /\ pc'[u] \in Ended
<1>1. /\ row # None /\ row.owner = u /\ row.left > 0
      /\ row \in [owner : Turns, token : 0 .. tokens, left : 0 .. Ttl]
  BY DEF Valid, Owns, TypeOK
<1>2. ~Available
  BY <1>1 DEF Available
<1>3. PICK t \in Turns : Close(t)
  <2>1. row' # row /\ ~Tick
    BY <1>1, TickEffect
  <2>2. \A t \in Turns : ~Renew(t) /\ ~InsertLease(t) /\ ~Acquire(t)
    BY <1>1, <1>2, RenewEffect, InsertEffect DEF Acquire
  <2>3. QED
    BY <2>1, <2>2, LeaseSteps
<1>4. t = u
  BY <1>1, <1>3 DEF Close, Owns
<1>5. QED
  BY <1>3, <1>4 DEF Close, Goto, TypeOK, Ended

-----------------------------------------------------------------------------
(* The register of turns *)

\* The register's log, here.
authors == [i \in 1 .. Len(written) |-> written[i].turn]

(* A checkpoint of turn t is an addition to the log. *)
LEMMA AuthorsGrow ==
  ASSUME TypeOK, NEW t \in Turns, Wrote(t)
  PROVE  authors' = Append(authors, t)
<1>1. authors \in Seq(Turns) /\ Len(authors) = Len(written)
  <2>1. \A i \in 1 .. Len(written) : written[i].turn \in Turns
    BY RowTypes
  <2>2. QED
    BY <2>1 DEF authors, Wrote
<1>2. authors' \in Seq(Turns) /\ Len(authors') = Len(authors) + 1
  <2>1. \A i \in 1 .. Len(written') : written'[i].turn \in Turns
    <3>1. \A i \in 1 .. Len(written') : i = Len(written) + 1 \/ i \in 1 .. Len(written)
      BY DEF Wrote
    <3>2. QED
      BY <3>1, RowTypes DEF Wrote, Checkpoint
  <2>2. QED
    BY <1>1, <2>1 DEF authors, Wrote
<1>3. ASSUME NEW i \in 1 .. Len(authors') PROVE authors'[i] = Append(authors, t)[i]
  <2>1. authors'[i] = written'[i].turn
    BY <1>1, <1>2 DEF authors, Wrote
  <2>2. CASE i = Len(authors) + 1
    BY <1>1, <2>1, <2>2 DEF Wrote, Checkpoint
  <2>3. CASE i # Len(authors) + 1
    <3>1. i \in 1 .. Len(written)
      BY <1>1, <1>2, <2>3
    <3>2. QED
      BY <1>1, <2>1, <3>1 DEF authors, Wrote
  <2>4. QED
    BY <2>2, <2>3
<1>4. Append(authors, t) \in Seq(Turns) /\ Len(Append(authors, t)) = Len(authors')
  BY <1>1, <1>2
<1>5. QED
  BY <1>2, <1>3, <1>4, SeqEqual

(* On PostgreSQL a step is a step of the register or none. *)
LEMMA RegisterStep ==
  ASSUME TypeOK, LockInv, Next, backend = "postgres"
  PROVE  Register!Next \/ UNCHANGED Register!vars
<1>1. CASE UNCHANGED <<row, written>>
  BY <1>1 DEF Register!vars
<1>2. ASSUME NEW t \in Turns, Wrote(t) PROVE Register!AddCheckpoint
  <2>1. pc[t] = "guarded" /\ UNCHANGED row
    BY <1>2 DEF Wrote
  <2>2. row # None /\ row.owner = t /\ t # None
    BY <2>1, LeaseAssumption DEF LockInv, Owns
  <2>3. authors' = Append(authors, t)
    BY <1>2, AuthorsGrow
  <2>4. QED
    BY <2>1, <2>2, <2>3 DEF Register!AddCheckpoint, authors
<1>3. ASSUME UNCHANGED written, row # row' PROVE Register!Next \/ UNCHANGED Register!vars
  <2>1. ASSUME NEW t \in Turns, InsertLease(t) PROVE Register!Open(t)
    <3>1. row' = Lease(t, token[t], Ttl)
      BY <2>1 DEF InsertLease
    <3>2. row' \in [owner : Turns, token : Nat, left : Nat] /\ row'.owner = t
      BY <3>1, LeaseAssumption DEF Lease, TypeOK
    <3>3. row' # None
      BY <3>2, LeaseAssumption
    <3>4. QED
      BY <1>3, <3>2, <3>3 DEF Register!Open
  <2>2. CASE Tick \/ \E t \in Turns : Renew(t)
    BY <1>3, <2>2, TickEffect, RenewEffect DEF Register!vars
  <2>3. CASE \E t \in Turns : Close(t)
    BY <1>3, <2>3 DEF Close, Register!Close, Register!Next
  <2>4. QED
    BY <1>3, <2>1, <2>2, <2>3, LeaseSteps DEF Acquire, Register!Next
<1>4. QED
  BY <1>1, <1>2, <1>3, Writes DEF Register!Next

-----------------------------------------------------------------------------
(* Theorems *)

LEMMA Inductive == IInv /\ [Next]_vars => IInv'
<1> SUFFICES ASSUME IInv, [Next]_vars PROVE IInv'
  OBVIOUS
<1>1. CASE Next
  <2>1. TypeOK' /\ LockInv' /\ TailInv'
    BY <1>1, TypeStep, LockStep, TailStep DEF IInv
  <2>2. OwnedInv' /\ FinishedTurnsOwnedTheirWrites' /\ CheckpointsBuildOnTheLast'
    BY <1>1, OwnedStep, BuildStep DEF IInv
  <2>3. QED
    BY <2>1, <2>2 DEF IInv
<1>2. CASE UNCHANGED vars
  <2>1. TypeOK' /\ LockInv'
    BY <1>2 DEF IInv, TypeOK, LockInv, Locks, Owns, vars, leaseVars, turnVars
  <2>2. TailInv' /\ OwnedInv'
    BY <1>2 DEF IInv, TailInv, OwnedInv, Owns, vars, leaseVars, turnVars
  <2>3. FinishedTurnsOwnedTheirWrites' /\ CheckpointsBuildOnTheLast'
    BY <1>2 DEF IInv, FinishedTurnsOwnedTheirWrites, CheckpointsBuildOnTheLast, vars,
                leaseVars, turnVars
  <2>4. QED
    BY <2>1, <2>2, <2>3 DEF IInv
<1>3. QED
  BY <1>1, <1>2

(* The inductive invariant of the lease: row locks, and what an owner has read. *)
THEOREM Invariance == Spec => []IInv
<1>1. QED
  BY InitInv, Inductive, PTL DEF Spec

(* The types of lease, tokens, turns and checkpoints. *)
THEOREM TypeCorrect == Spec => []TypeOK
<1>1. IInv => TypeOK
  BY DEF IInv
<1>2. QED
  BY <1>1, Invariance, PTL

(* Fencing on PostgreSQL: no checkpoint is written over another turn's that its *)
(* own turn has not read (AtomicallyFencedPostgresSaver).                       *)
THEOREM Fencing == Spec => []CheckpointsBuildOnTheLast
<1>1. IInv => CheckpointsBuildOnTheLast
  BY DEF IInv
<1>2. QED
  BY <1>1, Invariance, PTL

(* A turn that reports success owned the lease at each of its writes, on both *)
(* backends (FencedCheckpointer._finish_write, assert_valid at the end).      *)
THEOREM SuccessOwnsItsWrites == Spec => []FinishedTurnsOwnedTheirWrites
<1>1. IInv => FinishedTurnsOwnedTheirWrites
  BY DEF IInv
<1>2. QED
  BY <1>1, Invariance, PTL

(* Tokens grow with every change of hands (ActionLockStore.acquire). *)
THEOREM TokensOrderTurns == Spec => TokensGrow
<1>1. IInv /\ [Next]_vars =>
        [backend = "sqlite" /\ row' # None /\ (row = None \/ row'.owner # row.owner)
           => \A t \in Turns : pc[t] \in Held => token[t] < row'.token]_vars
  BY TokenStep DEF IInv
<1>2. QED
  BY <1>1, Invariance, PTL DEF Spec, TokensGrow

(* A lease with time left ends by its own turn (release, acquire). *)
THEOREM LeaseKept == Spec => LeaseEndsByItsTurn
<1>1. IInv /\ [Next]_vars =>
        [\A t \in Turns : Valid(t) /\ (row' # None => row'.owner # t) =>
           pc[t] \in {"closing", "raised"} /\ pc'[t] \in Ended]_vars
  BY EndStep DEF IInv
<1>2. QED
  BY <1>1, Invariance, PTL DEF Spec, LeaseEndsByItsTurn

(* On PostgreSQL lease and checkpoint store implement the register of turns. *)
THEOREM RegisterRefined == Spec => ImplementsTurnRegister
<1>1. IInv /\ [Next]_vars =>
        [backend = "postgres" => Register!Next \/ UNCHANGED Register!vars]_vars
  BY RegisterStep DEF IInv
<1>2. QED
  BY <1>1, Invariance, PTL DEF Spec, ImplementsTurnRegister


-----------------------------------------------------------------------------
(* Turns that work while their leases run *)

WorkersOwn == \A t \in Turns : AtWork(t) => Owns(t)

(* A lease that may be taken is nobody's who works. *)
LEMMA NobodyWorks ==
  ASSUME TypeOK, WorkersOwn, LeaseOutlivesWork, Available, NEW u \in Turns
  PROVE  ~AtWork(u)
<1> SUFFICES ASSUME AtWork(u) PROVE FALSE
  OBVIOUS
<1>1. row # None /\ row.left > 0
  BY DEF WorkersOwn, LeaseOutlivesWork, Valid, Owns
<1> QED BY <1>1 DEF Available

(* A turn that goes to work has the lease, and keeps it while it works. *)
LEMMA OwnStep == TypeOK /\ LockInv /\ WorkersOwn /\ LeaseOutlivesWork /\ Next => WorkersOwn'
<1> SUFFICES ASSUME TypeOK, LockInv, WorkersOwn, LeaseOutlivesWork, Next,
                    NEW u \in Turns, AtWork(u)'
             PROVE  Owns(u)'
  BY DEF WorkersOwn
<1>1. ASSUME NEW t \in Turns, Acquire(t) \/ InsertLease(t) PROVE Owns(u)'
  <2>1. Available
    BY <1>1, InsertEffect DEF Acquire
  <2>2. u = t
    BY <1>1, <2>1, NobodyWorks, GotoEffect DEF Acquire, InsertLease, AtWork
  <2>3. row' = Lease(t, token'[t], Ttl) /\ token'[t] \in Nat
    BY <1>1 DEF Acquire, InsertLease, TypeOK
  <2>4. row' \in [owner : Turns, token : Nat, left : Nat]
    BY <2>3, LeaseAssumption DEF Lease
  <2> QED BY <2>2, <2>3, <2>4, LeaseAssumption DEF Owns, Lease
<1>2. ASSUME NEW t \in Turns, Close(t) PROVE Owns(u)'
  <2>1. u # t /\ AtWork(u)
    BY <1>2, GotoEffect DEF Close, AtWork, Renewed
  <2>2. ~Owns(t)
    BY <2>1 DEF WorkersOwn, Owns
  <2> QED BY <1>2, <2>1, <2>2 DEF Close, WorkersOwn, Owns
<1>3. CASE ~\E t \in Turns : Acquire(t) \/ InsertLease(t) \/ Close(t)
  <2>1. AtWork(u) /\ token'[u] = token[u]
    BY <1>3 DEF Next, TurnStep, leaseVars, turnVars, Enter, GiveUpWaiting, AcquireRefused,
         DeleteExpired, TakeToken, InsertRefused, Read, BeginWrite, PlainWrite, FinishWrite,
         Guard, GuardedWrite, Finish, AssertValid, Raise, Renew, AcquireFails, CloseFails,
         RenewalFails, Tick, Crash,
         AtWork, Renewed, Goto, TypeOK
  <2>2. Owns(u)
    BY <2>1 DEF WorkersOwn
  <2>3. \/ UNCHANGED row
        \/ row' # None /\ row'.owner = row.owner /\ row'.token = row.token
    BY <1>3, LeaseSteps, RenewEffect, TickEffect
  <2> QED BY <2>1, <2>2, <2>3 DEF Owns
<1> QED BY <1>1, <1>2, <1>3

(* The lease separates turns: as long as none works longer than its lease    *)
(* runs, one turn of the conversation works at a time, on both backends,     *)
(* whatever processes die (AgentService._serialized_turn).  This is what     *)
(* CommitProtocol assumes where leaseHolds.                                  *)
THEOREM TurnsAreSeparate == Spec => LeaseSeparatesTurns
<1>1. Init => WorkersOwn
  BY DEF Init, WorkersOwn, AtWork, Renewed
<1>2. IInv /\ WorkersOwn /\ LeaseOutlivesWork /\ [Next]_vars => WorkersOwn'
  <2>1. WorkersOwn /\ UNCHANGED vars => WorkersOwn'
    BY DEF WorkersOwn, AtWork, Owns, vars, leaseVars, turnVars
  <2> QED BY <2>1, OwnStep DEF IInv
<1>3. WorkersOwn => OneTurnWorks
  BY DEF WorkersOwn, OneTurnWorks, Owns
<1> QED BY <1>1, <1>2, <1>3, Invariance, PTL DEF Spec, LeaseSeparatesTurns
=============================================================================
