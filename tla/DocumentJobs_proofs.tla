------------------------ MODULE DocumentJobs_proofs ------------------------
(***************************************************************************)
(* Proofs about the document indexing queue, for any number of jobs,       *)
(* workers, attempts and crashes, on both backends.                        *)
(***************************************************************************)
EXTENDS DocumentJobs, TLAPS

\* A claim is an attempt that was counted, and no two workers have the same one.
ClaimInv ==
  /\ \A w \in Workers, j \in Jobs : claims[w][j] <= job[j].attempts
  /\ \A v, w \in Workers, j \in Jobs :
       v # w /\ claims[v][j] > 0 => claims[v][j] # claims[w][j]

\* What the state of a job says of its attempts.
RowInv ==
  /\ \A j \in Jobs : job[j].state = "NONE" => job[j].attempts = 0
  /\ \A w \in Workers, j \in Jobs : found[w][j] = "FAILED" => job[j].attempts = MaxAttempts
  /\ \A w \in Workers : pc[w] \in {"found", "found again"} => backend = "sqlite"

\* A worker completes what it has ingested.
IndexInv ==
  /\ \A w \in Workers, j \in Jobs : pc[w] = "indexed" /\ Current(w, j) => j \in indexed
  /\ \A j \in Jobs : job[j].state = "READY" => j \in indexed

IInv == TypeOK /\ ClaimInv /\ RowInv /\ IndexInv /\ NoJobIsStuck

-----------------------------------------------------------------------------
(* A row that is written, and what it holds. *)
LEMMA RowIs ==
  ASSUME NEW s \in States, NEW a \in 0 .. MaxAttempts, NEW l \in 0 .. Ttl, NEW d \in 0 .. 1
  PROVE  /\ Row(s, a, l, d) \in JobRow
         /\ Row(s, a, l, d).state = s /\ Row(s, a, l, d).attempts = a
         /\ Row(s, a, l, d).left = l
  BY DEF Row, JobRow

LEMMA RowHas ==
  ASSUME TypeOK, NEW j \in Jobs
  PROVE  /\ job[j].state \in States /\ job[j].attempts \in 0 .. MaxAttempts
         /\ job[j].left \in 0 .. Ttl /\ job[j].delay \in 0 .. 1
<1>1. job[j] \in JobRow
  BY DEF TypeOK
<1>2. QED
  BY <1>1 DEF JobRow

(* The rows that the steps write. *)
LEMMA NewRows ==
  ASSUME TypeOK, NEW j \in Jobs
  PROVE  /\ \A d \in {0, 1} : /\ Queued(j, d) \in JobRow
                               /\ Queued(j, d).state = "QUEUED"
                               /\ Queued(j, d).attempts = job[j].attempts
         /\ \A s \in {"READY", "FAILED"} : /\ Ended(j, s) \in JobRow
                                           /\ Ended(j, s).state = s
                                           /\ Ended(j, s).attempts = job[j].attempts
         /\ \A a \in 0 .. MaxAttempts, l \in 0 .. Ttl : /\ Indexing(a, l) \in JobRow
                                                       /\ Indexing(a, l).state = "INDEXING"
                                                       /\ Indexing(a, l).attempts = a
<1> USE DEF States
<1>1. job[j].attempts \in 0 .. MaxAttempts /\ 0 \in 0 .. Ttl
  BY RowHas, JobAssumption
<1>2. \A d \in {0, 1} : Queued(j, d) \in JobRow /\ Queued(j, d).state = "QUEUED"
                           /\ Queued(j, d).attempts = job[j].attempts
  BY <1>1, RowIs DEF Queued
<1>3. \A s \in {"READY", "FAILED"} : Ended(j, s) \in JobRow /\ Ended(j, s).state = s
                                    /\ Ended(j, s).attempts = job[j].attempts
  BY <1>1, RowIs DEF Ended
<1>4. \A a \in 0 .. MaxAttempts, l \in 0 .. Ttl :
        Indexing(a, l) \in JobRow /\ Indexing(a, l).state = "INDEXING"
          /\ Indexing(a, l).attempts = a
  BY RowIs DEF Indexing
<1>5. QED
  BY <1>2, <1>3, <1>4

(* One row is written. *)
LEMMA Put ==
  ASSUME TypeOK, NEW j \in Jobs, NEW r \in JobRow, job' = [job EXCEPT ![j] = r]
  PROVE  job' \in [Jobs -> JobRow] /\ job'[j] = r /\ \A k \in Jobs \ {j} : job'[k] = job[k]
  BY DEF TypeOK

(* A worker is done with a job. *)
LEMMA DoneEffect ==
  ASSUME TypeOK, NEW w \in Workers, NEW j \in Jobs, Done(w, j)
  PROVE  /\ claims' \in [Workers -> [Jobs -> Nat]]
         /\ claims'[w][j] = 0 /\ pc' = [pc EXCEPT ![w] = "next"]
         /\ \A v \in Workers, k \in Jobs : v # w \/ k # j => claims'[v][k] = claims[v][k]
         /\ \A v \in Workers \ {w} : claims'[v] = claims[v]
<1>1. claims' = [claims EXCEPT ![w] = [claims[w] EXCEPT ![j] = 0]]
  BY DEF Done
<1>2. claims[w] \in [Jobs -> Nat] /\ [claims[w] EXCEPT ![j] = 0] \in [Jobs -> Nat]
  BY DEF TypeOK
<1>3. claims' \in [Workers -> [Jobs -> Nat]]
  BY <1>1, <1>2 DEF TypeOK
<1>4. \A v \in Workers, k \in Jobs :
        claims'[v][k] = IF v = w /\ k = j THEN 0 ELSE claims[v][k]
  BY <1>1, <1>2 DEF TypeOK
<1>5. \A v \in Workers \ {w} : claims'[v] = claims[v]
  BY <1>1 DEF TypeOK
<1>6. QED
  BY <1>3, <1>4, <1>5 DEF Done, Goto

(* What recovery writes. *)
LEMMA RecoveredRow ==
  ASSUME TypeOK, NEW j \in Jobs, NEW v \in {"QUEUED", "FAILED"}
  PROVE  /\ Recovered(j, v) \in JobRow
         /\ Recovered(j, v).state = v /\ Recovered(j, v).attempts = job[j].attempts
  BY NewRows DEF Recovered

LEMMA InitInv == Init => IInv
<1> SUFFICES ASSUME Init PROVE IInv
  OBVIOUS
<1>1. TypeOK
  BY JobAssumption DEF Init, TypeOK, States, JobRow, NoClaims, NothingFound, Row
<1>2. ClaimInv /\ RowInv
  BY DEF Init, ClaimInv, RowInv, NoClaims, NothingFound, Row
<1>3. IndexInv /\ NoJobIsStuck
  BY DEF Init, IndexInv, NoJobIsStuck, Row
<1>4. QED
  BY <1>1, <1>2, <1>3 DEF IInv

-----------------------------------------------------------------------------
(* Every step keeps the types. *)
LEMMA TypeStep == TypeOK /\ Next => TypeOK'
<1> SUFFICES ASSUME TypeOK, Next PROVE TypeOK'
  OBVIOUS
<1>1. ASSUME NEW w \in Workers, Recover(w) PROVE TypeOK'
  BY <1>1, RecoveredRow DEF Recover, Verdict, AfterRecovery, TypeOK, Goto, workerVars
<1>2. ASSUME NEW w \in Workers, FindExpired(w) PROVE TypeOK'
  BY <1>2 DEF FindExpired, Verdict, TypeOK, Goto, workerVars
<1>3. ASSUME NEW w \in Workers, ResetFound(w) PROVE TypeOK'
  <2>1. \A j \in Jobs : found[w][j] # "keep" => found[w][j] \in {"QUEUED", "FAILED"}
    BY DEF TypeOK
  <2>2. \A j \in Jobs : job[j] \in JobRow
    BY DEF TypeOK
  <2>3. job' \in [Jobs -> JobRow]
    BY <1>3, <2>1, <2>2, RecoveredRow DEF ResetFound
  <2>4. QED
    BY <1>3, <2>3 DEF ResetFound, NothingFound, TypeOK, Goto
<1>4. ASSUME NEW w \in Workers, Claim(w) PROVE TypeOK'
  <2>1. \A j \in Chosen : job[j].attempts + 1 \in 0 .. MaxAttempts
    BY RowHas, JobAssumption DEF Chosen, Claimable
  <2> Chosen \subseteq Jobs
    BY DEF Chosen
  <2> \A j \in Jobs : job[j] \in JobRow
    BY DEF TypeOK
  <2> Ttl \in 0 .. Ttl
    BY JobAssumption
  <2>2. job' \in [Jobs -> JobRow]
    BY <1>4, <2>1, NewRows DEF Claim
  <2>3. claims' \in [Workers -> [Jobs -> Nat]]
    <3>1. [j \in Jobs |-> IF j \in Chosen THEN job[j].attempts + 1 ELSE 0] \in [Jobs -> Nat]
      BY <2>1
    <3>2. QED
      BY <1>4, <3>1 DEF Claim, TypeOK
  <2>4. QED
    BY <1>4, <2>2, <2>3 DEF Claim, TypeOK, Goto
<1>5. ASSUME NEW w \in Workers, Begin(w) PROVE TypeOK'
  BY <1>5 DEF Begin, TypeOK, Goto, workerVars
<1>6. ASSUME NEW w \in Workers, NEW j \in Jobs, Ingest(w, j) PROVE TypeOK'
  BY <1>6 DEF Ingest, TypeOK, Goto, workerVars
<1>7. ASSUME NEW w \in Workers, NEW j \in Jobs, Complete(w, j) PROVE TypeOK'
  <2>1. job' \in [Jobs -> JobRow]
    BY <1>7, NewRows, Put DEF Complete
  <2>2. QED
    BY <1>7, <2>1, DoneEffect DEF Complete, TypeOK, Goto, workerVars
<1>8. ASSUME NEW w \in Workers, NEW j \in Jobs, ProcessingFails(w, j) PROVE TypeOK'
  BY <1>8 DEF ProcessingFails, TypeOK, Goto, workerVars
<1>9. ASSUME NEW w \in Workers, NEW j \in Jobs, Fail(w, j) PROVE TypeOK'
  <2>1. CASE UNCHANGED job
    BY <1>9, <2>1, DoneEffect DEF Fail, TypeOK
  <2>2. CASE job' # job
    <3>1. PICK r \in JobRow : job' = [job EXCEPT ![j] = r]
      BY <1>9, <2>2, NewRows DEF Fail
    <3>2. job' \in [Jobs -> JobRow]
      BY <3>1, Put
    <3>3. QED
      BY <1>9, <3>2, DoneEffect DEF Fail, TypeOK
  <2>3. QED
    BY <2>1, <2>2
<1>10. ASSUME NEW w \in Workers, Crash(w) PROVE TypeOK'
  <2>1. NoClaims \in [Jobs -> Nat] /\ NothingFound \in [Jobs -> {"keep", "QUEUED", "FAILED"}]
    BY JobAssumption DEF NoClaims, NothingFound
  <2>2. crashes' \in 0 .. MaxCrashes
    <3>1. crashes \in 0 .. MaxCrashes
      BY DEF TypeOK
    <3>2. QED
      BY <1>10, <3>1, JobAssumption DEF Crash
  <2>3. QED
    BY <1>10, <2>1, <2>2 DEF Crash, TypeOK, Goto
<1>11. ASSUME NEW w \in Workers, NEW j \in Jobs, Heartbeat(w, j) PROVE TypeOK'
  <2>1. job[j].attempts \in 0 .. MaxAttempts /\ Ttl \in 0 .. Ttl
    BY RowHas, JobAssumption
  <2>2. job' \in [Jobs -> JobRow]
    BY <1>11, <2>1, NewRows, Put DEF Heartbeat
  <2>3. QED
    BY <1>11, <2>2 DEF Heartbeat, TypeOK, workerVars
<1>12. ASSUME NEW j \in Jobs, Upload(j) PROVE TypeOK'
  <2>1. job' \in [Jobs -> JobRow]
    BY <1>12, NewRows, Put DEF Upload
  <2>2. QED
    BY <1>12, <2>1 DEF Upload, TypeOK, Goto, workerVars
<1>13. ASSUME NEW j \in Jobs, Age(j) PROVE TypeOK'
  <2>1. job[j].attempts \in 0 .. MaxAttempts /\ job[j].left - 1 \in 0 .. Ttl
    BY <1>13, RowHas, JobAssumption DEF Age
  <2>2. job' \in [Jobs -> JobRow]
    BY <1>13, <2>1, NewRows, Put DEF Age
  <2>3. QED
    BY <1>13, <2>2 DEF Age, TypeOK, workerVars
<1>14. ASSUME NEW j \in Jobs, BecomeDue(j) PROVE TypeOK'
  <2>1. job' \in [Jobs -> JobRow]
    BY <1>14, NewRows, Put DEF BecomeDue
  <2>2. QED
    BY <1>14, <2>1 DEF BecomeDue, TypeOK, Goto, workerVars
<1>15. QED
  BY <1>1, <1>2, <1>3, <1>4, <1>5, <1>6, <1>7, <1>8, <1>9,
     <1>10, <1>11, <1>12, <1>13, <1>14
     DEF Next, WorkerStep

-----------------------------------------------------------------------------
(* How a step may change a job's row. *)
RowMove(k) ==
  LET from == job[k].state
      to   == job'[k].state
  IN  \/ to = from /\ job'[k].attempts = job[k].attempts
      \/ from = "QUEUED" /\ to = "INDEXING" /\ job[k].attempts < MaxAttempts
           /\ job'[k].attempts = job[k].attempts + 1 /\ \E w \in Workers : Claim(w)
      \/ /\ job'[k].attempts = job[k].attempts
         /\ \/ from = "NONE" /\ to = "QUEUED" /\ Upload(k)
            \/ from = "INDEXING" /\ to = "QUEUED"
                 /\ (backend = "postgres" => job[k].attempts < MaxAttempts)
            \/ from = "INDEXING" /\ to = "FAILED" /\ job[k].attempts = MaxAttempts
            \/ from = "INDEXING" /\ to = "READY" /\ k \in indexed
                 /\ \E w \in Workers : Complete(w, k)

(* Every step moves every row like that. *)
LEMMA RowMoves ==
  ASSUME TypeOK, RowInv, IndexInv, Next, NEW k \in Jobs
  PROVE  RowMove(k)
<1>1. ASSUME NEW w \in Workers, Recover(w) PROVE RowMove(k)
  <2>1. Verdict(k) \in {"QUEUED", "FAILED"}
    BY DEF Verdict
  <2>2. CASE Expired(k)
    <3>1. job'[k] = Recovered(k, Verdict(k)) /\ job[k].state = "INDEXING"
      BY <1>1, <2>2 DEF Recover, Expired
    <3>2. job'[k].state = Verdict(k) /\ job'[k].attempts = job[k].attempts
      BY <2>1, <3>1, RecoveredRow
    <3>3. QED
      BY <3>1, <3>2, RowHas, JobAssumption DEF Verdict, RowMove
  <2>3. CASE ~Expired(k)
    BY <1>1, <2>3 DEF Recover, RowMove
  <2>4. QED
    BY <2>2, <2>3
<1>2. ASSUME NEW w \in Workers, FindExpired(w) PROVE RowMove(k)
  BY <1>2 DEF FindExpired, RowMove, workerVars
<1>3. ASSUME NEW w \in Workers, ResetFound(w) PROVE RowMove(k)
  <2>1. found[w][k] \in {"keep", "QUEUED", "FAILED"} /\ backend = "sqlite"
    BY <1>3 DEF TypeOK, RowInv, ResetFound
  <2>2. CASE found[w][k] # "keep" /\ job[k].state = "INDEXING"
    <3>1. job'[k] = Recovered(k, found[w][k])
      BY <1>3, <2>2 DEF ResetFound
    <3>2. job'[k].state = found[w][k] /\ job'[k].attempts = job[k].attempts
      BY <2>1, <2>2, <3>1, RecoveredRow
    <3>3. QED
      BY <2>1, <2>2, <3>2 DEF RowInv, RowMove
  <2>3. CASE ~(found[w][k] # "keep" /\ job[k].state = "INDEXING")
    BY <1>3, <2>3 DEF ResetFound, RowMove
  <2>4. QED
    BY <2>2, <2>3
<1>4. ASSUME NEW w \in Workers, Claim(w) PROVE RowMove(k)
  <2>1. CASE k \in Chosen
    <3>1. job[k].state = "QUEUED" /\ job[k].attempts < MaxAttempts
      BY <2>1 DEF Chosen, Claimable
    <3>2. job'[k] = Indexing(job[k].attempts + 1, Ttl)
      BY <1>4, <2>1 DEF Claim
    <3>3. job[k].attempts + 1 \in 0 .. MaxAttempts /\ Ttl \in 0 .. Ttl
      BY <3>1, RowHas, JobAssumption
    <3>4. \E v \in Workers : Claim(v)
      BY <1>4
    <3>5. QED
      BY <3>1, <3>2, <3>3, <3>4, NewRows DEF RowMove
  <2>2. CASE k \notin Chosen
    BY <1>4, <2>2 DEF Claim, RowMove
  <2>3. QED
    BY <2>1, <2>2
<1>5. ASSUME NEW w \in Workers, Begin(w) PROVE RowMove(k)
  BY <1>5 DEF Begin, RowMove, workerVars
<1>6. ASSUME NEW w \in Workers, NEW j \in Jobs, Ingest(w, j) PROVE RowMove(k)
  BY <1>6 DEF Ingest, RowMove, workerVars
<1>7. ASSUME NEW w \in Workers, NEW j \in Jobs, Complete(w, j) PROVE RowMove(k)
  <2>1. job' = [job EXCEPT ![j] = Ended(j, "READY")] /\ Ended(j, "READY") \in JobRow
    BY <1>7, NewRows DEF Complete
  <2>2. job[j].state = "INDEXING" /\ j \in indexed
    BY <1>7 DEF Complete, Live, Holds, IndexInv
  <2>3. \E v \in Workers : Complete(v, j)
    BY <1>7
  <2>4. QED
    BY <2>1, <2>2, <2>3, Put, NewRows DEF RowMove
<1>8. ASSUME NEW w \in Workers, NEW j \in Jobs, ProcessingFails(w, j) PROVE RowMove(k)
  BY <1>8 DEF ProcessingFails, RowMove, workerVars
<1>9. ASSUME NEW w \in Workers, NEW j \in Jobs, Fail(w, j) PROVE RowMove(k)
  <2>1. CASE UNCHANGED job
    BY <2>1 DEF RowMove
  <2>2. CASE job' # job
    <3>1. job[j].state = "INDEXING"
      BY <1>9, <2>2 DEF Fail, Live, Holds
    <3>2. PICK r \in JobRow :
            /\ job' = [job EXCEPT ![j] = r] /\ r.attempts = job[j].attempts
            /\ r.state = IF job[j].attempts < MaxAttempts THEN "QUEUED" ELSE "FAILED"
      BY <1>9, <2>2, NewRows DEF Fail
    <3>3. QED
      BY <3>1, <3>2, Put, RowHas, JobAssumption DEF RowMove
  <2>3. QED
    BY <2>1, <2>2
<1>10. ASSUME NEW w \in Workers, Crash(w) PROVE RowMove(k)
  BY <1>10 DEF Crash, RowMove, workerVars
<1>11. ASSUME NEW w \in Workers, NEW j \in Jobs, Heartbeat(w, j) PROVE RowMove(k)
  <2>1. job[j].attempts \in 0 .. MaxAttempts /\ Ttl \in 0 .. Ttl
    BY RowHas, JobAssumption
  <2>2. QED
    BY <1>11, <2>1, NewRows, Put DEF Heartbeat, Live, Holds, RowMove
<1>12. ASSUME NEW j \in Jobs, Upload(j) PROVE RowMove(k)
  <2>1. job' = [job EXCEPT ![j] = Queued(j, 0)] /\ job[j].state = "NONE"
    BY <1>12 DEF Upload
  <2>2. QED
    BY <1>12, <2>1, NewRows, Put DEF RowMove
<1>13. ASSUME NEW j \in Jobs, Age(j) PROVE RowMove(k)
  <2>1. job[j].attempts \in 0 .. MaxAttempts /\ job[j].left - 1 \in 0 .. Ttl
    BY <1>13, RowHas, JobAssumption DEF Age
  <2>2. QED
    BY <1>13, <2>1, NewRows, Put DEF Age, RowMove
<1>14. ASSUME NEW j \in Jobs, BecomeDue(j) PROVE RowMove(k)
  BY <1>14, NewRows, Put DEF BecomeDue, RowMove
<1>15. QED
  BY <1>1, <1>2, <1>3, <1>4, <1>5, <1>6, <1>7, <1>8, <1>9,
     <1>10, <1>11, <1>12, <1>13, <1>14
     DEF Next, WorkerStep

-----------------------------------------------------------------------------
(* How a step may change what a worker knows of a job. *)
WorkerMove(w, k) ==
  /\ \/ claims'[w][k] \in {0, claims[w][k]}
     \/ /\ claims'[w][k] = job[k].attempts + 1 /\ job'[k].attempts = job[k].attempts + 1
        /\ \A v \in Workers \ {w} : claims'[v][k] = claims[v][k]
  /\ found'[w][k] = "FAILED" => found[w][k] = "FAILED" \/ job[k].attempts = MaxAttempts
  /\ pc'[w] = "indexed" =>
       \/ pc[w] = "indexed" /\ claims'[w] = claims[w]
       \/ claims'[w] = claims[w] /\ (Current(w, k) => k \in indexed')
  /\ indexed \subseteq indexed' /\ UNCHANGED backend

(* Every step does no more than that. *)
LEMMA WorkerMoves ==
  ASSUME TypeOK, Next, NEW u \in Workers, NEW i \in Jobs
  PROVE  WorkerMove(u, i)
<1>1. ASSUME NEW w \in Workers, Recover(w) PROVE WorkerMove(u, i)
  BY <1>1 DEF Recover, AfterRecovery, WorkerMove, Goto, workerVars, TypeOK
<1>2. ASSUME NEW w \in Workers, FindExpired(w) PROVE WorkerMove(u, i)
  <2>1. \A v \in Workers : found'[v] =
          IF v = w THEN [k \in Jobs |-> IF Expired(k) THEN Verdict(k) ELSE "keep"] ELSE found[v]
    BY <1>2 DEF FindExpired, TypeOK
  <2>2. \A v \in Workers : pc'[v] = IF v = w THEN pc'[w] ELSE pc[v]
    BY <1>2 DEF FindExpired, Goto, TypeOK
  <2>3. pc'[w] # "indexed" /\ backend = "sqlite"
    BY <1>2 DEF FindExpired, Goto, TypeOK
  <2>4. \A k \in Jobs : found'[w][k] = "FAILED" => job[k].attempts = MaxAttempts
    <3>1. ASSUME NEW n \in Jobs, found'[w][n] = "FAILED" PROVE job[n].attempts = MaxAttempts
      <4>1. Verdict(n) = "FAILED"
        BY <2>1, <3>1
      <4>2. QED
        BY <4>1, RowHas, JobAssumption DEF Verdict
    <3>2. QED
      BY <3>1
  <2>5. QED
    BY <1>2, <2>1, <2>2, <2>3, <2>4 DEF FindExpired, WorkerMove
<1>3. ASSUME NEW w \in Workers, ResetFound(w) PROVE WorkerMove(u, i)
  <2>1. pc'[w] \in {"again", "claim"} /\ \A v \in Workers \ {w} : pc'[v] = pc[v]
    BY <1>3 DEF ResetFound, Goto, TypeOK
  <2>2. \A v \in Workers, k \in Jobs : found'[v][k] = "FAILED" => found[v][k] = "FAILED"
    BY <1>3 DEF ResetFound, NothingFound, TypeOK
  <2>3. QED
    BY <1>3, <2>1, <2>2 DEF ResetFound, WorkerMove
<1>4. ASSUME NEW w \in Workers, Claim(w) PROVE WorkerMove(u, i)
  <2>1. pc'[w] = "next" /\ \A v \in Workers \ {w} : pc'[v] = pc[v]
    BY <1>4 DEF Claim, Goto, TypeOK
  <2>2. \A v \in Workers, k \in Jobs : claims'[v][k] =
          IF v = w THEN IF k \in Chosen THEN job[k].attempts + 1 ELSE 0 ELSE claims[v][k]
    BY <1>4 DEF Claim, TypeOK
  <2> \A v \in Workers \ {w} : claims'[v] = claims[v]
    BY <1>4 DEF Claim, TypeOK
  <2>3. \A k \in Chosen : job'[k].attempts = job[k].attempts + 1
    <3>1. ASSUME NEW k \in Chosen PROVE job'[k].attempts = job[k].attempts + 1
      <4>1. job'[k] = Indexing(job[k].attempts + 1, Ttl) /\ k \in Jobs
        BY <1>4 DEF Claim, Chosen
      <4>2. job[k].attempts + 1 \in 0 .. MaxAttempts /\ Ttl \in 0 .. Ttl
        BY <4>1, RowHas, JobAssumption DEF Chosen, Claimable
      <4>3. QED
        BY <4>1, <4>2, NewRows
    <3>2. QED
      BY <3>1
  <2>4. QED
    BY <1>4, <2>1, <2>2, <2>3 DEF Claim, WorkerMove
<1>5. ASSUME NEW w \in Workers, Begin(w) PROVE WorkerMove(u, i)
  BY <1>5 DEF Begin, WorkerMove, Goto, workerVars, TypeOK
<1>6. ASSUME NEW w \in Workers, NEW j \in Jobs, Ingest(w, j) PROVE WorkerMove(u, i)
  <2>1. \A v \in Workers : pc'[v] = IF v = w THEN "indexed" ELSE pc[v]
    BY <1>6 DEF Ingest, Goto, TypeOK
  <2>2. \A k \in Jobs : Current(w, k) => k = j
    BY <1>6, JobAssumption DEF Ingest, Current, Pending, Jobs
  <2>3. QED
    BY <1>6, <2>1, <2>2 DEF Ingest, WorkerMove
<1>7. ASSUME NEW w \in Workers, NEW j \in Jobs, Complete(w, j) PROVE WorkerMove(u, i)
  <2>1. pc'[w] = "next" /\ \A v \in Workers \ {w} : pc'[v] = pc[v]
    BY <1>7, DoneEffect DEF Complete, TypeOK
  <2>2. QED
    BY <1>7, <2>1, DoneEffect DEF Complete, WorkerMove
<1>8. ASSUME NEW w \in Workers, NEW j \in Jobs, ProcessingFails(w, j) PROVE WorkerMove(u, i)
  BY <1>8 DEF ProcessingFails, WorkerMove, Goto, workerVars, TypeOK
<1>9. ASSUME NEW w \in Workers, NEW j \in Jobs, Fail(w, j) PROVE WorkerMove(u, i)
  <2>1. pc'[w] = "next" /\ \A v \in Workers \ {w} : pc'[v] = pc[v]
    BY <1>9, DoneEffect DEF Fail, TypeOK
  <2>2. QED
    BY <1>9, <2>1, DoneEffect DEF Fail, WorkerMove
<1>10. ASSUME NEW w \in Workers, Crash(w) PROVE WorkerMove(u, i)
  <2>1. pc'[w] = "idle" /\ \A v \in Workers \ {w} : pc'[v] = pc[v]
    BY <1>10 DEF Crash, Goto, TypeOK
  <2>2. \A v \in Workers, k \in Jobs :
          /\ claims'[v][k] = IF v = w THEN 0 ELSE claims[v][k]
          /\ found'[v][k] = "FAILED" => found[v][k] = "FAILED"
    BY <1>10 DEF Crash, NoClaims, NothingFound, TypeOK
  <2> \A v \in Workers \ {w} : claims'[v] = claims[v]
    BY <1>10 DEF Crash, TypeOK
  <2>3. QED
    <3>1. UNCHANGED <<backend, indexed>>
      BY <1>10 DEF Crash
    <3>2. CASE u = w
      BY <2>1, <2>2, <3>1, <3>2 DEF WorkerMove
    <3>3. CASE u # w
      BY <2>1, <2>2, <3>1, <3>3 DEF WorkerMove
    <3>4. QED
      BY <3>2, <3>3
<1>11. ASSUME NEW w \in Workers, NEW j \in Jobs, Heartbeat(w, j) PROVE WorkerMove(u, i)
  BY <1>11 DEF Heartbeat, WorkerMove, Goto, workerVars, TypeOK
<1>12. ASSUME NEW j \in Jobs, Upload(j) PROVE WorkerMove(u, i)
  BY <1>12 DEF Upload, WorkerMove, Goto, workerVars, TypeOK
<1>13. ASSUME NEW j \in Jobs, Age(j) PROVE WorkerMove(u, i)
  BY <1>13 DEF Age, WorkerMove, Goto, workerVars, TypeOK
<1>14. ASSUME NEW j \in Jobs, BecomeDue(j) PROVE WorkerMove(u, i)
  BY <1>14 DEF BecomeDue, WorkerMove, Goto, workerVars, TypeOK
<1>15. QED
  BY <1>1, <1>2, <1>3, <1>4, <1>5, <1>6, <1>7, <1>8, <1>9,
     <1>10, <1>11, <1>12, <1>13, <1>14
     DEF Next, WorkerStep

-----------------------------------------------------------------------------
(* The invariant *)

(* The backend is fixed, the index only grows, and only SQLite finds before it writes. *)
LEMMA PcMoves ==
  ASSUME TypeOK, Next
  PROVE  /\ UNCHANGED backend /\ indexed \subseteq indexed'
         /\ \A w \in Workers : pc'[w] \in {"found", "found again"} =>
              pc[w] \in {"found", "found again"} \/ backend = "sqlite"
<1>1. UNCHANGED backend /\ indexed \subseteq indexed'
  BY DEF Next, WorkerStep, Recover, FindExpired, ResetFound, Claim, Begin, Ingest, Complete,
         ProcessingFails, Fail, Crash, Heartbeat, Upload, Age, BecomeDue
<1>2. CASE \E v \in Workers : FindExpired(v)
  BY <1>1, <1>2 DEF FindExpired
<1>3. CASE ~\E v \in Workers : FindExpired(v)
  <2>1. CASE UNCHANGED pc
    BY <1>1, <2>1
  <2>2. CASE pc' # pc
    <3>1. PICK v \in Workers,
               s \in {"again", "claim", "next", "idle", "work", "indexed", "raised"} :
            Goto(v, s)
      BY <1>3, <2>2 DEF Next, WorkerStep, workerVars, Done, Recover, AfterRecovery, ResetFound,
           Claim, Begin, Ingest, Complete, ProcessingFails, Fail, Crash, Heartbeat, Upload, Age,
           BecomeDue
    <3>2. QED
      BY <1>1, <3>1 DEF Goto, TypeOK
  <2>3. QED
    BY <2>1, <2>2
<1>4. QED
  BY <1>1, <1>2, <1>3

LEMMA ClaimStep == TypeOK /\ RowInv /\ IndexInv /\ ClaimInv /\ Next => ClaimInv'
<1> SUFFICES ASSUME TypeOK, RowInv, IndexInv, ClaimInv, Next PROVE ClaimInv'
  OBVIOUS
<1>1. \A k \in Jobs : job'[k].attempts \in {job[k].attempts, job[k].attempts + 1}
                        /\ job[k].attempts \in Nat
  BY RowMoves, RowHas DEF RowMove
<1>2. \A w \in Workers, k \in Jobs : claims[w][k] \in Nat /\ claims[w][k] <= job[k].attempts
  BY DEF TypeOK, ClaimInv
<1>3. ASSUME NEW w \in Workers, NEW k \in Jobs
      PROVE  claims'[w][k] <= job'[k].attempts
  <2>1. WorkerMove(w, k)
    BY WorkerMoves
  <2>2. QED
    BY <1>1, <1>2, <2>1 DEF WorkerMove
<1>4. ASSUME NEW v \in Workers, NEW w \in Workers, NEW k \in Jobs, v # w, claims'[v][k] > 0
      PROVE  claims'[v][k] # claims'[w][k]
  <2>1. WorkerMove(v, k) /\ WorkerMove(w, k)
    BY WorkerMoves
  <2>2. claims[v][k] > 0 => claims[v][k] # claims[w][k]
    BY <1>4 DEF ClaimInv
  <2>3. CASE claims'[v][k] \in {0, claims[v][k]} /\ claims'[w][k] \in {0, claims[w][k]}
    BY <1>4, <2>2, <2>3
  <2>4. CASE claims'[v][k] = job[k].attempts + 1 /\ claims'[w][k] = claims[w][k]
    BY <1>1, <1>2, <2>4
  <2>5. CASE claims'[w][k] = job[k].attempts + 1 /\ claims'[v][k] = claims[v][k]
    BY <1>1, <1>2, <2>5
  <2>6. QED
    BY <1>4, <2>1, <2>3, <2>4, <2>5 DEF WorkerMove
<1>5. QED
  BY <1>3, <1>4 DEF ClaimInv

LEMMA RowStep == TypeOK /\ RowInv /\ IndexInv /\ NoJobIsStuck /\ Next => RowInv' /\ NoJobIsStuck'
<1> SUFFICES ASSUME TypeOK, RowInv, IndexInv, NoJobIsStuck, Next PROVE RowInv' /\ NoJobIsStuck'
  OBVIOUS
<1>1. \A k \in Jobs : RowMove(k) /\ job[k].attempts \in 0 .. MaxAttempts
  BY RowMoves, RowHas
<1>2. \A k \in Jobs : job'[k].attempts \in 0 .. MaxAttempts
  BY <1>1, JobAssumption DEF RowMove
<1>3. \A k \in Jobs : job'[k].state = "NONE" => job'[k].attempts = 0
  BY <1>1 DEF RowMove, RowInv
<1>4. ASSUME NEW w \in Workers, NEW k \in Jobs, found'[w][k] = "FAILED"
      PROVE  job'[k].attempts = MaxAttempts
  <2>1. job[k].attempts = MaxAttempts
    BY <1>4, WorkerMoves DEF WorkerMove, RowInv
  <2>2. QED
    BY <1>1, <1>2, <2>1, JobAssumption DEF RowMove
<1>5. ASSUME NEW w \in Workers, pc'[w] \in {"found", "found again"} PROVE backend' = "sqlite"
  BY <1>5, PcMoves DEF RowInv
<1>6. NoJobIsStuck'
  <2>1. UNCHANGED backend
    BY PcMoves
  <2>2. ASSUME backend' = "postgres", NEW k \in Jobs, job'[k].state = "QUEUED"
        PROVE  job'[k].attempts < MaxAttempts
    <3>1. RowMove(k) /\ backend = "postgres"
      BY <1>1, <2>1, <2>2
    <3>2. CASE job[k].state = "QUEUED"
      <4>1. job[k].attempts < MaxAttempts
        BY <3>1, <3>2 DEF NoJobIsStuck
      <4>2. QED
        BY <2>2, <3>1, <3>2, <4>1 DEF RowMove
    <3>3. CASE job[k].state = "NONE"
      <4>1. job'[k].attempts = 0
        BY <2>2, <3>1, <3>3 DEF RowMove, RowInv
      <4>2. QED
        BY <4>1, JobAssumption
    <3>4. CASE job[k].state \notin {"QUEUED", "NONE"}
      BY <2>2, <3>1, <3>4 DEF RowMove
    <3>5. QED
      BY <3>2, <3>3, <3>4
  <2>3. QED
    BY <2>2 DEF NoJobIsStuck
<1>7. QED
  BY <1>3, <1>4, <1>5, <1>6 DEF RowInv

LEMMA IndexStep == TypeOK /\ RowInv /\ IndexInv /\ Next => IndexInv'
<1> SUFFICES ASSUME TypeOK, RowInv, IndexInv, Next PROVE IndexInv'
  OBVIOUS
<1>1. ASSUME NEW w \in Workers, NEW k \in Jobs, pc'[w] = "indexed", Current(w, k)'
      PROVE  k \in indexed'
  <2>1. WorkerMove(w, k)
    BY WorkerMoves
  <2>2. claims'[w] = claims[w]
    BY <1>1, <2>1 DEF WorkerMove
  <2>3. Current(w, k)
    BY <1>1, <2>2 DEF Current, Pending
  <2>4. QED
    BY <1>1, <2>1, <2>3 DEF WorkerMove, IndexInv
<1>2. ASSUME NEW k \in Jobs, job'[k].state = "READY" PROVE k \in indexed'
  <2>1. k \in indexed
    BY <1>2, RowMoves DEF RowMove, IndexInv
  <2>2. QED
    BY <2>1, PcMoves
<1>3. QED
  BY <1>1, <1>2 DEF IndexInv

LEMMA Inductive == IInv /\ [Next]_vars => IInv'
<1> SUFFICES ASSUME IInv, [Next]_vars PROVE IInv'
  OBVIOUS
<1>1. CASE Next
  BY <1>1, TypeStep, ClaimStep, RowStep, IndexStep DEF IInv
<1>2. CASE UNCHANGED vars
  BY <1>2 DEF IInv, TypeOK, ClaimInv, RowInv, IndexInv, Current, Pending, NoJobIsStuck, vars,
              workerVars
<1>3. QED
  BY <1>1, <1>2

-----------------------------------------------------------------------------
(* The contract *)

(* A step of the queue is a step of the contract or none. *)
LEMMA ContractStep ==
  ASSUME IInv, Next
  PROVE  Contract!Next \/ UNCHANGED Contract!vars
<1> DEFINE outcome == [k \in Jobs |-> Outcome(k)]
           tries   == [k \in Jobs |-> job[k].attempts]
<1>1. \A k \in Jobs : RowMove(k)
  BY RowMoves DEF IInv
<1>2. \A k \in Jobs : job[k].state = "READY" => k \in indexed /\ k \in indexed'
  BY PcMoves DEF IInv, IndexInv
<1>3. indexed \subseteq indexed'
  BY PcMoves DEF IInv
<1>4. CASE \E w \in Workers : Claim(w)
  <2>1. \A k \in Jobs : job'[k] = job[k] \/
          (job[k].state = "QUEUED" /\ job'[k].state = "INDEXING" /\ job[k].attempts < MaxAttempts
             /\ job'[k].attempts = job[k].attempts + 1)
    <3>1. ASSUME NEW k \in Jobs, k \in Chosen
          PROVE  job'[k].state = "INDEXING" /\ job[k].state = "QUEUED"
      <4>1. job[k].attempts + 1 \in 0 .. MaxAttempts /\ Ttl \in 0 .. Ttl /\ job[k].state = "QUEUED"
        BY <3>1, RowHas, JobAssumption DEF IInv, Chosen, Claimable
      <4>2. QED
        BY <1>4, <3>1, <4>1, NewRows DEF Claim, IInv
    <3>2. QED
      BY <1>1, <1>4, <3>1 DEF Claim, RowMove
  <2>2. UNCHANGED outcome
    BY <1>2, <1>4, <2>1 DEF Outcome, Claim
  <2>3. Contract!Try
    BY <2>1, <2>2 DEF Contract!Try, Outcome
  <2>4. QED
    BY <2>3 DEF Contract!Next
<1>5. ASSUME NEW j \in Jobs, Upload(j) PROVE Contract!Submit(j)
  <2>1. job' = [job EXCEPT ![j] = Queued(j, 0)] /\ job[j].state = "NONE" /\ UNCHANGED indexed
    BY <1>5 DEF Upload
  <2>2. /\ job'[j].state = "QUEUED" /\ job'[j].attempts = job[j].attempts
        /\ \A k \in Jobs \ {j} : job'[k] = job[k]
    BY <2>1, NewRows, Put DEF IInv
  <2>3. tries' = tries /\ outcome' = [outcome EXCEPT ![j] = "open"]
    <3>1. Outcome(j)' = "open"
      BY <2>1, <2>2 DEF Outcome
    <3>2. \A k \in Jobs \ {j} : Outcome(k)' = Outcome(k)
      BY <2>1, <2>2 DEF Outcome
    <3>3. QED
      BY <2>2, <3>1, <3>2
  <2>4. outcome[j] = "none"
    BY <2>1 DEF Outcome
  <2>5. QED
    BY <2>3, <2>4 DEF Contract!Submit, Outcome
<1>6. ASSUME NEW w \in Workers, NEW j \in Jobs, Complete(w, j) PROVE Contract!Succeed(j)
  <2>1. /\ job' = [job EXCEPT ![j] = Ended(j, "READY")] /\ UNCHANGED indexed
        /\ job[j].state = "INDEXING" /\ job[j].attempts > 0 /\ j \in indexed
    BY <1>6, RowHas DEF Complete, Live, Holds, Current, Pending, IInv, IndexInv
  <2>2. /\ job'[j].state = "READY" /\ job'[j].attempts = job[j].attempts
        /\ \A k \in Jobs \ {j} : job'[k] = job[k]
    BY <2>1, NewRows, Put DEF IInv
  <2>3. tries' = tries /\ outcome' = [outcome EXCEPT ![j] = "ready"]
    <3>1. Outcome(j)' = "ready"
      BY <2>1, <2>2 DEF Outcome
    <3>2. \A k \in Jobs \ {j} : Outcome(k)' = Outcome(k)
      BY <2>1, <2>2 DEF Outcome
    <3>3. QED
      BY <2>2, <3>1, <3>2
  <2>4. outcome[j] = "open" /\ tries[j] > 0
    BY <2>1 DEF Outcome
  <2>5. QED
    BY <2>3, <2>4 DEF Contract!Succeed, Outcome
<1>7. CASE /\ ~\E w \in Workers : Claim(w) \/ \E j \in Jobs : Complete(w, j)
           /\ ~\E j \in Jobs : Upload(j)
  <2>1. \A k \in Jobs :
          /\ job'[k].attempts = job[k].attempts
          /\ \/ job'[k].state = job[k].state
             \/ job[k].state = "INDEXING" /\ job'[k].state = "QUEUED"
             \/ /\ job[k].state = "INDEXING" /\ job'[k].state = "FAILED"
                /\ job[k].attempts = MaxAttempts
    BY <1>1, <1>7 DEF RowMove
  <2>2. ASSUME NEW k \in Jobs
        PROVE  outcome'[k] = outcome[k]
                 \/ (outcome[k] = "open" /\ tries[k] = MaxAttempts /\ outcome'[k] = "failed")
    <3>1. Outcome(k)' = Outcome(k)
            \/ (Outcome(k) = "open" /\ job[k].attempts = MaxAttempts /\ Outcome(k)' = "failed")
      <4>1. CASE job'[k].state = job[k].state
        BY <1>2, <4>1 DEF Outcome
      <4>2. CASE job[k].state = "INDEXING" /\ job'[k].state = "QUEUED"
        BY <4>2 DEF Outcome
      <4>3. CASE /\ job[k].state = "INDEXING" /\ job'[k].state = "FAILED"
                 /\ job[k].attempts = MaxAttempts
        BY <4>3 DEF Outcome
      <4>4. QED
        BY <2>1, <4>1, <4>2, <4>3
    <3>2. QED
      BY <3>1
  <2>3. tries' = tries
    BY <2>1
  <2>4. Contract!GiveUp
    BY <2>2, <2>3 DEF Contract!GiveUp, Outcome
  <2>5. QED
    BY <2>4 DEF Contract!Next
<1>8. QED
  BY <1>4, <1>5, <1>6, <1>7 DEF Contract!Next

(* A claim with time left leaves INDEXING by its own worker's hand. *)
LEMMA EndStep ==
  ASSUME IInv, Next, backend = "postgres", NEW w \in Workers, NEW j \in Jobs,
         claims[w][j] > 0, Live(w, j), job'[j].state # "INDEXING"
  PROVE  claims'[w][j] = 0 /\ pc[w] \in {"indexed", "raised"}
<1>1. job[j].state = "INDEXING" /\ job[j].attempts = claims[w][j] /\ job[j].left > 0
  BY DEF Live, Holds
<1>2. PICK v \in Workers : Complete(v, j) \/ Fail(v, j)
  <2>1. ASSUME NEW v \in Workers PROVE ~Recover(v) /\ ~ResetFound(v) /\ ~Claim(v)
    <3>1. ~Expired(j) /\ j \notin Chosen
      BY <1>1 DEF Expired, Chosen, Claimable
    <3>2. ~ResetFound(v)
      BY DEF IInv, RowInv, ResetFound
    <3>3. QED
      BY <1>1, <3>1, <3>2 DEF Recover, Claim
  <2>2. ASSUME NEW k \in Jobs PROVE ~Upload(k) /\ ~BecomeDue(k)
    BY <1>1, NewRows, Put DEF IInv, Upload, BecomeDue, TypeOK
  <2>3. ASSUME NEW k \in Jobs PROVE ~Age(k)
    <3>1. SUFFICES ASSUME Age(k) PROVE FALSE
      OBVIOUS
    <3>2. job[k].attempts \in 0 .. MaxAttempts /\ job[k].left - 1 \in 0 .. Ttl
      BY <3>1, RowHas, JobAssumption DEF Age, IInv
    <3>3. QED
      BY <1>1, <3>1, <3>2, NewRows, Put DEF IInv, Age
  <2>4. ASSUME NEW v \in Workers, NEW k \in Jobs PROVE ~Heartbeat(v, k)
    <3>1. SUFFICES ASSUME Heartbeat(v, k) PROVE FALSE
      OBVIOUS
    <3>2. job[k].attempts \in 0 .. MaxAttempts /\ Ttl \in 0 .. Ttl
      BY RowHas, JobAssumption DEF IInv
    <3>3. QED
      BY <1>1, <3>1, <3>2, NewRows, Put DEF IInv, Heartbeat
  <2>5. ASSUME NEW v \in Workers, NEW k \in Jobs, Complete(v, k) \/ Fail(v, k) PROVE k = j
    <3>1. job' # job
      BY <1>1
    <3>2. PICK r \in JobRow : job' = [job EXCEPT ![k] = r]
      BY <2>5, <3>1, NewRows DEF Complete, Fail, IInv
    <3>3. QED
      BY <1>1, <3>2, Put DEF IInv
  <2>6. job' # job
    BY <1>1
  <2>7. QED
    BY <2>1, <2>2, <2>3, <2>4, <2>5, <2>6
       DEF Next, WorkerStep, FindExpired, Begin, Ingest, ProcessingFails, Crash
<1>3. Live(v, j) /\ claims[v][j] > 0
  BY <1>1, <1>2 DEF Complete, Fail, Current, Pending
<1>4. v = w
  BY <1>1, <1>3 DEF IInv, ClaimInv, Live, Holds
<1>5. QED
  BY <1>2, <1>4, DoneEffect DEF IInv, Complete, Fail

-----------------------------------------------------------------------------
(* Theorems *)

LEMMA Invariance == Spec => []IInv
<1>1. QED
  BY InitInv, Inductive, PTL DEF Spec

(* The types of jobs, workers, claims and findings, on both backends. *)
THEOREM TypeCorrect == Spec => []TypeOK
<1>1. IInv => TypeOK
  BY DEF IInv
<1>2. QED
  BY <1>1, Invariance, PTL

(* On PostgreSQL no job waits with its attempts spent (claim_next, fail, *)
(* recover_expired).                                                     *)
THEOREM QueuedJobsCanBeClaimed == Spec => []NoJobIsStuck
<1>1. IInv => NoJobIsStuck
  BY DEF IInv
<1>2. QED
  BY <1>1, Invariance, PTL

(* On PostgreSQL only the worker that holds a running claim ends it. *)
THEOREM ClaimKept == Spec => ClaimEndsByItsWorker
<1>1. IInv /\ [Next]_vars =>
        [backend = "postgres" =>
           \A w \in Workers, j \in Jobs :
             pc[w] # "idle" /\ claims[w][j] > 0 /\ Live(w, j) /\ job'[j].state # "INDEXING"
               => claims'[w][j] = 0 /\ pc[w] \in {"indexed", "raised"}]_vars
  BY EndStep
<1>2. QED
  BY <1>1, Invariance, PTL DEF Spec, ClaimEndsByItsWorker

(* On both backends the queue keeps the job contract: bounded tries, a ready *)
(* job's document is indexed, an outcome is final.                           *)
THEOREM ContractRefined == Spec => ImplementsJobContract
<1>1. Init => Contract!Init
  BY DEF Init, Contract!Init, Outcome, Row
<1>2. IInv /\ [Next]_vars => [Contract!Next]_(Contract!vars)
  <2>1. UNCHANGED vars => UNCHANGED Contract!vars
    BY DEF vars, Contract!vars, Outcome
  <2>2. QED
    BY <2>1, ContractStep
<1>3. QED
  BY <1>1, <1>2, Invariance, PTL DEF Spec, Contract!Spec, ImplementsJobContract

=============================================================================
