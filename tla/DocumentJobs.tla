---------------------------- MODULE DocumentJobs ----------------------------
(***************************************************************************)
(* The queue of document indexing jobs (index_jobs.py) and the workers     *)
(* that empty it (DocumentService.process_pending_jobs): what has expired  *)
(* is recovered, several jobs are claimed at once and worked on one after  *)
(* the other, and only the one in work has its lease renewed.              *)
(*                                                                         *)
(* The claim token of a claim is unique; the attempt counter, which every  *)
(* claim increments, stands for it.  Jobs are numbered by creation.        *)
(***************************************************************************)
EXTENDS Naturals, FiniteSets

CONSTANTS
  JobCount,      \* jobs that are uploaded
  Workers,       \* runs of process_pending_jobs that may overlap
  Backends,      \* "sqlite" for the local profile, "postgres" for the others
  MaxAttempts,   \* max_attempts of a job
  Limit,         \* jobs that are claimed at once
  Ttl,           \* time units a lease lasts without renewal
  MaxCrashes     \* bound on the crashes of workers

ASSUME JobAssumption ==
  /\ JobCount \in Nat
  /\ Backends \subseteq {"sqlite", "postgres"}
  /\ MaxAttempts \in Nat \ {0} /\ Limit \in Nat \ {0} /\ Ttl \in Nat \ {0}
  /\ MaxCrashes \in Nat

Jobs == 1 .. JobCount

VARIABLES
  backend,    \* fixed at the start
  job,        \* the rows of document_index_jobs
  indexed,    \* the documents that the RAG provider has ingested
  pc,         \* where each worker is
  found,      \* what its unfinished recover_expired will do to the jobs it found
  claims,     \* the attempt of each job that it has claimed and not finished, or 0
  crashes     \* how many workers have crashed

workerVars == <<pc, found, claims>>
vars == <<backend, job, indexed, workerVars, crashes>>

States == {"NONE", "QUEUED", "INDEXING", "READY", "FAILED"}

\* left: what is left of the lease; delay: 1 until a queued job's next_attempt_at.
Row(state, attempts, left, delay) ==
  [state |-> state, attempts |-> attempts, left |-> left, delay |-> delay]

NoClaims == [j \in Jobs |-> 0]
NothingFound == [j \in Jobs |-> "keep"]

Init ==
  /\ backend \in Backends
  /\ job = [j \in Jobs |-> Row("NONE", 0, 0, 0)]
  /\ indexed = {}
  /\ pc = [w \in Workers |-> "idle"]
  /\ found = [w \in Workers |-> NothingFound]
  /\ claims = [w \in Workers |-> NoClaims]
  /\ crashes = 0

-----------------------------------------------------------------------------
Goto(w, s) == pc' = [pc EXCEPT ![w] = s]

\* A job that waits, is worked on, or has ended.
Queued(j, delay)          == Row("QUEUED", job[j].attempts, 0, delay)
Indexing(attempts, left)  == Row("INDEXING", attempts, left, 0)
Ended(j, state)           == Row(state, job[j].attempts, 0, 0)

(* enqueue, by an upload. *)
Upload(j) ==
  /\ job[j].state = "NONE" /\ \A k \in 1 .. j - 1 : job[k].state # "NONE"
  /\ job' = [job EXCEPT ![j] = Queued(j, 0)]
  /\ UNCHANGED <<backend, indexed, workerVars, crashes>>

-----------------------------------------------------------------------------
(* recover_expired: called when a worker begins, and again by claim_next *)

Expired(j) == job[j].state = "INDEXING" /\ job[j].left = 0

\* What becomes of an expired job.
Verdict(j) == IF job[j].attempts >= MaxAttempts THEN "FAILED" ELSE "QUEUED"

Recovered(j, state) == IF state = "FAILED" THEN Ended(j, "FAILED") ELSE Queued(j, 0)

AfterRecovery(w) == IF pc[w] = "idle" THEN "again" ELSE "claim"

\* Mutant: an expired job is queued again, however often it was tried.
RecoverAlways(w) ==
  /\ backend = "postgres" /\ pc[w] \in {"idle", "again"}
  /\ job' = [j \in Jobs |-> IF Expired(j) THEN Recovered(j, "QUEUED") ELSE job[j]]
  /\ Goto(w, AfterRecovery(w))
  /\ UNCHANGED <<backend, indexed, found, claims, crashes>>

\* PostgreSQL: the rows are locked, read and written in one transaction.
Recover(w) ==
  /\ backend = "postgres" /\ pc[w] \in {"idle", "again"}
  /\ job' = [j \in Jobs |-> IF Expired(j) THEN Recovered(j, Verdict(j)) ELSE job[j]]
  /\ Goto(w, AfterRecovery(w))
  /\ UNCHANGED <<backend, indexed, found, claims, crashes>>

\* SQLite: the transaction begins with the first UPDATE, after the SELECT.
FindExpired(w) ==
  /\ backend = "sqlite" /\ pc[w] \in {"idle", "again"}
  /\ found' = [found EXCEPT ![w] = [j \in Jobs |-> IF Expired(j) THEN Verdict(j) ELSE "keep"]]
  /\ Goto(w, IF pc[w] = "idle" THEN "found" ELSE "found again")
  /\ UNCHANGED <<backend, job, indexed, claims, crashes>>

\* Mutant: the update is not restricted to jobs that are still INDEXING.
ResetAnyState(w) ==
  /\ pc[w] \in {"found", "found again"}
  /\ job' = [j \in Jobs |-> IF found[w][j] # "keep" THEN Recovered(j, found[w][j]) ELSE job[j]]
  /\ found' = [found EXCEPT ![w] = NothingFound]
  /\ Goto(w, IF pc[w] = "found" THEN "again" ELSE "claim")
  /\ UNCHANGED <<backend, indexed, claims, crashes>>

\* The UPDATE asks for the state only, not for the claim that had expired.
ResetFound(w) ==
  /\ pc[w] \in {"found", "found again"}
  /\ job' = [j \in Jobs |-> IF found[w][j] # "keep" /\ job[j].state = "INDEXING"
                            THEN Recovered(j, found[w][j]) ELSE job[j]]
  /\ found' = [found EXCEPT ![w] = NothingFound]
  /\ Goto(w, IF pc[w] = "found" THEN "again" ELSE "claim")
  /\ UNCHANGED <<backend, indexed, claims, crashes>>

-----------------------------------------------------------------------------
(* claim_next: the oldest jobs that are due, in one transaction *)

\* Mutant: the attempts are not counted.
ClaimableForever(j) == job[j].state = "QUEUED" /\ job[j].delay = 0

Claimable(j) == job[j].state = "QUEUED" /\ job[j].delay = 0 /\ job[j].attempts < MaxAttempts

Chosen == {j \in Jobs : Claimable(j) /\ Cardinality({k \in 1 .. j - 1 : Claimable(k)}) < Limit}

Claim(w) ==
  /\ pc[w] = "claim"
  /\ job' = [j \in Jobs |-> IF j \in Chosen THEN Indexing(job[j].attempts + 1, Ttl) ELSE job[j]]
  /\ claims' = [claims EXCEPT ![w] =
       [j \in Jobs |-> IF j \in Chosen THEN job[j].attempts + 1 ELSE 0]]
  /\ Goto(w, "next")
  /\ UNCHANGED <<backend, indexed, found, crashes>>

-----------------------------------------------------------------------------
(* _process_job, for one claimed job after the other *)

Pending(w)    == {j \in Jobs : claims[w][j] > 0}
Current(w, j) == j \in Pending(w) /\ \A k \in Pending(w) : j <= k

\* The row still carries this worker's claim; and its lease runs.
Holds(w, j) == job[j].state = "INDEXING" /\ job[j].attempts = claims[w][j]
Live(w, j)  == Holds(w, j) /\ job[j].left > 0

Begin(w) ==
  /\ pc[w] = "next"
  /\ Goto(w, IF Pending(w) = {} THEN "idle" ELSE "work")
  /\ UNCHANGED <<backend, job, indexed, found, claims, crashes>>

\* The heartbeat thread, for the job in work; it is given two seconds to stop.
Heartbeat(w, j) ==
  /\ pc[w] \in {"work", "indexed", "raised"} /\ Current(w, j)
  /\ Live(w, j)
  /\ job' = [job EXCEPT ![j] = Indexing(job[j].attempts, Ttl)]
  /\ UNCHANGED <<backend, indexed, workerVars, crashes>>

\* The provider ingests under the id of the job, before the claim is looked at.
Ingest(w, j) ==
  /\ pc[w] = "work" /\ Current(w, j)
  /\ indexed' = indexed \cup {j}
  /\ Goto(w, "indexed")
  /\ UNCHANGED <<backend, job, found, claims, crashes>>

Done(w, j) ==
  /\ claims' = [claims EXCEPT ![w][j] = 0]
  /\ Goto(w, "next")

\* Mutant: a worker completes the job whoever has claimed it since.
CompleteStale(w, j) ==
  /\ pc[w] = "indexed" /\ Current(w, j)
  /\ job[j].state = "INDEXING"
  /\ job' = [job EXCEPT ![j] = Ended(j, "READY")]
  /\ Done(w, j)
  /\ UNCHANGED <<backend, indexed, found, crashes>>

Complete(w, j) ==
  /\ pc[w] = "indexed" /\ Current(w, j)
  /\ Live(w, j)
  /\ job' = [job EXCEPT ![j] = Ended(j, "READY")]
  /\ Done(w, j)
  /\ UNCHANGED <<backend, indexed, found, crashes>>

\* Materialising or ingesting fails, a renewal failed, or the completion is rejected.
ProcessingFails(w, j) ==
  /\ pc[w] \in {"work", "indexed"} /\ Current(w, j)
  /\ Goto(w, "raised")
  /\ UNCHANGED <<backend, job, indexed, found, claims, crashes>>

\* Mutant: a failure with no attempt left queues the job once more.
FailAlwaysRetries(w, j) ==
  /\ pc[w] = "raised" /\ Current(w, j)
  /\ job' = IF Live(w, j)
            THEN [job EXCEPT ![j] = Queued(j, 1)]
            ELSE job
  /\ Done(w, j)
  /\ UNCHANGED <<backend, indexed, found, crashes>>

\* fail: SQLite looks at the lease before it writes, so it may have expired since.
Fail(w, j) ==
  /\ pc[w] = "raised" /\ Current(w, j)
  /\ \/ /\ Live(w, j) \/ (backend = "sqlite" /\ Holds(w, j))
        /\ job' = [job EXCEPT ![j] = IF job[j].attempts < MaxAttempts THEN Queued(j, 1)
                                                                    ELSE Ended(j, "FAILED")]
     \/ ~Live(w, j) /\ UNCHANGED job
  /\ Done(w, j)
  /\ UNCHANGED <<backend, indexed, found, crashes>>

-----------------------------------------------------------------------------
(* Time and crashes *)

\* The lease of a job grows older.
Age(j) ==
  /\ job[j].state = "INDEXING" /\ job[j].left > 0
  /\ job' = [job EXCEPT ![j] = Indexing(job[j].attempts, job[j].left - 1)]
  /\ UNCHANGED <<backend, indexed, workerVars, crashes>>

\* next_attempt_at is reached.
BecomeDue(j) ==
  /\ job[j].state = "QUEUED" /\ job[j].delay > 0
  /\ job' = [job EXCEPT ![j] = Queued(j, 0)]
  /\ UNCHANGED <<backend, indexed, workerVars, crashes>>

\* What a worker had claimed stays INDEXING; another run begins.
Crash(w) ==
  /\ crashes < MaxCrashes /\ pc[w] # "idle"
  /\ Goto(w, "idle")
  /\ found' = [found EXCEPT ![w] = NothingFound]
  /\ claims' = [claims EXCEPT ![w] = NoClaims]
  /\ crashes' = crashes + 1
  /\ UNCHANGED <<backend, job, indexed>>

WorkerStep(w) ==
  \/ Recover(w) \/ FindExpired(w) \/ ResetFound(w) \/ Claim(w) \/ Begin(w)
  \/ \E j \in Jobs : Ingest(w, j) \/ Complete(w, j) \/ ProcessingFails(w, j) \/ Fail(w, j)

Next ==
  \/ \E w \in Workers : WorkerStep(w) \/ Crash(w) \/ \E j \in Jobs : Heartbeat(w, j)
  \/ \E j \in Jobs : Upload(j) \/ Age(j) \/ BecomeDue(j)

Spec == Init /\ [][Next]_vars

\* The workers are run again and again, and time passes.
FairSpec ==
  /\ Spec
  /\ \A w \in Workers : WF_vars(WorkerStep(w))
  /\ \A j \in Jobs : WF_vars(Age(j)) /\ WF_vars(BecomeDue(j))

-----------------------------------------------------------------------------
(* Correctness *)

JobRow == [state : States, attempts : 0 .. MaxAttempts, left : 0 .. Ttl, delay : 0 .. 1]

TypeOK ==
  /\ backend \in Backends
  /\ job \in [Jobs -> JobRow]
  /\ indexed \subseteq Jobs
  /\ pc \in [Workers -> {"idle", "found", "again", "found again", "claim", "next", "work",
                         "indexed", "raised"}]
  /\ found \in [Workers -> [Jobs -> {"keep", "QUEUED", "FAILED"}]]
  /\ claims \in [Workers -> [Jobs -> Nat]]
  /\ crashes \in 0 .. MaxCrashes

(* A job that waits can still be claimed (claim_next asks for attempts that  *)
(* are left): no interleaving of recovery, failure and claims may leave one  *)
(* in the queue that nobody will ever take.  On PostgreSQL; on SQLite        *)
(* ResetFound may undo the last claim of a job.                              *)
NoJobIsStuck ==
  backend = "postgres" =>
    \A j \in Jobs : job[j].state = "QUEUED" => job[j].attempts < MaxAttempts

(* A claim whose lease runs is ended by its own worker only, by completing   *)
(* or failing the job (complete, fail, recover_expired).                     *)
ClaimEndsByItsWorker ==
  [][backend = "postgres" =>
       \A w \in Workers, j \in Jobs :
         pc[w] # "idle" /\ claims[w][j] > 0 /\ Live(w, j) /\ job'[j].state # "INDEXING"
           => claims'[w][j] = 0 /\ pc[w] \in {"indexed", "raised"}]_vars

(* The queue keeps the job contract, and a job is ready only when its        *)
(* document is in the index.                                                 *)
Outcome(j) ==
  IF job[j].state \in {"QUEUED", "INDEXING"} THEN "open"
  ELSE IF job[j].state = "READY" THEN (IF j \in indexed THEN "ready" ELSE "missing")
  ELSE IF job[j].state = "FAILED" THEN "failed" ELSE "none"

Contract == INSTANCE JobContract
              WITH outcome <- [j \in Jobs |-> Outcome(j)],
                   tries   <- [j \in Jobs |-> job[j].attempts]

ImplementsJobContract == Contract!Spec

(* Whoever crashes, a job that was uploaded is ready or has failed in the    *)
(* end, it does not stay INDEXING (the module's docstring).                  *)
EveryJobEnds ==
  \A j \in Jobs : backend = "postgres" /\ job[j].state = "QUEUED"
                    ~> job[j].state \in {"READY", "FAILED"}
=============================================================================
