----------------------------- MODULE JobContract -----------------------------
(***************************************************************************)
(* What the document indexing queue promises (index_jobs.py): a job is     *)
(* tried a bounded number of times, its success is that of a try, and it   *)
(* fails only when all tries are spent.                                    *)
(***************************************************************************)
EXTENDS Naturals

CONSTANTS Jobs, MaxAttempts

VARIABLES
  outcome,   \* "none", "open", "ready" or "failed", of each job
  tries      \* how often each was tried

vars == <<outcome, tries>>

Init ==
  /\ outcome = [j \in Jobs |-> "none"]
  /\ tries = [j \in Jobs |-> 0]

Submit(j) ==
  /\ outcome[j] = "none"
  /\ outcome' = [outcome EXCEPT ![j] = "open"]
  /\ UNCHANGED tries

\* One transaction may begin a try of several jobs.
Try ==
  /\ \A j \in Jobs :
       \/ tries'[j] = tries[j]
       \/ outcome[j] = "open" /\ tries[j] < MaxAttempts /\ tries'[j] = tries[j] + 1
  /\ UNCHANGED outcome

Succeed(j) ==
  /\ outcome[j] = "open" /\ tries[j] > 0
  /\ outcome' = [outcome EXCEPT ![j] = "ready"]
  /\ UNCHANGED tries

\* And give up several.
GiveUp ==
  /\ \A j \in Jobs :
       \/ outcome'[j] = outcome[j]
       \/ outcome[j] = "open" /\ tries[j] = MaxAttempts /\ outcome'[j] = "failed"
  /\ UNCHANGED tries

Next == Try \/ GiveUp \/ \E j \in Jobs : Submit(j) \/ Succeed(j)

Spec == Init /\ [][Next]_vars
=============================================================================
