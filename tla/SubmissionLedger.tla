--------------------------- MODULE SubmissionLedger ---------------------------
(***************************************************************************)
(* What the transaction store promises its callers, with Drafts, Grants,   *)
(* Attempts and Receipts hidden: for one Draft, commands are submitted one *)
(* at a time, a command is never submitted twice, its outcome never        *)
(* changes, and nothing follows a success.                                 *)
(***************************************************************************)
CONSTANTS Drafts, Digests

VARIABLE result     \* result[d][c]: what is known of command c of Draft d

Outcomes == {"succeeded", "failed"}

Init == result = [d \in Drafts |-> [c \in Digests |-> "unsubmitted"]]

\* A command may be submitted when every earlier one of the Draft has failed.
Submit(d, c) ==
  /\ result[d][c] = "unsubmitted"
  /\ \A x \in Digests : result[d][x] \in {"unsubmitted", "failed"}
  /\ result' = [result EXCEPT ![d][c] = "open"]

Resolve(d, c, o) ==
  /\ result[d][c] = "open"
  /\ result' = [result EXCEPT ![d][c] = o]

Next == \E d \in Drafts, c \in Digests :
          Submit(d, c) \/ \E o \in Outcomes : Resolve(d, c, o)

Spec == Init /\ [][Next]_result
=============================================================================
