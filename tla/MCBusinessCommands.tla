-------------------------- MODULE MCBusinessCommands --------------------------
(* Concurrent requests for competing commands on one order.  The first five  *)
(* are prepared for its first version: two address changes (one customer in  *)
(* two conversations), a cancellation, an invoice and a delivery urge; then  *)
(* an invoice and an urge of another conversation, and two applications for  *)
(* the order after delivery.                                                 *)
EXTENDS BusinessCommands, TLC

CONSTANTS change, cancel, inv1, inv2, urge1, urge2, app1, app2

MCKindOf ==
  [c \in Commands |-> CASE c = change -> "change" [] c = cancel -> "cancel"
                       [] c \in {inv1, inv2} -> "invoice" [] c \in {urge1, urge2} -> "urge"
                       [] OTHER -> "apply"]

MCExpectedVersion == [c \in Commands |-> IF c \in {app1, app2} THEN 2 ELSE 1]

\* Two commands of one kind and version are interchangeable.
Symmetry == Permutations(Calls) \cup Permutations({inv1, inv2})
              \cup Permutations({urge1, urge2}) \cup Permutations({app1, app2})
=============================================================================
