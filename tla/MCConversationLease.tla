------------------------- MODULE MCConversationLease -------------------------
(* Three requests for one conversation; two of them reach one process.       *)
EXTENDS ConversationLease, TLC

CONSTANTS t1, t2, t3, p1, p2

MCTurns     == {t1, t2, t3}
MCProcessOf == (t1 :> p1) @@ (t2 :> p2) @@ (t3 :> p1)
=============================================================================
