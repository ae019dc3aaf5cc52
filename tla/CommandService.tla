---------------------------- MODULE CommandService ----------------------------
(***************************************************************************)
(* What a caller of the Business Service may rely on, for the commands on  *)
(* one order that open an application (refund, after-sales), change the    *)
(* order (address, cancellation) or ask for an invoice or a delivery urge: *)
(* a command takes effect at most once, a repeated one is answered with    *)
(* the first answer, and a command is refused only while it has no effect. *)
(***************************************************************************)
EXTENDS Naturals

CONSTANTS Calls, Commands, KindOf, ExpectedVersion, MaxOrderVersion, None

VARIABLES
  version,   \* version of the order
  status,    \* "unshipped", "signed" or "cancelled"
  open,      \* applications of the order that are not closed
  done,      \* commands with a recorded effect
  call       \* call[i]: a request and what became of it

order == <<version, status>>
vars  == <<order, open, done, call>>

Idle == [state |-> "idle", cmd |-> None]

Init ==
  /\ version = 1
  /\ status \in {"unshipped", "signed"}
  /\ open = {}
  /\ done = {}
  /\ call = [i \in Calls |-> Idle]

Answer(i, s) == call' = [call EXCEPT ![i].state = s]

Eligible ==
  [apply |-> {"signed"}, change |-> {"unshipped"}, cancel |-> {"unshipped"},
   urge |-> {"unshipped"}, invoice |-> {"unshipped", "signed"}]

(* The order is at the version the command names, in a state that allows the *)
(* command, and an application finds no other one open.                      *)
Acceptable(c) ==
  /\ version = ExpectedVersion[c]
  /\ status \in Eligible[KindOf[c]]
  /\ KindOf[c] = "apply" => open = {}

Send(i, c) ==
  /\ call[i] = Idle
  /\ call' = [call EXCEPT ![i] = [state |-> "sent", cmd |-> c]]
  /\ UNCHANGED <<order, open, done>>

Accept(i) ==
  LET c == call[i].cmd
  IN  /\ call[i].state = "sent"
      /\ c \notin done
      /\ Acceptable(c)
      /\ done' = done \cup {c}
      /\ open' = IF KindOf[c] = "apply" THEN {c} ELSE open
      /\ version' = IF KindOf[c] \in {"change", "cancel"} THEN version + 1 ELSE version
      /\ status' = IF KindOf[c] = "cancel" THEN "cancelled" ELSE status
      /\ Answer(i, "ok")

Replay(i) ==
  /\ call[i].state = "sent"
  /\ call[i].cmd \in done
  /\ Answer(i, "ok")
  /\ UNCHANGED <<order, open, done>>

Refuse(i) ==
  /\ call[i].state = "sent"
  /\ call[i].cmd \notin done
  /\ ~Acceptable(call[i].cmd)
  /\ Answer(i, "refused")
  /\ UNCHANGED <<order, open, done>>

\* The request, or the transaction that served it, is lost without effect.
Lose(i) ==
  /\ call[i].state = "sent"
  /\ Answer(i, "lost")
  /\ UNCHANGED <<order, open, done>>

Forget(i) ==
  /\ call[i].state \in {"ok", "refused", "lost"}
  /\ call' = [call EXCEPT ![i] = Idle]
  /\ UNCHANGED <<order, open, done>>

\* Staff and other routes change the order, or close its applications.
TouchOrder ==
  /\ version < MaxOrderVersion
  /\ version' = version + 1
  /\ status' \in IF status = "unshipped" THEN {"unshipped", "signed"} ELSE {status}
  /\ UNCHANGED <<open, done, call>>

CloseApplications ==
  /\ open # {}
  /\ open' = {}
  /\ UNCHANGED <<order, done, call>>

\* An application for the order that comes from elsewhere than these commands.
ApplyElsewhere ==
  /\ open = {}
  /\ open' = {None}
  /\ UNCHANGED <<order, done, call>>

Next ==
  \/ \E i \in Calls : \/ \E c \in Commands : Send(i, c)
                      \/ Accept(i) \/ Replay(i) \/ Refuse(i) \/ Lose(i) \/ Forget(i)
  \/ TouchOrder
  \/ CloseApplications
  \/ ApplyElsewhere

Spec == Init /\ [][Next]_vars
=============================================================================
