---------------------------- MODULE TurnRegister ----------------------------
(***************************************************************************)
(* What the conversation lease and the fenced checkpoint store promise     *)
(* together (agent_service.py, _serialized_turn): turns of a conversation  *)
(* follow one another, and only the turn that is open adds checkpoints.    *)
(***************************************************************************)
EXTENDS Sequences

CONSTANTS Turns, None

VARIABLES
  current,   \* the turn that is open, or None
  log        \* whose checkpoint each checkpoint is, oldest first

vars == <<current, log>>

Init == current = None /\ log = <<>>

Open(t) == current' = t /\ UNCHANGED log

AddCheckpoint == /\ current # None
           /\ log' = Append(log, current)
           /\ UNCHANGED current

Close == current' = None /\ UNCHANGED log

Next == (\E t \in Turns : Open(t)) \/ AddCheckpoint \/ Close

Spec == Init /\ [][Next]_vars
=============================================================================
