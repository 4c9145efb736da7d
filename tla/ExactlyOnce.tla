---------------------------- MODULE ExactlyOnce ----------------------------
(***************************************************************************)
(* What the write path of one campaign promises, whoever calls it and how  *)
(* often: every command has its effect at most once, effects come in one   *)
(* order that is never rewritten, and the roll a command asks for is made  *)
(* only after that command.                                                *)
(***************************************************************************)
EXTENDS Sequences, SequencesExt

CONSTANTS
  Commands,   \* command ids
  NoCommand,
  Clicks,     \* the commands users issue
  RollOf      \* the command that brings the roll a command asks for, if any

VARIABLE history  \* the commands that took effect, in order

Ran == ToSet(history)

Owed == {RollOf[c] : c \in Ran} \ {NoCommand}

Init == history = <<>>

Run(c) ==
  /\ c \notin Ran
  /\ c \in Clicks \cup Owed
  /\ history' = Append(history, c)

Next == \E c \in Commands : Run(c)

Spec == Init /\ [][Next]_history
============================================================================
