--------------------------- MODULE MCCommandBus ---------------------------
(* A process that is shutting down and still answers its users beside the  *)
(* one that took over the workers.                                         *)
EXTENDS CommandBus

CONSTANTS p1, p2, k1, k2, k3, roll1

TwoProcesses == {p1, p2}

\* Three users' commands, one of which asks for a roll.
AllCommands == {k1, k2, k3, roll1}
AllClicks == {k1, k2, k3}
RollOfOne == [k \in AllCommands |-> IF k = k1 THEN roll1 ELSE NoCommand]

\* Every command id reaches one process.
Apart == [p \in TwoProcesses |-> IF p = p1 THEN {k1, roll1} ELSE {k2, k3}]
===========================================================================
