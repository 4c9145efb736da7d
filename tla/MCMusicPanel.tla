---------------------------- MODULE MCMusicPanel ----------------------------
\* The music panel of one guild, for TLC.
EXTENDS MusicPanel

MCPriority == [m \in Messages |-> CASE m = "queue" -> 0 [] m = "lyrics" -> 1 [] OTHER -> 3]

\* The queue message is edited at once, the others after a while.
MCFloor == [m \in Messages |-> IF m = "queue" THEN 0 ELSE IF m = "lyrics" THEN 1 ELSE 2]
=============================================================================
