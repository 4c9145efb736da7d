---------------------------- MODULE MCChatTurns ----------------------------
(* Two people in a channel with durable memories and one without: one of   *)
(* them talks in both, and the bot has two opportunities in the first.     *)
EXTENDS ChatTurns

FourTurns == 1..4
Rooms == {"shared", "session"}
Where == [t \in FourTurns |-> IF t = 2 THEN "session" ELSE "shared"]
OneGuild == [c \in Rooms |-> "guild"]
Opportunities == {3, 4}
TwoAtOnce == [t \in FourTurns |-> IF t = 2 THEN 1 ELSE 2]
People == {"ann", "bob"}
Who == [t \in FourTurns |-> IF t = 4 THEN "bob" ELSE "ann"]
SharedOnly == {"shared"}
=============================================================================
