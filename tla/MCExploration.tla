--------------------------- MODULE MCExploration ---------------------------
(* Small tables for TLC.  A slice is the set of commands its users issue.  *)
EXTENDS Exploration, TLC

CONSTANTS u1, u2, u3, h1, h2, h3, s1, s2

TwoHeroes == {h1, h2}
TwoUsers == {u1, u2}
ThreeUsers == {u1, u2, u3}
ThreeHeroes == {h1, h2, h3}
ThreeSeats == (u1 :> h1) @@ (u2 :> h2) @@ (u3 :> h3)
TwoSeats == (u1 :> h1) @@ (u2 :> h2)

\* Rounds, rests and members.
TableCommands ==
  {"submitAction", "pass", "closeRound", "requestRoll", "markAway", "markReturned",
   "retireMember", "joinHero", "continue", "pauseCampaign", "retryPlan",
   "beginPlay", "queueRest", "takeRest", "crash"}

\* Getting ready, rounds, votes on moves, and members who leave in between.
MoveCommands ==
  {"submitAction", "markAway", "retireMember", "ready",
   "proposeMove", "objectToMove", "supportMove",
   "withdrawObjection", "withdrawMoveSupport", "settleMove"}

\* The two players who do not run the campaign are alike, with their heroes.
Alike ==
  {(u2 :> v2) @@ (u3 :> v3) @@ (h2 :> g2) @@ (h3 :> g3) :
     <<v2, v3, g2, g3>> \in {<<u2, u3, h2, h3>>, <<u3, u2, h3, h2>>}}

=============================================================================
