SPECIFICATION LiveSpec
CONSTANTS
  u1 = u1
  u2 = u2
  u3 = u3
  h1 = h1
  h2 = h2
  h3 = h3
  s1 = s1
  s2 = s2
  NoHero = NoHero
  NoScene = NoScene
  Users <- TwoUsers
  Heroes <- TwoHeroes
  Organizer = u1
  Seats <- TwoSeats
  Scenes = {s1}
  StartScene = s1
  AwayAfterMisses = 2
  RoundTimed = TRUE
  RollTimed = TRUE
  Commands <- TableCommands
  MaxRounds = 2
INVARIANTS
  TableInOrder
  TimersInOrder
  EveryWaitHasItsWaker
  SlotsWaitOnThePresent
PROPERTIES
  ClosedRoundKeepsItsAnswers
  NoRoundStartsWhileWaiting
  TableMovesOn
CHECK_DEADLOCK FALSE
