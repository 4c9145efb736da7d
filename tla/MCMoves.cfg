SPECIFICATION Spec
CONSTANTS
  u1 = u1
  u2 = u2
  u3 = u3
  h1 = h1
  h2 = h2
  h3 = h3
  s1 = s1
  s2 = s2
  NoHero = NoHero
  NoScene = NoScene
  Users <- ThreeUsers
  Heroes <- ThreeHeroes
  Organizer = u1
  Seats <- ThreeSeats
  Scenes = {s1, s2}
  StartScene = s1
  AwayAfterMisses = 2
  RoundTimed = TRUE
  RollTimed = FALSE
  Commands <- MoveCommands
  MaxRounds = 2
INVARIANTS
  TypeOK
PROPERTIES
  TableStaysWhenHalfSaySo
  OnlyRealMissesCount
SYMMETRY Alike
CHECK_DEADLOCK FALSE
