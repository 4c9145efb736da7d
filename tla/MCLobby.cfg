SPECIFICATION LiveSpec
CONSTANTS
  o = o
  u1 = u1
  u2 = u2
  h1 = h1
  h2 = h2
  NoHero = NoHero
  Users <- Everybody
  Organizer = u1
  Heroes <- AllHeroes
  Applicants = {u2}
  Sizes = {1, 2}
  Visibilities = {TRUE, FALSE}
  MinPlayers = 1
  Timed = FALSE
  MaxFaults = 1
  CutOff = {"start", "join", "queued", "replace", "retire", "end"}
INVARIANTS
  SeatsInOrder
  SeatsMatchTheTable
PROPERTIES
  QueuedJoinsAreMade
  StartedGamesBegin
