SPECIFICATION Spec
CONSTANTS
  o = o
  u1 = u1
  u2 = u2
  h1 = h1
  h2 = h2
  NoHero = NoHero
  Users <- Guests
  Organizer = o
  Heroes <- AllHeroes
  Applicants = {}
  Sizes = {2}
  Visibilities = {FALSE}
  MinPlayers = 1
  Timed = FALSE
  MaxFaults = 0
  CutOff = {}
INVARIANTS
  EndedGamesAreStopped
