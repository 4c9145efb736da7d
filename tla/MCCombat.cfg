\* Four fights of two heroes against one foe.
CONSTANTS
    h1 = h1
    h2 = h2
    f = f
    Heroes = {h1, h2}
    Foes = {f}
    Fights <- MCFights
    None = None
SPECIFICATION FairSpec
INVARIANTS
  FightInOrder
  NeverStalls
  DiceBeforeDamage
PROPERTIES
  AwayHeroesAreSafe
  TurnsGoRound
  WindowsClose
  FoesPlayTheirTurns
