\* Two heroes with turn timers against a foe with spirits.
CONSTANTS
    h1 = h1
    h2 = h2
    f = f
    Heroes = {h1, h2}
    Foes = {f}
    Fights <- TimedSpirits
    None = None
SPECIFICATION Spec
INVARIANT
  DeathSaveKeepsTheTurn
