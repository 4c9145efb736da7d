------------------------------ MODULE MCCombat ------------------------------
\* Fights of two heroes and a foe, for TLC.
EXTENDS Combat

CONSTANTS h1, h2, f

Fight(timed, steady, foe, first, second) ==
    [timed |-> timed, steady |-> steady, order |-> <<h1, f, h2>>,
     traits |-> [c \in Creatures |-> CASE c = f -> foe [] c = h1 -> first [] c = h2 -> second]]

\* Between them the fights have every trait.  Two are played with timers; in
\* one of these spirits hurt a hero who concentrates.
MCFights ==
    {Fight(TRUE, FALSE, {"bolt"}, {"smite"}, {"counterspell"}),
     Fight(FALSE, FALSE, {"multiattack", "legendary", "deathBurst", "coward"}, {"smite"}, {"bless"}),
     Fight(FALSE, FALSE, {"spirits", "blast"}, {"missile", "shield"}, {"retort", "retaliation"}),
     Fight(TRUE, TRUE, {"spirits"}, {}, {"bless"})}

\* Turn timers, and a foe that hurts heroes as their turns start.
TimedSpirits == {Fight(TRUE, FALSE, {"spirits"}, {"smite"}, {"smite"})}
=============================================================================
