------------------------------- MODULE Combat -------------------------------
(***************************************************************************)
(* engine/combat: one fight of a campaign.  A command, a saved roll or a   *)
(* timer is one decision: a chain of calls in one store transaction that   *)
(* runs until the fight waits for dice, for a player or for a timer.  The  *)
(* chain is the variable `call`, the function to run next; one action runs *)
(* one function, and nothing else moves before the chain is done.          *)
(*                                                                         *)
(* Hit points, zones, slots, ranges and conditions are data: a blow does   *)
(* to its target any of what it could, a creature in reach is any creature *)
(* of the other side.                                                      *)
(***************************************************************************)
EXTENDS Naturals, Sequences, FiniteSets

CONSTANTS Heroes, Foes,   \* the creatures, one player for each hero
          Fights,         \* the fights looked at: timed (with turn timers or
                          \* without), order (the one the initiative dice
                          \* give), traits (what each creature can do) and
                          \* steady (a bound: nobody comes, goes or pauses)
          None

Creatures == Heroes \cup Foes

ASSUME CreaturesAssumption ==
    /\ IsFiniteSet(Creatures) /\ Heroes \cap Foes = {} /\ None \notin Creatures
    /\ Heroes # {} /\ Foes # {}
    /\ \A fight \in Fights :
          /\ fight.timed \in BOOLEAN /\ fight.steady \in BOOLEAN
          /\ fight.order \in [1 .. Cardinality(Creatures) -> Creatures]
          /\ {fight.order[i] : i \in DOMAIN fight.order} = Creatures

VARIABLES
    fight,         \* the fight, one of Fights
    status,        \* of the table: "active", "waiting" or "paused"
    present,       \* heroes whose player is at the table
    leaving,       \* the hero whose player is being marked away, or None
    phase,         \* "initiative", "active" or "ended"
    order,         \* the turn order
    cond,          \* of each creature
    fails,         \* failed death saves of each hero
    reaction,      \* creatures with a reaction left, as a function
    focus,         \* creatures that concentrate on a spell
    burning,       \* heroes whom a foe's spell hurts as their turn starts
    spent,         \* dead foes whose burst is over
    turn,          \* the turn in progress
    deferred,      \* index of the turn due when the table emptied, or None
    resolution,    \* the action being resolved, or None
    move,          \* the move that waits for opportunity attacks, or None
    triggers,      \* the creature whose start-of-turn effect is rolled, or None
    pendingRolls,  \* the dice the fight waits for
    jobs,          \* rolls in the outbox
    timers,        \* pending timers in the store
    due,           \* what the timer worker has in hand
    call,          \* the function the decision in progress runs next
    astray         \* history: a roll was left behind by what it belongs to

tableVars == <<fight, status, present, leaving, astray>>
creatureVars == <<cond, fails, reaction, focus, burning, spent>>
turnVars == <<phase, order, turn, deferred>>
flightVars == <<resolution, move, triggers>>
diceVars == <<pendingRolls, jobs>>
timerVars == <<timers, due>>
vars == <<tableVars, creatureVars, turnVars, flightVars, diceVars, timerVars, call>>

Done == [fn |-> "done"]
Call(f) == [fn |-> f]

\* No decision is being taken.
Idle == call = Done /\ leaving = None

(***************************************************************************)
(* Two decisions of the code leave a roll behind: a turn timer that ends   *)
(* the turn of a hero whose death save is not in (TurnTimerExpired), and   *)
(* an effect at the start of a turn that hurts a hero who concentrates     *)
(* (RecordTrigger): their save then belongs to no action, and is refused.  *)
(* Such a decision is taken to its end; the fight is not followed further. *)
(***************************************************************************)
Free == Idle /\ ~astray

Traits == fight.traits
Current == IF turn.index = 0 THEN None ELSE order[turn.index]
isActive(c) == cond[c] = "active"
isPresent(c) == cond[c] \notin {"dead", "fled"}
isPlayerControlled(c) == c \in present
isProtected(c) == c \in Heroes \ present
canReact(c) == isActive(c) /\ reaction[c]
Enemies(c) == IF c \in Heroes THEN Foes ELSE Heroes
Busy == resolution # None \/ move # None \/ triggers # None

-----------------------------------------------------------------------------
(***************************************************************************)
(* Actions and what they need.  "weapon": an attack roll.  "blast" (a      *)
(* breath, a death burst) and "bolt" (a spell): saving throws, and damage  *)
(* for whoever saves too.  "missile": a spell that needs no check.         *)
(* "bless", "spirits": a spell to concentrate on, without dice; spirits    *)
(* hurt the heroes near the caster as their turns start.                   *)
(***************************************************************************)
Spells == {"bolt", "missile", "bless", "spirits"}
NeedsFocus == {"bless", "spirits"}
NeedsCheck == {"weapon", "blast", "bolt"}
Harms == {"weapon", "blast", "bolt", "missile"}

\* Saving throws a downed creature fails without a roll.
autoFails(kind, c) == kind \in {"blast", "bolt"} /\ ~isActive(c)

Resolution(actor, kind, targets, purpose, resumes) ==
    [actor |-> actor, kind |-> kind, targets |-> targets, purpose |-> purpose,
     stage |-> "checks", window |-> None, resumes |-> resumes,
     landed |-> IF kind \in NeedsCheck THEN {c \in targets : autoFails(kind, c)} ELSE targets]

\* What an interrupted action is remembered by.
Outline(r) == [actor |-> r.actor, kind |-> r.kind, purpose |-> r.purpose]
resumesAs(r) == IF r.resumes = None THEN Outline(r) ELSE r.resumes

\* Targets the action's damage is meant for, as it stands.
Damaged(r) == {c \in r.targets : r.kind \in Harms /\ (c \in r.landed \/ r.kind # "weapon")}

Checks == {p \in pendingRolls : p[1] = "check"}

turnTimer == <<"turn">>
Windows == {[kind |-> k, hero |-> h] : k \in {"hit", "spell", "damage", "smite"}, h \in Heroes}
reactionTimer(w) == <<"reaction", w.hero, w.kind>>
opportunityTimer(c) == <<"opportunity", c>>
Arm(t) == IF fight.timed THEN {t} ELSE {}

\* The combatant whose spell of that kind hurts the heroes.
endsSpirits(S) == \E c \in S : "spirits" \in Traits[c]

\* Concentration lost by the creatures of S, and what their spells laid on.
endConcentration(S) ==
    /\ focus' = focus \ S
    /\ burning' = IF endsSpirits(S \cap focus) THEN {} ELSE burning

-----------------------------------------------------------------------------
(***************************************************************************)
(* Damage.  A blow to a creature: "none" (absorbed), "wound", "fell" (at 0 *)
(* hit points), "kill" (outright), and to a downed hero "fail" or "crit",  *)
(* one or two failed death saves.                                          *)
(***************************************************************************)
Blows(c, nonlethal) ==
    LET low == IF nonlethal THEN {"fell"} ELSE {}
    IN {"none"} \cup
       CASE c \in Foes /\ isActive(c)   -> {"wound", "kill"} \cup low
         [] c \in Foes /\ ~isActive(c)  -> {"kill"} \cup low
         [] c \in Heroes /\ isActive(c) -> {"wound", "fell", "kill"}
         [] OTHER                       -> {"fail", "crit"}

failsAfter(c, blow) ==
    LET n == CASE blow = "fail" -> 1 [] blow = "crit" -> 2 [] OTHER -> 0
    IN CASE n > 0 /\ ~isProtected(c) -> IF fails[c] + n > 3 THEN 3 ELSE fails[c] + n
         [] blow \in {"fell", "kill"} -> 0
         [] OTHER -> fails[c]

\* Mutant: protection forgets damage that kills outright.
condAfterUnprotected(c, blow) ==
    CASE blow \in {"none", "wound"} -> cond[c]
      [] blow = "fell" -> IF c \in Foes \/ isProtected(c) THEN "stable" ELSE "unconscious"
      [] blow = "kill" -> "dead"
      [] isProtected(c) -> cond[c]
      [] OTHER -> IF failsAfter(c, blow) = 3 THEN "dead" ELSE "unconscious"

condAfter(c, blow) ==
    CASE blow \in {"none", "wound"} -> cond[c]
      [] blow = "fell" -> IF c \in Foes \/ isProtected(c) THEN "stable" ELSE "unconscious"
      [] blow = "kill" -> IF isProtected(c) THEN "stable" ELSE "dead"
      [] isProtected(c) -> cond[c]
      [] OTHER -> IF failsAfter(c, blow) = 3 THEN "dead" ELSE "unconscious"

\* b gives each creature of its domain its blow; P and J are the dice waited
\* for and the outbox before it.  A creature hurt while it concentrates
\* makes a save for it; one that goes down stops concentrating.
applyDamage(b, P, J) ==
    LET saves == {<<"concentration", c>> : c \in {d \in DOMAIN b \cap focus : b[d] = "wound"}}
    IN /\ cond' = [c \in Creatures |-> IF c \in DOMAIN b THEN condAfter(c, b[c]) ELSE cond[c]]
       /\ fails' = [h \in Heroes |-> IF h \in DOMAIN b THEN failsAfter(h, b[h]) ELSE fails[h]]
       /\ pendingRolls' = P \cup saves
       /\ jobs' = J \cup saves
       /\ endConcentration({c \in DOMAIN b : b[c] \in {"fell", "kill"}})

\* Every way to hurt the creatures of S.
AllBlows(S, nonlethal) ==
    {b \in [S -> {"none", "wound", "fell", "kill", "fail", "crit"}] :
        \A c \in S : b[c] \in Blows(c, nonlethal)}

-----------------------------------------------------------------------------
(***************************************************************************)
(* The end of a fight, and the turns.                                      *)
(***************************************************************************)
foesLeft == \E f \in Foes : isPresent(f) /\ cond[f] # "stable"
heroesStanding == \E h \in Heroes : isActive(h)

\* The fight is over, or the call given goes on.  Rolls still in the outbox
\* can only be rejected from now on and are dropped here.
EndIfDecided ==
    /\ call.fn = "endIfDecided"
    /\ IF foesLeft /\ heroesStanding
         THEN /\ call' = call.next
              /\ UNCHANGED <<phase, turn, flightVars, diceVars, timers>>
         ELSE /\ phase' = "ended"
              /\ timers' = IF turn.ends THEN timers \ {turnTimer} ELSE timers
              /\ turn' = [turn EXCEPT !.ends = FALSE]
              /\ resolution' = None /\ move' = None /\ triggers' = None
              /\ pendingRolls' = {} /\ jobs' = {}
              /\ call' = Done
    /\ UNCHANGED <<tableVars, creatureVars, order, deferred, due>>

unlessDecided(f) == [fn |-> "endIfDecided", next |-> f]
advanceTurn == [fn |-> "beginTurn", index |-> (turn.index % Len(order)) + 1]

(***************************************************************************)
(* A turn begins.  A turn timer left over, in the store or in the worker's *)
(* hand, is of an older turn from now on: it says nothing and is dropped.  *)
(***************************************************************************)
\* Mutant: the next place in the order, whoever it is.
nextPlace(i) == i

\* The first place from i on whose creature is still in the fight.
nextPresent(i) ==
    LET n == Len(order)
        at(k) == ((i + k - 1) % n) + 1
        skip == {k \in 0 .. n - 1 : isPresent(order[at(k)])}
    IN at(CHOOSE k \in skip : \A m \in skip : k <= m)

\* attacksLeft is 2 for a creature with Extra Attack or Multiattack.
attacksPerAction(c) == IF "multiattack" \in Traits[c] THEN 2 ELSE 1

\* What the worker has in hand, when the timers of T mean nothing any more.
dueWithout(T) == IF due # None /\ due.timer \in T THEN None ELSE due

BeginTurn ==
    /\ call.fn = "beginTurn" /\ status = "active"
    /\ LET i == nextPresent(call.index)
           c == order[i]
           player == isPlayerControlled(c) /\ isActive(c)
       IN /\ turn' = [index |-> i, ends |-> fight.timed /\ player,
                      action |-> TRUE, attacks |-> attacksPerAction(c), moved |-> FALSE, legendary |-> {}]
          /\ timers' = (timers \ {turnTimer}) \cup IF player THEN Arm(turnTimer) ELSE {}
          /\ due' = dueWithout({turnTimer})
          /\ reaction' = [reaction EXCEPT ![c] = TRUE]
          /\ \/ UNCHANGED <<focus, burning>>
             \/ c \in focus /\ endConcentration({c})       \* its clock ran out
          /\ IF c \in burning'
               THEN /\ triggers' = c
                    /\ pendingRolls' = pendingRolls \cup {<<"trigger", c>>}
                    /\ jobs' = jobs \cup {<<"trigger", c>>}
                    /\ call' = Done
               ELSE call' = Call("continueTurn") /\ UNCHANGED <<triggers, pendingRolls, jobs>>
    /\ deferred' = None
    /\ UNCHANGED <<tableVars, phase, order, cond, fails, spent, resolution, move>>

\* Nobody plays on while the table is stopped; continue starts this turn.
DeferTurn ==
    /\ call.fn = "beginTurn" /\ status # "active"
    /\ deferred' = call.index
    /\ call' = Done
    /\ UNCHANGED <<tableVars, creatureVars, phase, order, turn, flightVars, diceVars, timerVars>>

\* A foe that is badly hurt may run.
Flees(c) ==
    /\ c \in Foes /\ "coward" \in Traits[c]
    /\ cond' = [cond EXCEPT ![c] = "fled"]
    /\ call' = unlessDecided(Call("endTurn"))
    /\ UNCHANGED <<fails, pendingRolls, jobs>>

ContinueTurn ==
    /\ call.fn = "continueTurn"
    /\ LET c == Current IN
       \/ isPresent(c) /\ Flees(c)
       \/ /\ isPresent(c) /\ c \in Foes
          /\ call' = Call("playPlan")
          /\ UNCHANGED <<cond, fails, pendingRolls, jobs>>
       \/ /\ cond[c] = "unconscious" /\ isProtected(c)
          /\ cond' = [cond EXCEPT ![c] = "stable"]
          /\ fails' = [fails EXCEPT ![c] = 0]
          /\ call' = Call("endTurn")
          /\ UNCHANGED <<pendingRolls, jobs>>
       \/ /\ cond[c] = "unconscious" /\ ~isProtected(c)
          /\ pendingRolls' = pendingRolls \cup {<<"deathSave", c>>}
          /\ jobs' = jobs \cup {<<"deathSave", c>>}
          /\ call' = Done
          /\ UNCHANGED <<cond, fails>>
       \/ /\ ~isPresent(c) \/ (c \in Heroes /\ cond[c] = "stable")
          /\ call' = Call("endTurn")
          /\ UNCHANGED <<cond, fails, pendingRolls, jobs>>
       \/ /\ c \in Heroes /\ isActive(c)
          /\ call' = IF isPlayerControlled(c) THEN Done ELSE Call("playPlan")
          /\ UNCHANGED <<cond, fails, pendingRolls, jobs>>
    /\ UNCHANGED <<tableVars, reaction, focus, burning, spent, turnVars, flightVars, timerVars>>
-----------------------------------------------------------------------------
(***************************************************************************)
(* What the engine plays for a creature: a foe's plan, or a hero's cautious*)
(* autopilot.  A plan moves at most one zone here.                         *)
(***************************************************************************)
declare(r) == [fn |-> "declareResolution", res |-> r]
Weapon(c, t, purpose, resumes) == Resolution(c, "weapon", {t}, purpose, resumes)

\* Foes leave downed heroes alone; autopilot spends nothing but its swing.
PlannedActions(c) ==
    LET foes == {e \in Enemies(c) : isActive(e)}
        able(kind) == kind \in Traits[c] /\ c \in Foes /\ turn.action /\ foes # {}
    IN {Weapon(c, t, "action", None) : t \in IF turn.attacks > 0 THEN foes ELSE {}}
       \cup {Resolution(c, "blast", S, "action", None) : S \in IF able("blast") THEN (SUBSET foes) \ {{}} ELSE {}}
       \cup {Resolution(c, p[1], {p[2]}, "action", None) : p \in {x \in {"bolt", "missile"} : able(x)} \X foes}
       \cup {Resolution(c, "spirits", foes, "action", None) : x \in {y \in {c} : able("spirits") /\ c \notin focus}}

\* A player's attack or spell; a downed foe can be struck as well.
ChosenActions(h) ==
    LET foes == {f \in Foes : isPresent(f)}
    IN {Weapon(h, f, "action", None) : f \in IF turn.attacks > 0 THEN foes ELSE {}}
       \cup {Resolution(h, "missile", {f}, "action", None) :
                f \in IF turn.action /\ "missile" \in Traits[h] THEN foes ELSE {}}
       \cup {Resolution(h, "bless", {x}, "action", None) :
                x \in {y \in {h} : turn.action /\ "bless" \in Traits[h]}}

PlayPlan ==
    /\ call.fn = "playPlan"
    /\ \E moves \in BOOLEAN : (moves => Current \in Foes) /\ call' = [fn |-> "continuePlan", moves |-> moves]
    /\ UNCHANGED <<tableVars, creatureVars, turnVars, flightVars, diceVars, timerVars>>

\* The orders in which the creatures of S may have engaged another.
engagedInTurn(S) == {q \in [1 .. Cardinality(S) -> S] : \A i, j \in DOMAIN q : q[i] = q[j] => i = j}

\* Leaving the reach of creatures that can react waits for each of them.
startMove(c, auto) ==
    \E S \in SUBSET {e \in Enemies(c) : canReact(e)} :
        IF S = {}
          THEN /\ call' = IF auto THEN [fn |-> "continuePlan", moves |-> FALSE] ELSE Done
               /\ UNCHANGED move
          ELSE \E provokers \in engagedInTurn(S) :
                 /\ move' = [mover |-> c, provokers |-> provokers, offer |-> FALSE, auto |-> auto]
                 /\ call' = Call("nextOpportunityAttack")

ContinuePlan ==
    /\ call.fn = "continuePlan"
    /\ \/ call.moves /\ startMove(Current, TRUE)
       \/ ~call.moves /\ call' = Call("endTurn") /\ UNCHANGED move     \* down, or nothing to do
       \/ /\ ~call.moves /\ isActive(Current)
          /\ \E r \in PlannedActions(Current) : call' = declare(r)
          /\ UNCHANGED move
    /\ UNCHANGED <<tableVars, creatureVars, turnVars, resolution, triggers, diceVars, timerVars>>

\* endTurn and finishTurn: no effect here acts at the end of a turn.
EndTurn ==
    /\ call.fn = "endTurn"
    /\ timers' = IF turn.ends THEN timers \ {turnTimer} ELSE timers
    /\ turn' = [turn EXCEPT !.ends = FALSE]
    /\ call' = unlessDecided(Call("takeLegendaryAction"))
    /\ UNCHANGED <<tableVars, creatureVars, phase, order, deferred, flightVars, diceVars, due>>

\* Between two turns a legendary foe may strike, once after each turn but
\* its own.
TakeLegendaryAction ==
    /\ call.fn = "takeLegendaryAction"
    /\ \/ \E f \in Foes \ (turn.legendary \cup {Current}), h \in Heroes :
             /\ "legendary" \in Traits[f] /\ isActive(f) /\ isPresent(h)
             /\ turn' = [turn EXCEPT !.legendary = @ \cup {f}]
             /\ call' = declare(Weapon(f, h, "legendary", None))
       \/ call' = advanceTurn /\ UNCHANGED turn
    /\ UNCHANGED <<tableVars, creatureVars, phase, order, deferred, flightVars, diceVars, timerVars>>

-----------------------------------------------------------------------------
(***************************************************************************)
(* Opportunity attacks: a foe always takes its own, a hero's player is     *)
(* asked.                                                                  *)
(***************************************************************************)
NextOpportunityAttack ==
    /\ call.fn = "nextOpportunityAttack" /\ move # None
    /\ IF ~isActive(move.mover) \/ move.provokers = <<>>
         THEN call' = Call("completeMove") /\ UNCHANGED <<move, timers>>
         ELSE LET p == Head(move.provokers)
                  passed == [move EXCEPT !.provokers = Tail(@)]
              IN \/ ~canReact(p) /\ move' = passed /\ UNCHANGED <<call, timers>>
                 \/ /\ canReact(p) /\ isPlayerControlled(p)
                    /\ move' = [move EXCEPT !.offer = TRUE]
                    /\ timers' = timers \cup Arm(opportunityTimer(p))
                    /\ call' = Done
                 \/ /\ canReact(p) /\ ~isPlayerControlled(p)
                    /\ move' = passed
                    /\ call' \in {declare(Weapon(p, move.mover, "opportunity", None)), call}
                    /\ UNCHANGED timers
    /\ UNCHANGED <<tableVars, creatureVars, turnVars, resolution, triggers, diceVars, due>>

(***************************************************************************)
(* One action, from its declaration to what it hands on to.                *)
(***************************************************************************)
\* Mutant: a mover who went down keeps the turn.
CompleteMoveKeepingTurn ==
    /\ call.fn = "completeMove"
    /\ move' = None
    /\ call' = IF isActive(move.mover) /\ move.auto THEN [fn |-> "continuePlan", moves |-> FALSE] ELSE Done
    /\ UNCHANGED <<tableVars, creatureVars, turnVars, resolution, triggers, diceVars, timerVars>>

\* Mutant: a plan interrupted by a move is not taken up again.
CompleteMoveAndWait ==
    /\ call.fn = "completeMove"
    /\ move' = None
    /\ call' = IF isActive(move.mover) \/ Current # move.mover THEN Done ELSE Call("endTurn")
    /\ UNCHANGED <<tableVars, creatureVars, turnVars, resolution, triggers, diceVars, timerVars>>

\* The move happens if the mover still can; otherwise its turn is over.
CompleteMove ==
    /\ call.fn = "completeMove"
    /\ move' = None
    /\ call' = CASE isActive(move.mover) /\ move.auto  -> [fn |-> "continuePlan", moves |-> FALSE]
                 [] isActive(move.mover) /\ ~move.auto -> Done
                 [] OTHER -> IF Current = move.mover THEN Call("endTurn") ELSE Done
    /\ UNCHANGED <<tableVars, creatureVars, turnVars, resolution, triggers, diceVars, timerVars>>
-----------------------------------------------------------------------------

counterspellers(r) ==
    {h \in Heroes : /\ r.kind \in Spells /\ r.purpose # "reaction" /\ r.actor \in Foes
                    /\ isPlayerControlled(h) /\ canReact(h) /\ "counterspell" \in Traits[h]}

openWindow(r, kind, h) ==
    /\ resolution' = [r EXCEPT !.window = [kind |-> kind, hero |-> h]]
    /\ timers' = timers \cup Arm(reactionTimer([kind |-> kind, hero |-> h]))
    /\ call' = Done

\* A foe's spell may be countered before anything is rolled for it.
DeclareResolution ==
    /\ call.fn = "declareResolution"
    /\ LET r == call.res
           struck == r.kind = "weapon" /\ r.purpose \in {"opportunity", "reaction"}
       IN /\ reaction' = IF struck THEN [reaction EXCEPT ![r.actor] = FALSE] ELSE reaction
          /\ turn' = IF r.purpose # "action" THEN turn
                     ELSE [turn EXCEPT !.action = FALSE, !.attacks = IF r.kind = "weapon" THEN @ - 1 ELSE 0]
          /\ IF r.kind \in NeedsFocus
               THEN /\ focus' = focus \cup {r.actor}
                    /\ burning' = IF endsSpirits({r.actor} \cap focus) THEN {} ELSE burning
               ELSE UNCHANGED <<focus, burning>>
          /\ pendingRolls' = pendingRolls \cup
                 (IF r.kind \in NeedsCheck THEN {<<"check", c>> : c \in r.targets \ r.landed} ELSE {})
          /\ IF counterspellers(r) # {}
               THEN \E h \in counterspellers(r) : openWindow(r, "spell", h)
               ELSE resolution' = r /\ call' = Call("startResolution") /\ UNCHANGED timers
    /\ UNCHANGED <<tableVars, cond, fails, spent, phase, order, deferred, move, triggers, jobs, due>>

StartResolution ==
    /\ call.fn = "startResolution"
    /\ jobs' = jobs \cup Checks
    /\ call' = IF Checks = {} THEN Call("proceedToEffects") ELSE Done
    /\ UNCHANGED <<tableVars, creatureVars, turnVars, flightVars, pendingRolls, timerVars>>

(***************************************************************************)
(* The windows: a hit that a spell could turn aside, a foe's spell that    *)
(* could be countered, damage that could be answered, a hit that could be  *)
(* a smite.  take: the player uses it; a timer or a player's leaving never *)
(* does.                                                                   *)
(***************************************************************************)
\* Mutant: the first die in settles the action.
SettleCheckAtOnce ==
    /\ call.fn = "settleCheck" /\ resolution # None
    /\ resolution' = [resolution EXCEPT !.landed = IF call.landed THEN @ \cup {call.target} ELSE @]
    /\ call' = IF resolution.window = None THEN Call("proceedToEffects") ELSE Done
    /\ pendingRolls' = pendingRolls \ {<<"check", call.target>>}
    /\ UNCHANGED <<tableVars, creatureVars, turnVars, move, triggers, jobs, timerVars>>

\* The dice of a check are in.  Once all are, a hit with a weapon may still
\* wait for its attacker's smite.
SettleCheck ==
    /\ call.fn = "settleCheck" /\ resolution # None
    /\ LET settled == [resolution EXCEPT !.landed = IF call.landed THEN @ \cup {call.target} ELSE @]
           waiting == Checks \ {<<"check", call.target>>} # {} \/ resolution.window # None
           smites == /\ settled.kind = "weapon" /\ call.landed
                     /\ isPlayerControlled(settled.actor) /\ "smite" \in Traits[settled.actor]
       IN IF ~waiting /\ smites
            THEN openWindow(settled, "smite", settled.actor)
            ELSE /\ resolution' = settled
                 /\ call' = IF waiting THEN Done ELSE Call("proceedToEffects")
                 /\ UNCHANGED timers
    /\ pendingRolls' = pendingRolls \ {<<"check", call.target>>}
    /\ UNCHANGED <<tableVars, creatureVars, turnVars, move, triggers, jobs, due>>

needsDice(r) == r.kind \in Harms /\ (r.kind = "weapon" => r.landed # {})

ProceedToEffects ==
    /\ call.fn = "proceedToEffects" /\ resolution # None
    /\ IF needsDice(resolution)
         THEN /\ resolution' = [resolution EXCEPT !.stage = "effects"]
              /\ pendingRolls' = pendingRolls \cup {<<"effect">>}
              /\ jobs' = jobs \cup {<<"effect">>}
              /\ call' = Done
         ELSE call' = Call("applyEffects") /\ UNCHANGED <<resolution, pendingRolls, jobs>>
    /\ UNCHANGED <<tableVars, creatureVars, turnVars, move, triggers, timerVars>>

\* Heroes whom the action hurt and who could answer it with a spell.
retorters(r) ==
    {h \in Damaged(r) \cap Heroes :
        /\ r.purpose # "reaction" /\ r.actor \in Foes /\ cond'[r.actor] = "active"
        /\ isPlayerControlled(h) /\ cond'[h] = "active" /\ reaction[h] /\ "retort" \in Traits[h]}

\* Damage to everyone it is meant for; concentration saves come before
\* anything else.  A retort is offered when the attacker is near enough.
ApplyEffects ==
    /\ call.fn = "applyEffects" /\ resolution # None /\ resolution.kind \notin NeedsFocus
    /\ \E b \in AllBlows({c \in Damaged(resolution) : isPresent(c)},
                         resolution.kind = "weapon" /\ resolution.actor \in Heroes) :
           applyDamage(b, pendingRolls, jobs)
    /\ \/ /\ \A p \in pendingRolls' : p[1] # "concentration"
          /\ \E h \in retorters(resolution) : openWindow(resolution, "damage", h)
       \/ /\ call' = IF \E p \in pendingRolls' : p[1] = "concentration" THEN Done ELSE Call("finishResolution")
          /\ UNCHANGED <<resolution, timers>>
    /\ UNCHANGED <<tableVars, reaction, spent, turnVars, move, triggers, due>>

\* A spell to concentrate on, without dice.
LaySpell ==
    /\ call.fn = "applyEffects" /\ resolution # None /\ resolution.kind \in NeedsFocus
    /\ burning' = IF resolution.kind = "spirits"
                    THEN burning \cup {h \in resolution.targets : isPresent(h)} ELSE burning
    /\ call' = Call("finishResolution")
    /\ UNCHANGED <<tableVars, cond, fails, reaction, focus, spent, turnVars, flightVars, diceVars, timerVars>>

\* A window's timer names its resolution: one in the worker's hand is void.
FinishResolution ==
    /\ call.fn = "finishResolution" /\ resolution # None
    /\ resolution' = None
    /\ due' = dueWithout({reactionTimer(w) : w \in Windows})
    /\ call' = [fn |-> "offerDeathBurst", purpose |-> resolution.purpose, actor |-> resolution.actor,
                damaged |-> Damaged(resolution), resumes |-> resumesAs(resolution)]
    /\ UNCHANGED <<tableVars, creatureVars, turnVars, move, triggers, diceVars, timers>>

\* A foe that has just died goes off on whoever is left in its zone.
OfferDeathBurst ==
    /\ call.fn = "offerDeathBurst"
    /\ LET owed == {f \in Foes \ spent : cond[f] = "dead" /\ "deathBurst" \in Traits[f]}
       IN IF owed = {}
            THEN call' = [call EXCEPT !.fn = "offerRetaliation"] /\ UNCHANGED spent
            ELSE \E f \in owed, caught \in SUBSET {c \in Creatures : isPresent(c)} :
                     /\ spent' = spent \cup {f}
                     /\ call' = IF caught = {} THEN call
                                ELSE declare(Resolution(f, "blast", caught, "reaction", call.resumes))
    /\ UNCHANGED <<tableVars, cond, fails, reaction, focus, burning, turnVars, flightVars, diceVars, timerVars>>

\* A creature that was hurt by one close by strikes back.
OfferRetaliation ==
    /\ call.fn = "offerRetaliation"
    /\ \/ /\ call.purpose # "reaction" /\ isActive(call.actor)
          /\ \E t \in call.damaged \cap Enemies(call.actor) :
                 /\ "retaliation" \in Traits[t] /\ canReact(t)
                 /\ call' = declare(Weapon(t, call.actor, "reaction", call.resumes))
       \/ call' = unlessDecided([fn |-> "afterResolution", actor |-> call.resumes.actor,
                                 kind |-> call.resumes.kind, purpose |-> call.resumes.purpose])
    /\ UNCHANGED <<tableVars, creatureVars, turnVars, flightVars, diceVars, timerVars>>

\* The next swing of a Multiattack, at anyone in reach.
nextMultiattack(c) ==
    {Weapon(c, t, "action", None) :
        t \in {e \in Enemies(c) : isPresent(e) /\ turn.attacks > 0 /\ "multiattack" \in Traits[c]}}

\* Players end their own turns, unless the action left their hero down.
AfterResolution ==
    /\ call.fn = "afterResolution"
    /\ LET c == call.actor
       IN CASE call.purpose = "opportunity" -> call' = Call("nextOpportunityAttack")
            [] call.purpose = "legendary" -> call' = Call("takeLegendaryAction")
            [] call.purpose = "action" /\ isPlayerControlled(c) ->
                   call' = IF ~isActive(c) /\ Current = c THEN Call("endTurn") ELSE Done
            [] OTHER -> \/ call' = Call("endTurn")
                        \/ /\ call.kind = "weapon" /\ isActive(c) /\ Current = c
                           /\ \E r \in nextMultiattack(c) : call' = declare(r)
    /\ UNCHANGED <<tableVars, creatureVars, turnVars, flightVars, diceVars, timerVars>>
-----------------------------------------------------------------------------

closeWindow == /\ resolution' = [resolution EXCEPT !.window = None]
               /\ timers' = timers \ {reactionTimer(resolution.window)}

answerWindow(take) ==
    LET w == resolution.window
        used == IF take THEN [reaction EXCEPT ![w.hero] = FALSE] ELSE reaction
    IN CASE w.kind = "hit" ->
              /\ closeWindow /\ reaction' = used
              /\ \E hit \in IF take THEN {FALSE} ELSE BOOLEAN :
                     call' = [fn |-> "settleCheck", target |-> w.hero, landed |-> hit]
              /\ UNCHANGED pendingRolls
         [] w.kind = "spell" ->
              /\ closeWindow /\ reaction' = used
              /\ pendingRolls' = IF take THEN pendingRolls \ Checks ELSE pendingRolls
              /\ call' = Call(IF take THEN "finishResolution" ELSE "startResolution")
         [] w.kind = "damage" /\ ~take ->
              /\ closeWindow /\ call' = Call("finishResolution")
              /\ UNCHANGED <<reaction, pendingRolls>>
         [] w.kind = "damage" /\ take ->
              /\ resolution' = None /\ timers' = timers \ {reactionTimer(w)}
              /\ reaction' = used
              /\ call' = declare(Resolution(w.hero, "bolt", {resolution.actor}, "reaction", Outline(resolution)))
              /\ UNCHANGED pendingRolls
         [] OTHER ->
              /\ closeWindow
              /\ call' = IF Checks = {} THEN Call("proceedToEffects") ELSE Done
              /\ UNCHANGED <<reaction, pendingRolls>>

answerOpportunityAttack(take) ==
    LET p == Head(move.provokers) IN
    /\ timers' = timers \ {opportunityTimer(p)}
    /\ move' = [move EXCEPT !.provokers = Tail(@), !.offer = FALSE]
    /\ call' = IF take /\ isActive(move.mover) /\ canReact(p)
                 THEN declare(Weapon(p, move.mover, "opportunity", None))
                 ELSE Call("nextOpportunityAttack")

windowOpen == resolution # None /\ resolution.window # None
offerOpen == move # None /\ move.offer /\ move.provokers # <<>>

\* The player's answer.  The owner of a hero may answer even while away.
AnswerWindow(take) ==
    /\ Free /\ status = "active" /\ windowOpen
    /\ answerWindow(take)
    /\ UNCHANGED <<tableVars, cond, fails, focus, burning, spent, turnVars, move, triggers, jobs, due>>

AnswerOpportunityAttack(take) ==
    /\ Free /\ status = "active" /\ offerOpen
    /\ answerOpportunityAttack(take)
    /\ UNCHANGED <<tableVars, creatureVars, turnVars, resolution, triggers, diceVars, due>>

(***************************************************************************)
(* A hero's turn, played by its player (withHeroTurn).  One move a turn.   *)
(***************************************************************************)
\* Mutant: an action in flight does not stop the next.
mayActAtOnce == Free /\ phase = "active" /\ status = "active" /\ Current \in Heroes

mayAct == Free /\ phase = "active" /\ status = "active" /\ Current \in Heroes /\ ~Busy
ownTurn == mayAct /\ isActive(Current)

HeroMoves ==
    /\ ownTurn /\ ~turn.moved
    /\ turn' = [turn EXCEPT !.moved = TRUE]
    /\ startMove(Current, FALSE)
    /\ UNCHANGED <<tableVars, creatureVars, phase, order, deferred, resolution, triggers, diceVars, timerVars>>

HeroActs ==
    /\ ownTurn
    /\ \E r \in ChosenActions(Current) : call' = declare(r)
    /\ UNCHANGED <<tableVars, creatureVars, turnVars, flightVars, diceVars, timerVars>>

\* Dash or dodge.
HeroDodges ==
    /\ ownTurn /\ turn.action
    /\ turn' = [turn EXCEPT !.action = FALSE, !.attacks = 0]
    /\ UNCHANGED <<tableVars, creatureVars, phase, order, deferred, flightVars, diceVars, timerVars, call>>

\* A hero who is down may still end the turn, but not before a death save.
HeroEndsTurn ==
    /\ mayAct
    /\ isActive(Current) \/ <<"deathSave", Current>> \notin pendingRolls
    /\ call' = Call("endTurn")
    /\ UNCHANGED <<tableVars, creatureVars, turnVars, flightVars, diceVars, timerVars>>

-----------------------------------------------------------------------------
(***************************************************************************)
(* Saved rolls (the roll worker's recordRoll), also while the table is     *)
(* stopped.                                                                *)
(***************************************************************************)
arrives(j) == Free /\ j \in jobs /\ j \in pendingRolls

RecordInitiative(c) ==
    LET j == <<"initiative", c>> IN
    /\ arrives(j)
    /\ jobs' = jobs \ {j} /\ pendingRolls' = pendingRolls \ {j}
    /\ IF pendingRolls' # {}
         THEN UNCHANGED <<order, phase, call>>
         ELSE /\ order' = fight.order
              /\ phase' = "active"
              /\ call' = [fn |-> "beginTurn", index |-> 1]
    /\ UNCHANGED <<tableVars, creatureVars, turn, deferred, flightVars, timerVars>>

\* A natural 20, a success, a failure or a natural 1; whatever the hero has
\* become while the die was on its way.
RecordDeathSave(h) ==
    LET j == <<"deathSave", h>>
        after(c, f) == cond' = [cond EXCEPT ![h] = c] /\ fails' = [fails EXCEPT ![h] = f]
    IN
    /\ arrives(j)
    /\ jobs' = jobs \ {j} /\ pendingRolls' = pendingRolls \ {j}
    /\ \/ /\ after("active", 0)
          /\ call' = unlessDecided(IF isPlayerControlled(h) THEN Done ELSE Call("playPlan"))
       \/ /\ \/ \E c \in {"unconscious", "stable"} : after(c, fails[h])
             \/ \E n \in {1, 2} : IF fails[h] + n < 3 THEN after("unconscious", fails[h] + n) ELSE after("dead", 3)
          /\ call' = unlessDecided(Call("endTurn"))
    /\ UNCHANGED <<tableVars, reaction, focus, burning, spent, turnVars, flightVars, timerVars>>

RecordTrigger(h) ==
    LET j == <<"trigger", h>> IN
    /\ arrives(j) /\ triggers # None /\ h \in burning
    /\ \E b \in AllBlows({h}, FALSE) : applyDamage(b, pendingRolls \ {j}, jobs \ {j})
    /\ triggers' = None
    /\ call' = unlessDecided(Call("continueTurn"))
    /\ astray' = (<<"concentration", h>> \in pendingRolls')
    /\ UNCHANGED <<fight, status, present, leaving, reaction, spent, turnVars, resolution, move, timerVars>>

\* A weapon's hit may open a window for its target; the die is then off the
\* list, and comes back with the answer.
RecordCheck(c) ==
    LET j == <<"check", c>> IN
    /\ arrives(j) /\ resolution # None
    /\ jobs' = jobs \ {j}
    /\ \/ /\ resolution.kind = "weapon" /\ c \in Heroes
          /\ isPlayerControlled(c) /\ canReact(c) /\ "shield" \in Traits[c]
          /\ pendingRolls' = pendingRolls \ {j}
          /\ openWindow(resolution, "hit", c)
       \/ /\ \E landed \in BOOLEAN : call' = [fn |-> "settleCheck", target |-> c, landed |-> landed]
          /\ UNCHANGED <<resolution, pendingRolls, timers>>
    /\ UNCHANGED <<tableVars, creatureVars, turnVars, move, triggers, due>>

RecordEffect ==
    LET j == <<"effect">> IN
    /\ arrives(j) /\ resolution # None /\ resolution.stage = "effects"
    /\ jobs' = jobs \ {j} /\ pendingRolls' = pendingRolls \ {j}
    /\ call' = Call("applyEffects")
    /\ UNCHANGED <<tableVars, creatureVars, turnVars, flightVars, timerVars>>

\* Kept or lost; the last of these saves finishes the action.
RecordConcentration(c) ==
    LET j == <<"concentration", c>> IN
    /\ arrives(j) /\ resolution # None
    /\ jobs' = jobs \ {j} /\ pendingRolls' = pendingRolls \ {j}
    /\ endConcentration({c}) \/ UNCHANGED <<focus, burning>>
    /\ call' = IF resolution.stage # "checks" /\ \A p \in pendingRolls' : p[1] # "concentration"
                 THEN Call("finishResolution") ELSE Done
    /\ UNCHANGED <<tableVars, cond, fails, reaction, spent, turnVars, flightVars, timerVars>>

RecordRoll ==
    \/ \E c \in Creatures : RecordInitiative(c) \/ RecordCheck(c) \/ RecordConcentration(c)
    \/ \E h \in Heroes : RecordDeathSave(h) \/ RecordTrigger(h)
    \/ RecordEffect
-----------------------------------------------------------------------------
(***************************************************************************)
(* Members.  A player who goes away declines what they were asked; then a  *)
(* dying hero is stable, and an empty table waits (`leaving`).  A player   *)
(* may not leave on their own turn or while down (awayRestriction); the    *)
(* organizer may send anybody away, so that is no guard here.              *)
(***************************************************************************)
MarkAway(h) ==
    /\ Free /\ phase # "ended" /\ h \in present /\ ~fight.steady
    /\ present' = present \ {h}
    /\ leaving' = h
    /\ IF windowOpen /\ resolution.window.hero = h
         THEN answerWindow(FALSE) /\ UNCHANGED move
         ELSE IF offerOpen /\ Head(move.provokers) = h
         THEN answerOpportunityAttack(FALSE) /\ UNCHANGED <<resolution, reaction, pendingRolls>>
         ELSE UNCHANGED <<call, resolution, move, reaction, pendingRolls, timers>>
    /\ UNCHANGED <<fight, astray, status, cond, fails, focus, burning, spent, turnVars, triggers, jobs, due>>

FinishAway ==
    /\ call = Done /\ leaving # None
    /\ leaving' = None
    /\ IF cond[leaving] = "unconscious" /\ phase # "ended"
         THEN /\ cond' = [cond EXCEPT ![leaving] = "stable"]
              /\ fails' = [fails EXCEPT ![leaving] = 0]
         ELSE UNCHANGED <<cond, fails>>
    /\ status' = IF status = "active" /\ present = {} THEN "waiting" ELSE status
    /\ UNCHANGED <<fight, astray, present, reaction, focus, burning, spent, turnVars, flightVars, diceVars, timerVars, call>>

MarkReturned(h) ==
    /\ Free /\ phase # "ended" /\ h \notin present /\ ~fight.steady
    /\ present' = present \cup {h}
    /\ UNCHANGED <<fight, astray, status, leaving, creatureVars, turnVars, flightVars, diceVars, timerVars, call>>

\* Of the timers of a fight only the turn's is cancelled.
PauseCampaign ==
    /\ Free /\ phase # "ended" /\ status # "paused" /\ ~fight.steady
    /\ status' = "paused"
    /\ timers' = IF turn.ends THEN timers \ {turnTimer} ELSE timers
    /\ UNCHANGED <<fight, astray, present, leaving, creatureVars, turnVars, flightVars, diceVars, due, call>>

\* Whoever continues is back at the table.  Everything waited for gets a
\* fresh timer, and the turn that was due begins.
ContinueCampaign(h) ==
    /\ Free /\ phase # "ended" /\ status # "active"
    /\ status' = "active"
    /\ present' = present \cup {h}
    /\ timers' = timers \cup (IF turn.ends THEN Arm(turnTimer) ELSE {})
                        \cup (IF windowOpen THEN Arm(reactionTimer(resolution.window)) ELSE {})
                        \cup (IF offerOpen THEN Arm(opportunityTimer(Head(move.provokers))) ELSE {})
    /\ call' = IF deferred # None THEN [fn |-> "beginTurn", index |-> deferred] ELSE call
    /\ UNCHANGED <<fight, astray, leaving, creatureVars, turnVars, flightVars, diceVars, due>>

-----------------------------------------------------------------------------
(***************************************************************************)
(* The timer worker: a timer is loaded as due, its command is decided, and *)
(* then the timer is marked fired by its id - three transactions.          *)
(***************************************************************************)
LoadTimer(t) ==
    /\ Free /\ phase # "ended" /\ due = None /\ t \in timers
    /\ due' = [at |-> "loaded", timer |-> t]
    /\ UNCHANGED <<tableVars, creatureVars, turnVars, flightVars, diceVars, timers, call>>

fired == due' = [due EXCEPT !.at = "fired"]
dueNow(kind) == Free /\ phase # "ended" /\ due # None /\ due.at = "loaded" /\ due.timer[1] = kind

\* In the middle of something the turn cannot be played for its player: the
\* timer is armed again, under the same id.
TurnTimerExpired ==
    /\ dueNow("turn") /\ fired
    /\ IF status # "active" \/ phase # "active"
         THEN UNCHANGED <<timers, call>>
         ELSE IF Busy
         THEN timers' = timers \cup {turnTimer} /\ UNCHANGED call
         ELSE /\ call' = Call(IF turn.action /\ isActive(Current) THEN "playPlan" ELSE "endTurn")
              /\ UNCHANGED timers
    /\ astray' = (call' = Call("endTurn") /\ <<"deathSave", Current>> \in pendingRolls)
    /\ UNCHANGED <<fight, status, present, leaving, creatureVars, turnVars, flightVars, diceVars>>

\* Mutant: only the timers of smites are answered.
isForSmite(t, w) == t[3] = "smite" /\ w.kind = "smite"

\* The id of a window's timer names its resolution, not the window.
isFor(t, w) == (t[3] = "smite") = (w.kind = "smite")

ReactionTimerExpired ==
    /\ dueNow("reaction") /\ fired
    /\ IF windowOpen /\ status = "active" /\ isFor(due.timer, resolution.window)
         THEN answerWindow(FALSE)
         ELSE UNCHANGED <<resolution, timers, reaction, call, pendingRolls>>
    /\ UNCHANGED <<tableVars, cond, fails, focus, burning, spent, turnVars, move, triggers, jobs>>

OpportunityTimerExpired ==
    /\ dueNow("opportunity") /\ fired
    /\ IF offerOpen /\ status = "active" /\ Head(move.provokers) = due.timer[2]
         THEN answerOpportunityAttack(FALSE)
         ELSE UNCHANGED <<move, timers, call>>
    /\ UNCHANGED <<tableVars, creatureVars, turnVars, resolution, triggers, diceVars>>

\* By id: a timer armed again meanwhile is gone as well.
MarkTimerFired ==
    /\ Free /\ phase # "ended" /\ due # None /\ due.at = "fired"
    /\ timers' = timers \ {due.timer}
    /\ due' = None
    /\ UNCHANGED <<tableVars, creatureVars, turnVars, flightVars, diceVars, call>>

-----------------------------------------------------------------------------
Kinds == {"weapon", "blast"} \cup Spells
Outlines == [actor : Creatures, kind : Kinds, purpose : {"action", "opportunity", "legendary"}]
Resolutions ==
    [actor : Creatures, kind : Kinds, targets : SUBSET Creatures, landed : SUBSET Creatures,
     purpose : {"action", "opportunity", "legendary", "reaction"}, stage : {"checks", "effects"},
     window : Windows \cup {None}, resumes : Outlines \cup {None}]
Moves == [mover : Creatures, provokers : Seq(Creatures), offer : BOOLEAN, auto : BOOLEAN]
Rolls == {<<"effect">>} \cup ({"initiative", "check", "concentration", "deathSave", "trigger"} \X Creatures)
Timers == {turnTimer} \cup {opportunityTimer(h) : h \in Heroes} \cup {reactionTimer(w) : w \in Windows}
Dues == [at : {"loaded", "fired"}, timer : Timers]

\* None stands for an absent value of any of these kinds.
ASSUME NoneAssumption == None \notin Nat \cup Windows \cup Outlines \cup Resolutions \cup Moves \cup Dues

-----------------------------------------------------------------------------
\* startEncounter: everyone rolls initiative at once.
Init ==
    /\ fight \in Fights
    /\ status = "active" /\ leaving = None
    /\ present \in (SUBSET Heroes) \ {{}}
    /\ phase = "initiative" /\ order = <<>> /\ deferred = None
    /\ turn = [index |-> 0, ends |-> FALSE, action |-> FALSE,
               attacks |-> 0, moved |-> FALSE, legendary |-> {}]
    /\ cond = [c \in Creatures |-> "active"] /\ fails = [h \in Heroes |-> 0]
    /\ reaction = [c \in Creatures |-> TRUE]
    /\ focus = {} /\ burning = {} /\ spent = {}
    /\ resolution = None /\ move = None /\ triggers = None
    /\ pendingRolls = {<<"initiative", c>> : c \in Creatures} /\ jobs = pendingRolls
    /\ timers = {} /\ due = None /\ call = Done /\ astray = FALSE

\* The functions of a decision in progress.
Step ==
    \/ EndIfDecided \/ BeginTurn \/ DeferTurn \/ ContinueTurn \/ PlayPlan \/ ContinuePlan
    \/ EndTurn \/ TakeLegendaryAction \/ NextOpportunityAttack \/ CompleteMove
    \/ DeclareResolution \/ StartResolution \/ SettleCheck \/ ProceedToEffects
    \/ ApplyEffects \/ LaySpell \/ FinishResolution \/ OfferDeathBurst \/ OfferRetaliation
    \/ AfterResolution \/ FinishAway

LoadDue == \E t \in timers : LoadTimer(t)

TimerStep == TurnTimerExpired \/ ReactionTimerExpired \/ OpportunityTimerExpired \/ MarkTimerFired

Player ==
    \/ \E take \in BOOLEAN : AnswerWindow(take) \/ AnswerOpportunityAttack(take)
    \/ HeroMoves \/ HeroActs \/ HeroDodges \/ HeroEndsTurn
    \/ \E h \in Heroes : MarkAway(h) \/ MarkReturned(h) \/ ContinueCampaign(h)
    \/ PauseCampaign

Next ==
    \/ Step
    \/ RecordRoll
    \/ LoadDue
    \/ TimerStep
    \/ Player
    \/ (phase = "ended" \/ astray) /\ Idle /\ UNCHANGED vars

Spec == Init /\ [][Next]_vars

\* A decision runs to its end.  The queue of a campaign is first come, first
\* served, so what players do cannot keep the roll worker or the timer
\* worker out.
FairSpec ==
    /\ Spec
    /\ WF_vars(Step) /\ SF_vars(RecordRoll)
    /\ SF_vars(TimerStep) /\ SF_vars(LoadDue)
-----------------------------------------------------------------------------
TypeOK ==
    /\ status \in {"active", "waiting", "paused"} /\ present \subseteq Heroes /\ leaving \in Heroes \cup {None}
    /\ phase \in {"initiative", "active", "ended"} /\ order \in {<<>>, fight.order}
    /\ cond \in [Creatures -> {"active", "unconscious", "stable", "dead", "fled"}]
    /\ fails \in [Heroes -> 0 .. 3] /\ reaction \in [Creatures -> BOOLEAN]
    /\ focus \subseteq Creatures /\ burning \subseteq Heroes /\ spent \subseteq Foes
    /\ turn \in [index : 0 .. Len(order), ends : BOOLEAN, action : BOOLEAN, attacks : 0 .. 2,
                 moved : BOOLEAN, legendary : SUBSET Foes]
    /\ deferred \in 1 .. Len(order) \cup {None}
    /\ resolution \in Resolutions \cup {None}
    /\ move \in Moves \cup {None}
    /\ triggers \in Heroes \cup {None}
    /\ pendingRolls \subseteq Rolls /\ jobs \subseteq Rolls /\ timers \subseteq Timers
    /\ due \in Dues \cup {None}

\* Between decisions every roll the fight waits for is on its way - but for
\* the checks of a spell somebody may still counter - and every roll on its
\* way will find the fight waiting for it: a roll refused is a fight stuck.
DiceInOrder ==
    Idle =>
        /\ jobs = pendingRolls \ IF windowOpen /\ resolution.window.kind = "spell" THEN Checks ELSE {}
        /\ \A j \in jobs :
              /\ j[1] = "check" => resolution # None /\ resolution.stage = "checks" /\ j[2] \in resolution.targets
              /\ j[1] = "effect" => resolution # None /\ resolution.stage = "effects"
              /\ j[1] = "concentration" => resolution # None /\ resolution.stage = "effects"
              /\ j[1] = "trigger" => triggers = j[2] /\ j[2] \in burning
              /\ j[1] = "deathSave" => ~Busy /\ Current = j[2]

\* A fight that waits for no roll has asked a player at the table, or it is
\* a standing hero's turn, or the table is stopped before a turn - as long as
\* no roll was left behind.
NeverStalls ==
    Free /\ phase = "active" /\ jobs = {} =>
        \/ windowOpen /\ resolution.window.hero \in present
        \/ offerOpen /\ Head(move.provokers) \in present
        \/ ~Busy /\ (IF deferred = None THEN Current \in Heroes /\ isActive(Current) ELSE status # "active")

\* A timer of a window or an offer never outlives it.
TimersHaveAReason ==
    Idle => \A t \in timers :
        /\ t[1] = "reaction" => windowOpen /\ t = reactionTimer(resolution.window)
        /\ t[1] = "opportunity" => offerOpen /\ t[2] = Head(move.provokers)

\* A player is asked only what they can still answer: no reaction is spent
\* between the question and the answer, and nobody who is asked goes down.
WindowsCanBeUsed ==
    /\ windowOpen => isActive(resolution.window.hero)
    /\ windowOpen /\ resolution.window.kind # "smite" => reaction[resolution.window.hero]

\* Nobody acts who is down - a foe's death burst apart - and nobody reacts
\* twice between two of their turns.
ActorsAreAble ==
    call.fn = "declareResolution" =>
        LET r == call.res IN
        /\ isActive(r.actor) \/ (r.kind = "blast" /\ cond[r.actor] = "dead" /\ r.actor \in spent)
        /\ r.kind = "weapon" /\ r.purpose \in {"opportunity", "reaction"} => reaction[r.actor]

\* One thing at a time: an action is declared when none is in flight and a
\* move, if any, waits for that action; a turn begins with nothing in flight.
OneThingAtATime ==
    /\ call.fn = "declareResolution" =>
           /\ resolution = None /\ triggers = None
           /\ move # None => call.res.purpose \in {"opportunity", "reaction"}
    /\ call.fn = "beginTurn" => ~Busy /\ pendingRolls = {}

\* FightInOrder: whatever the order of dice, clicks, timers, joins and departures,
\* each roll, timer and question of the fight belongs to what is in flight, and one
\* thing is in flight (the early returns of combat-flow.ts leave none behind).
\* Until a roll is left behind (see `astray`).
FightInOrder ==
    ~astray =>
        /\ TypeOK /\ DiceInOrder /\ TimersHaveAReason
        /\ WindowsCanBeUsed /\ ActorsAreAble /\ OneThingAtATime

\* "A hero whose death save is still to be rolled keeps their turn until it
\* is" (combat-flow.ts, awaitingDeathSave).
DeathSaveKeepsTheTurn ==
    Idle /\ phase = "active" => \A h \in Heroes : <<"deathSave", h>> \in jobs => Current = h

\* Damage is dealt when every die and every answer it depends on is in, as
\* long as no roll was left behind.
DiceBeforeDamage ==
    call.fn = "applyEffects" /\ ~astray =>
        resolution.window = None /\ \A p \in pendingRolls : p[1] \notin {"check", "effect"}

\* A hero whose player is away does not die, unless of a death save that was
\* already on its way.
AwayHeroesAreSafe ==
    [][\A h \in Heroes \ present :
          cond[h] # "dead" /\ cond'[h] = "dead" => <<"deathSave", h>> \in jobs \ jobs']_vars

\* Turns go round the order, whatever the dice, the timers and the players
\* of the fight do.
Order == INSTANCE TurnOrder WITH
    index <- turn.index, out <- {c \in Creatures : ~isPresent(c)}
TurnsGoRound == Order!Spec

\* At a table that plays with timers and is never stopped a window closes,
\* whether or not the player who is asked is there, if no roll was left behind.
WindowsClose ==
    fight.timed /\ [](status = "active" /\ ~astray) => (windowOpen ~> ~windowOpen)

\* At such a table no foe's turn lasts for ever, but for a hero's offer of
\* an opportunity attack, whose timer can be lost.
FoesPlayTheirTurns ==
    fight.timed /\ [](status = "active" /\ ~astray) =>
        (Current \in Foes ~> Current \notin Foes \/ phase = "ended" \/ offerOpen)

=============================================================================
