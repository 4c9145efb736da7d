---------------------------- MODULE CombatProofs ----------------------------
(***************************************************************************)
(* Why a fight never stalls, for any heroes, foes, traits, turn order and  *)
(* members.  The chain of a decision has one function to run next, or it   *)
(* is done and the fight waits: InPlace says what each function finds and  *)
(* what each wait consists of - which dice are out, which question is      *)
(* open, what is in flight - and one lemma per action shows that it hands  *)
(* the fight over as the next function, or the wait, needs it.             *)
(*                                                                         *)
(* A decision that leaves a roll behind (astray) runs to its end, which    *)
(* Winds describes: its turn still goes to the next place in the order.    *)
(***************************************************************************)
EXTENDS Combat, FiniteSetTheorems, WellFoundedInduction, TLAPS

-----------------------------------------------------------------------------
(* TypeOK, part by part.                                                   *)

TableTyped ==
    status \in {"active", "waiting", "paused"} /\ present \subseteq Heroes /\ leaving \in Heroes \cup {None}
CreaturesTyped ==
    /\ cond \in [Creatures -> {"active", "unconscious", "stable", "dead", "fled"}]
    /\ fails \in [Heroes -> 0 .. 3] /\ reaction \in [Creatures -> BOOLEAN]
    /\ focus \subseteq Creatures /\ burning \subseteq Heroes /\ spent \subseteq Foes
Turns == [index : Nat, ends : BOOLEAN, action : BOOLEAN, attacks : 0 .. 2,
          moved : BOOLEAN, legendary : SUBSET Foes]
TurnTyped ==
    /\ phase \in {"initiative", "active", "ended"} /\ order \in {<<>>, fight.order}
    /\ turn \in Turns /\ turn.index \in 0 .. Len(order)
    /\ deferred \in 1 .. Len(order) \cup {None}
FlightTyped ==
    /\ resolution \in Resolutions \cup {None} /\ move \in Moves \cup {None}
    /\ triggers \in Heroes \cup {None}
DiceTyped == pendingRolls \subseteq Rolls /\ jobs \subseteq Rolls
TimersTyped == timers \subseteq Timers /\ due \in Dues \cup {None}

Typed == TableTyped /\ CreaturesTyped /\ TurnTyped /\ FlightTyped /\ DiceTyped /\ TimersTyped

-----------------------------------------------------------------------------
(* What each function of the chain finds.                                  *)

Purposes == {"action", "opportunity", "legendary", "reaction"}

\* The place after the one whose turn it is.
following == (turn.index % Len(order)) + 1

\* No roll is awaited and no action is in flight; a move may wait.
Quiet == resolution = None /\ triggers = None /\ pendingRolls = {} /\ jobs = {}
AtRest == Quiet /\ move = None

\* The move that waits is the one the action interrupts.
MoveWaits(purpose) ==
    IF purpose = "opportunity" THEN move # None /\ ~move.offer ELSE move = None

\* What is remembered of an action fits the turn and the move.
Resumes(o) ==
    o \in Outlines /\ MoveWaits(o.purpose) /\ (o.purpose = "action" => o.actor = Current)

\* An action of the fight.
Fitting(r) ==
    /\ r \in Resolutions /\ Resumes(resumesAs(r))
    /\ r.purpose # "reaction" => r.resumes = None
    /\ r.kind = "weapon" => \E t \in Creatures : r.targets = {t}
    /\ r.kind = "weapon" /\ r.stage = "checks" => isActive(r.actor)
    /\ r.kind = "spirits" => r.targets \subseteq Heroes

InFlight == resolution # None /\ Fitting(resolution) /\ triggers = None
NoDice == pendingRolls = {} /\ jobs = {}

CheckRolls(r) == {<<"check", c>> : c \in r.targets}
ConcentrationRolls == {<<"concentration", c>> : c \in Creatures}

\* What an action is declared on; a foe of bursts may be dead.
Declarable(r, bursts) ==
    /\ Fitting(r) /\ r.stage = "checks" /\ r.window = None
    /\ isActive(r.actor) \/ (r.kind = "blast" /\ cond[r.actor] = "dead" /\ r.actor \in bursts)
    /\ r.kind = "weapon" /\ r.purpose \in {"opportunity", "reaction"} => reaction[r.actor]
    /\ r.kind = "weapon" /\ r.purpose = "action" => turn.attacks > 0

\* What holds when the function f is to run next.
Ready(f) ==
    \/ f.fn = "beginTurn" /\ AtRest /\ f.index = following
    \/ f.fn \in {"continueTurn", "playPlan", "endTurn", "takeLegendaryAction"} /\ AtRest
    \/ f.fn = "continuePlan" /\ AtRest /\ f.moves \in BOOLEAN /\ (f.moves => Current \in Foes)
    \/ f.fn \in {"nextOpportunityAttack", "completeMove"} /\ Quiet /\ MoveWaits("opportunity")
    \/ f.fn = "declareResolution" /\ Quiet /\ Declarable(f.res, spent)
    \/ /\ f.fn = "startResolution"
       /\ InFlight /\ resolution.stage = "checks" /\ resolution.window = None
       /\ pendingRolls \subseteq CheckRolls(resolution) /\ jobs = {}
    \/ /\ f.fn = "settleCheck"
       /\ InFlight /\ resolution.stage = "checks" /\ resolution.window = None
       /\ f.target \in resolution.targets /\ f.landed \in BOOLEAN
       /\ pendingRolls \subseteq CheckRolls(resolution) /\ jobs = pendingRolls \ {<<"check", f.target>>}
    \/ f.fn = "proceedToEffects" /\ InFlight /\ resolution.window = None /\ NoDice /\ resolution.stage = "checks"
    \/ /\ f.fn = "applyEffects" /\ InFlight /\ resolution.window = None /\ NoDice
       /\ needsDice(resolution) => resolution.stage = "effects"
    \/ f.fn = "finishResolution" /\ InFlight /\ resolution.window = None /\ NoDice
    \/ /\ f \in [fn : {"offerDeathBurst", "offerRetaliation"}, purpose : Purposes, actor : Creatures,
                 damaged : SUBSET Creatures, resumes : Outlines]
       /\ Quiet /\ Resumes(f.resumes)
    \/ /\ f \in [fn : {"afterResolution"}, actor : Creatures, kind : Kinds, purpose : Purposes]
       /\ Quiet /\ Resumes([actor |-> f.actor, kind |-> f.kind, purpose |-> f.purpose])

-----------------------------------------------------------------------------
(* What a fight waits for between decisions.                               *)

RollsInitiative ==
    /\ phase = "initiative" /\ turn.index = 0 /\ ~turn.ends /\ deferred = None
    /\ resolution = None /\ triggers = None /\ move = None
    /\ jobs = pendingRolls /\ pendingRolls # {}
    /\ pendingRolls \subseteq {<<"initiative", c>> : c \in Creatures}
    /\ \A c \in Creatures : isActive(c)
IsOver == phase = "ended" /\ AtRest
IsDeferred ==
    phase = "active" /\ status # "active" /\ deferred = following /\ AtRest /\ heroesStanding

HeroTurn == AtRest /\ Current \in Heroes /\ isActive(Current)
RollsDeathSave ==
    /\ resolution = None /\ triggers = None /\ move = None
    /\ Current \in Heroes /\ cond[Current] \in {"unconscious", "stable"}
    /\ pendingRolls = {<<"deathSave", Current>>} /\ jobs = pendingRolls
RollsTrigger ==
    /\ resolution = None /\ move = None
    /\ triggers = Current /\ Current \in burning /\ isPresent(Current)
    /\ pendingRolls = {<<"trigger", Current>>} /\ jobs = pendingRolls
AsksOffer ==
    Quiet /\ move # None /\ move.offer /\ move.provokers # <<>> /\ Head(move.provokers) \in present
RollsChecks ==
    /\ InFlight /\ resolution.stage = "checks" /\ resolution.window = None
    /\ jobs = pendingRolls /\ pendingRolls # {} /\ pendingRolls \subseteq CheckRolls(resolution)
RollsEffects ==
    /\ InFlight /\ resolution.stage = "effects" /\ resolution.window = None
    /\ jobs = pendingRolls /\ pendingRolls # {}
    /\ pendingRolls = {<<"effect">>} \/ pendingRolls \subseteq ConcentrationRolls
AsksWindow ==
    LET w == resolution.window IN
    /\ InFlight /\ w \in Windows
    /\ w.hero \in present /\ isActive(w.hero) /\ (w.kind # "smite" => reaction[w.hero])
    /\ jobs = {}
    /\ w.kind = "hit" => w.hero \in resolution.targets /\ resolution.kind = "weapon"
    /\ w.kind = "damage" => resolution.purpose # "reaction"
    /\ w.kind # "damage" => resolution.stage = "checks"
    /\ IF w.kind = "spell" THEN pendingRolls \subseteq CheckRolls(resolution) ELSE pendingRolls = {}

Begun == phase = "active" /\ deferred = None /\ turn.index # 0
Waits ==
    \/ RollsInitiative \/ IsOver \/ IsDeferred
    \/ /\ Begun
       /\ \/ HeroTurn \/ RollsDeathSave \/ RollsTrigger \/ AsksOffer
          \/ RollsChecks \/ AsksWindow \/ RollsEffects

\* f runs next.
Running(f) ==
    /\ phase = "active" /\ Ready(f)
    /\ IF f.fn = "beginTurn" THEN deferred \in {None, f.index} ELSE Begun
    /\ f.fn \in {"beginTurn", "takeLegendaryAction", "afterResolution"} => heroesStanding

\* f runs next if the fight is not over.
Undecided(f) ==
    /\ f.fn \in {"continueTurn", "playPlan", "endTurn", "takeLegendaryAction", "afterResolution"}
    /\ Ready(f)

InPlace ==
    \/ call = Done /\ Waits
    \/ call.fn \notin {"done", "endIfDecided"} /\ Running(call)
    \/ call.fn = "endIfDecided" /\ Begun /\ ((call.next = Done /\ HeroTurn) \/ Undecided(call.next))

-----------------------------------------------------------------------------
(* The inductive invariant.                                                *)

OrderFits == fight \in Fights /\ order = IF phase = "initiative" THEN <<>> ELSE fight.order
MoveFits == move # None => move.mover = Current /\ (~move.auto => move.mover \in Heroes)

\* A timer of a window or an offer never outlives it, in a decision or not.
TimersFit ==
    /\ \A t \in timers :
          /\ t[1] = "reaction" => windowOpen /\ t = reactionTimer(resolution.window)
          /\ t[1] = "opportunity" => offerOpen /\ t[2] = Head(move.provokers)
    /\ ~fight.timed => timers = {} /\ due = None /\ ~turn.ends

\* A foe at 0 hit points does not linger.
FoesSettle == \A f \in Foes : cond[f] # "unconscious"

Inv == Typed /\ OrderFits /\ MoveFits /\ InPlace /\ TimersFit /\ FoesSettle

-----------------------------------------------------------------------------
(* Facts about fights.                                                     *)

\* The order is a sequence of all creatures.
LEMMA OrderIs ==
  ASSUME OrderFits, phase # "initiative"
  PROVE  /\ order \in Seq(Creatures) /\ Len(order) \in Nat \ {0}
         /\ \A c \in Creatures : \E i \in 1 .. Len(order) : order[i] = c
<1>1. order = fight.order /\ order \in [1 .. Cardinality(Creatures) -> Creatures]
      /\ {order[i] : i \in DOMAIN order} = Creatures
  BY CreaturesAssumption DEF OrderFits
<1>2. Cardinality(Creatures) \in Nat \ {0}
  BY CreaturesAssumption, FS_CardinalityType, FS_EmptySet DEF Creatures
<1>3. order \in Seq(Creatures) /\ Len(order) = Cardinality(Creatures)
  BY <1>1, <1>2
<1> QED BY <1>1, <1>2, <1>3

\* Whose turn it is.
LEMMA CurrentIs ==
  ASSUME Typed, OrderFits, Begun
  PROVE  Current \in Creatures /\ turn.index \in 1 .. Len(order) /\ Len(order) \in Nat \ {0}
<1>1. turn.index \in 1 .. Len(order)
  BY OrderIs DEF Typed, TurnTyped, Begun
<1> QED BY <1>1, OrderIs DEF Begun, Current

\* Nobody is asked anything while a decision is being taken.
LEMMA NothingAsked ==
  ASSUME Inv, call.fn # "done"
  PROVE  /\ ~windowOpen /\ ~offerOpen
         /\ \A t \in timers : t[1] \notin {"reaction", "opportunity"}
<1>1. call # Done
  BY DEF Done
<1>2. ~windowOpen /\ ~offerOpen
  <2>1. CASE call.fn # "endIfDecided"
    BY <1>1, <2>1 DEF Inv, InPlace, Running, Ready, Declarable, InFlight, Fitting, Resumes,
         MoveWaits, Quiet, AtRest, windowOpen, offerOpen
  <2>2. CASE call.fn = "endIfDecided"
    BY <1>1, <2>2 DEF Inv, InPlace, HeroTurn, Undecided, Ready, Resumes,
         MoveWaits, Quiet, AtRest, windowOpen, offerOpen
  <2> QED BY <2>1, <2>2
<1> QED BY <1>2 DEF Inv, TimersFit

\* Creatures and None are apart from each other, and calls from Done.
LEMMA Apartness ==
  /\ None \notin Creatures /\ None \notin Heroes /\ None \notin Foes /\ Heroes \cap Foes = {}
  /\ Heroes \subseteq Creatures /\ Foes \subseteq Creatures
BY CreaturesAssumption DEF Creatures

-----------------------------------------------------------------------------
(* The turns.                                                              *)

\* A fight that goes on goes on as the call said; one that is over is cleared.
LEMMA EndIfDecidedKeeps == ASSUME Inv, EndIfDecided PROVE Inv'
<1> USE DEF tableVars, creatureVars, turnVars, flightVars, diceVars, timerVars
<1>1. call.fn = "endIfDecided" /\ call # Done
  BY DEF EndIfDecided, Done
<1>2. Begun /\ ((call.next = Done /\ HeroTurn) \/ Undecided(call.next))
  BY <1>1 DEF Inv, InPlace
<1>3. TableTyped' /\ CreaturesTyped' /\ OrderFits' /\ FoesSettle'
  BY <1>2 DEF Inv, EndIfDecided, Typed, TableTyped, CreaturesTyped, OrderFits, FoesSettle, Traits, Begun
<1>4. CASE foesLeft /\ heroesStanding
  <2>1. /\ call' = call.next
        /\ UNCHANGED <<tableVars, creatureVars, turnVars, flightVars, diceVars, timerVars>>
    BY <1>4 DEF EndIfDecided
  <2>2. Typed' /\ MoveFits' /\ TimersFit'
    BY <1>3, <2>1 DEF Inv, Typed, TurnTyped, FlightTyped, DiceTyped, TimersTyped, MoveFits, Current,
         TimersFit, windowOpen, offerOpen
  <2>3. CASE call.next = Done /\ HeroTurn
    <3>1. Waits' BY <1>2, <2>1, <2>3 DEF Waits, Begun, HeroTurn, AtRest, Quiet, isActive, Current
    <3> QED BY <1>3, <2>1, <2>2, <2>3, <3>1 DEF Inv, InPlace
  <2>4. CASE Undecided(call.next)
    <3>1. Running(call)'
      BY <1>2, <1>4, <2>1, <2>4 DEF Undecided, Running, Ready, AtRest, Quiet, Resumes, MoveWaits,
           Begun, isActive, Current, heroesStanding
    <3>2. call'.fn \notin {"done", "endIfDecided"} BY <2>1, <2>4 DEF Undecided
    <3>3. InPlace' BY <3>1, <3>2 DEF InPlace
    <3> QED BY <1>3, <2>2, <3>3 DEF Inv
  <2> QED BY <1>2, <2>3, <2>4
<1>5. CASE ~(foesLeft /\ heroesStanding)
  <2>1. /\ phase' = "ended" /\ call' = Done /\ turn' = [turn EXCEPT !.ends = FALSE]
        /\ timers' = IF turn.ends THEN timers \ {turnTimer} ELSE timers
        /\ resolution' = None /\ move' = None /\ triggers' = None /\ pendingRolls' = {} /\ jobs' = {}
        /\ UNCHANGED <<tableVars, creatureVars, order, deferred, due>>
    BY <1>5 DEF EndIfDecided
  <2>2. TurnTyped' /\ FlightTyped' /\ DiceTyped' /\ TimersTyped' /\ MoveFits'
    BY <2>1 DEF Inv, Typed, TurnTyped, Turns, FlightTyped, DiceTyped, TimersTyped, MoveFits
  <2>3. TimersFit'
    BY <1>1, <2>1, NothingAsked DEF Inv, TimersFit, Typed, TurnTyped, Turns
  <2>4. InPlace' BY <2>1 DEF InPlace, Waits, IsOver, AtRest, Quiet
  <2> QED BY <1>3, <2>2, <2>3, <2>4 DEF Inv, Typed
<1> QED BY <1>4, <1>5

\* A table that is stopped keeps the turn that was due.
LEMMA DeferTurnKeeps == ASSUME Inv, DeferTurn PROVE Inv'
<1> USE DEF tableVars, creatureVars, turnVars, flightVars, diceVars, timerVars
<1>1. call.fn = "beginTurn" /\ call # Done /\ call.fn # "endIfDecided"
  BY DEF DeferTurn, Done
<1>2. /\ phase = "active" /\ AtRest /\ call.index = following /\ heroesStanding
  BY <1>1 DEF Inv, InPlace, Running, Ready
<1>3. following \in 1 .. Len(order)
  <2>1. turn.index \in Nat /\ Len(order) \in Nat \ {0}
    BY <1>2, OrderIs DEF Inv, Typed, TurnTyped, Turns
  <2> QED BY <2>1 DEF following
<1>4. Typed'
  BY <1>2, <1>3 DEF Inv, DeferTurn, Typed, TableTyped, CreaturesTyped, TurnTyped, FlightTyped,
       DiceTyped, TimersTyped
<1>5. OrderFits' /\ MoveFits' /\ TimersFit' /\ FoesSettle'
  BY DEF Inv, DeferTurn, OrderFits, MoveFits, Current, TimersFit, windowOpen, offerOpen, FoesSettle, Traits
<1>6. InPlace'
  BY <1>2 DEF DeferTurn, InPlace, Waits, IsDeferred, following, AtRest, Quiet, heroesStanding, isActive
<1> QED BY <1>4, <1>5, <1>6 DEF Inv

\* A turn that goes on is played by the engine, rolls a death save, waits for
\* its player or ends.
LEMMA ContinueTurnKeeps == ASSUME Inv, ContinueTurn PROVE Inv'
<1> USE DEF tableVars, creatureVars, turnVars, flightVars, diceVars, timerVars
<1>1. call.fn = "continueTurn" /\ call # Done /\ call.fn # "endIfDecided"
  BY DEF ContinueTurn, Done
<1>2. phase = "active" /\ Begun /\ AtRest
  BY <1>1 DEF Inv, InPlace, Running, Ready
<1>3. Current \in Creatures /\ Current' = Current
  BY <1>2, CurrentIs DEF Inv, ContinueTurn, Current
<1>4. UNCHANGED <<tableVars, reaction, focus, burning, spent, turnVars, flightVars, timerVars>>
  BY DEF ContinueTurn
<1>5. TableTyped' /\ TurnTyped' /\ FlightTyped' /\ TimersTyped' /\ OrderFits' /\ MoveFits' /\ TimersFit'
  BY <1>3, <1>4 DEF Inv, Typed, TableTyped, TurnTyped, FlightTyped, TimersTyped, OrderFits, MoveFits,
       TimersFit, windowOpen, offerOpen
<1>6. CreaturesTyped' /\ FoesSettle'
  BY <1>3, <1>4, Apartness DEF Inv, Typed, CreaturesTyped, FoesSettle, ContinueTurn, Flees, Traits, isProtected
<1>7. DiceTyped'
  BY <1>3 DEF Inv, Typed, DiceTyped, Rolls, ContinueTurn, Flees
<1>8. InPlace'
  <2>1. (AtRest' /\ Begun') \/ ~UNCHANGED <<pendingRolls, jobs>>
    BY <1>2, <1>4 DEF AtRest, Quiet, Begun
  <2>2. CASE isPresent(Current) /\ Flees(Current)
    BY <1>2, <1>4, <2>1, <2>2 DEF Flees, InPlace, Undecided, Ready, unlessDecided, Call
  <2>3. CASE call' \in {Call("playPlan"), Call("endTurn")} /\ UNCHANGED <<pendingRolls, jobs>>
    BY <1>2, <1>4, <2>1, <2>3 DEF InPlace, Running, Ready, Call
  <2>4. CASE /\ cond[Current] = "unconscious" /\ call' = Done /\ UNCHANGED <<cond, fails>>
             /\ pendingRolls' = pendingRolls \cup {<<"deathSave", Current>>}
             /\ jobs' = jobs \cup {<<"deathSave", Current>>}
    <3>1. Current \in Heroes BY <1>3, <2>4 DEF Inv, FoesSettle, Creatures
    <3>2. RollsDeathSave'
      BY <1>2, <1>3, <1>4, <2>4, <3>1 DEF RollsDeathSave, AtRest, Quiet, isActive
    <3> QED BY <1>2, <1>4, <2>4, <3>2 DEF InPlace, Waits, Begun
  <2>5. CASE /\ Current \in Heroes /\ isActive(Current) /\ call' = Done
             /\ UNCHANGED <<cond, fails, pendingRolls, jobs>>
    BY <1>2, <1>3, <1>4, <2>1, <2>5 DEF InPlace, Waits, HeroTurn, isActive
  <2> QED BY <2>2, <2>3, <2>4, <2>5 DEF ContinueTurn
<1> QED BY <1>5, <1>6, <1>7, <1>8 DEF Inv, Typed

\* A plan is played from its first move.
LEMMA PlayPlanKeeps == ASSUME Inv, PlayPlan PROVE Inv'
<1> USE DEF tableVars, creatureVars, turnVars, flightVars, diceVars, timerVars
<1>1. call.fn = "playPlan" /\ call # Done /\ call.fn # "endIfDecided"
  BY DEF PlayPlan, Done
<1>2. phase = "active" /\ Begun /\ AtRest
  BY <1>1 DEF Inv, InPlace, Running, Ready
<1>3. Typed' /\ OrderFits' /\ MoveFits' /\ TimersFit' /\ FoesSettle'
  BY DEF Inv, PlayPlan, Typed, TableTyped, CreaturesTyped, TurnTyped, FlightTyped, DiceTyped, TimersTyped,
       OrderFits, MoveFits, Current, TimersFit, windowOpen, offerOpen, FoesSettle, Traits
<1>4. InPlace'
  BY <1>2 DEF PlayPlan, InPlace, Running, Ready, AtRest, Quiet, Begun, Current
<1> QED BY <1>3, <1>4 DEF Inv

-----------------------------------------------------------------------------
(* Actions and moves that begin.                                           *)

LEMMA ResolutionIs ==
  ASSUME NEW a \in Creatures, NEW k \in Kinds, NEW S \in SUBSET Creatures, NEW p \in Purposes,
         NEW o \in Outlines \cup {None}
  PROVE  LET r == Resolution(a, k, S, p, o)
         IN /\ r \in Resolutions /\ r.actor = a /\ r.kind = k /\ r.targets = S /\ r.purpose = p
            /\ r.resumes = o /\ r.stage = "checks" /\ r.window = None
<1>1. (IF k \in NeedsCheck THEN {c \in S : autoFails(k, c)} ELSE S) \in SUBSET Creatures
  OBVIOUS
<1> QED BY <1>1 DEF Resolution, Resolutions, Purposes

\* An action of its own, and one in answer to another, can be declared.
LEMMA Declaring ==
  ASSUME NEW bursts,
         NEW a \in Creatures, NEW k \in Kinds, NEW S \in SUBSET Creatures, NEW p \in Purposes,
         NEW o \in Outlines \cup {None},
         IF p = "reaction" THEN o \in Outlines /\ Resumes(o)
           ELSE o = None /\ MoveWaits(p) /\ (p = "action" => a = Current),
         isActive(a) \/ (k = "blast" /\ cond[a] = "dead" /\ a \in bursts),
         k = "weapon" => /\ \E t \in Creatures : S = {t}
                         /\ p \in {"opportunity", "reaction"} => reaction[a]
                         /\ p = "action" => turn.attacks > 0,
         k = "spirits" => S \subseteq Heroes
  PROVE  Declarable(Resolution(a, k, S, p, o), bursts)
<1> DEFINE r == Resolution(a, k, S, p, o)
<1> HIDE DEF r
<1>1. /\ r \in Resolutions /\ r.actor = a /\ r.kind = k /\ r.targets = S /\ r.purpose = p
      /\ r.resumes = o /\ r.stage = "checks" /\ r.window = None
  BY ResolutionIs DEF r
<1>2. Resumes(resumesAs(r))
  <2>1. CASE p = "reaction"
    BY <1>1, <2>1, NoneAssumption DEF resumesAs
  <2>2. CASE p # "reaction"
    <3>1. resumesAs(r) = [actor |-> a, kind |-> k, purpose |-> p]
      BY <1>1, <2>2 DEF resumesAs, Outline
    <3> QED BY <2>2, <3>1 DEF Resumes, Outlines, Purposes
  <2> QED BY <2>1, <2>2
<1>3. Fitting(r)
  BY <1>1, <1>2 DEF Fitting
<1>4. Declarable(r, bursts)
  BY <1>1, <1>3 DEF Declarable
<1> QED BY <1>4 DEF r

\* A creature that moves leaves nobody's reach, or waits for those it leaves.
LEMMA MoveStarts ==
  ASSUME Typed, Current \in Creatures, NEW auto \in BOOLEAN, auto \/ Current \in Heroes,
         startMove(Current, auto)
  PROVE  \/ UNCHANGED move /\ call' = IF auto THEN [fn |-> "continuePlan", moves |-> FALSE] ELSE Done
         \/ /\ move' \in Moves /\ move'.mover = Current /\ move'.auto = auto /\ ~move'.offer /\ move' # None
            /\ call' = Call("nextOpportunityAttack")
<1>1. PICK S \in SUBSET {e \in Enemies(Current) : canReact(e)} :
         IF S = {}
          THEN /\ call' = IF auto THEN [fn |-> "continuePlan", moves |-> FALSE] ELSE Done
               /\ UNCHANGED move
          ELSE \E provokers \in engagedInTurn(S) :
                 /\ move' = [mover |-> Current, provokers |-> provokers, offer |-> FALSE, auto |-> auto]
                 /\ call' = Call("nextOpportunityAttack")
  BY DEF startMove
<1>2. CASE S # {}
  <2>1. PICK provokers \in engagedInTurn(S) :
            /\ move' = [mover |-> Current, provokers |-> provokers, offer |-> FALSE, auto |-> auto]
            /\ call' = Call("nextOpportunityAttack")
    BY <1>1, <1>2
  <2>2. S \subseteq Creatures BY Apartness DEF Enemies
  <2>3. Cardinality(S) \in Nat
    BY <2>2, CreaturesAssumption, FS_Subset, FS_CardinalityType
  <2>4. provokers \in Seq(Creatures)
    <3>1. provokers \in [1 .. Cardinality(S) -> S] BY DEF engagedInTurn
    <3>2. provokers \in [1 .. Cardinality(S) -> Creatures] BY <2>2, <3>1
    <3> QED BY <2>3, <3>2
  <2>5. move' \in Moves BY <2>1, <2>4 DEF Moves
  <2>6. move' # None BY <2>5, NoneAssumption
  <2> QED BY <2>1, <2>5, <2>6
<1> QED BY <1>1, <1>2

\* What is declared is next, whatever is declared.
LEMMA Declared ==
  ASSUME NEW r, Declarable(r, spent'), phase = "active", Begun, call' = declare(r),
         turn'.index = turn.index, turn'.attacks = turn.attacks,
         (move' = None) = (move = None), ~move.offer => ~move'.offer,
         Quiet', r.kind = "weapon" => UNCHANGED reaction,
         UNCHANGED <<fight, phase, order, deferred, cond>>
  PROVE  InPlace'
<1>1. Current' = Current /\ Traits' = Traits /\ (\A c \in Creatures : isActive(c)' = isActive(c))
  BY DEF Current, Traits, isActive
<1>2. r \in Resolutions /\ isActive(r.actor)' = isActive(r.actor)
  BY DEF Declarable, Fitting, isActive
<1>3. Resumes(resumesAs(r))'
  BY <1>1, <1>2 DEF Declarable, Fitting, Resumes, MoveWaits
<1>4. Fitting(r)'
  BY <1>1, <1>2, <1>3 DEF Declarable, Fitting
<1>5. Declarable(r, spent)'
  BY <1>1, <1>2, <1>4 DEF Declarable
<1>6. call'.fn = "declareResolution" /\ call'.res = r
  BY DEF declare
<1>7. Ready(call)'
  BY <1>5, <1>6 DEF Ready
<1> QED BY <1>6, <1>7 DEF InPlace, Running, Begun

\* What the engine plans for a creature on its feet can be declared.
LEMMA PlansFit ==
  ASSUME AtRest, Current \in Creatures, isActive(Current), NEW r \in PlannedActions(Current)
  PROVE  Declarable(r, spent)
<1> DEFINE c == Current
           foes == {e \in Enemies(c) : isActive(e)}
<1>1. foes \subseteq Creatures /\ (c \in Foes => foes \subseteq Heroes)
  BY Apartness DEF Enemies
<1>2. ASSUME NEW k \in Kinds \ {"bless"}, NEW S \in SUBSET Creatures,
             k = "weapon" => turn.attacks > 0 /\ \E t \in Creatures : S = {t},
             k # "weapon" => c \in Foes,
             k = "spirits" => S \subseteq Heroes
      PROVE  Declarable(Resolution(c, k, S, "action", None), spent)
  BY <1>2, Declaring DEF AtRest, MoveWaits, Purposes
<1>3. CASE \E t \in foes : turn.attacks > 0 /\ r = Weapon(c, t, "action", None)
  BY <1>1, <1>2, <1>3 DEF Weapon, Kinds
<1>4. CASE \E S \in SUBSET foes : c \in Foes /\ r = Resolution(c, "blast", S, "action", None)
  BY <1>1, <1>2, <1>4 DEF Kinds
<1>5. CASE \E t \in foes, k \in {"bolt", "missile"} : c \in Foes /\ r = Resolution(c, k, {t}, "action", None)
  BY <1>1, <1>2, <1>5 DEF Kinds, Spells
<1>6. CASE c \in Foes /\ "spirits" \in Traits[c] /\ r = Resolution(c, "spirits", foes, "action", None)
  BY <1>1, <1>2, <1>6 DEF Kinds, Spells
<1> DEFINE able(kind) == kind \in Traits[c] /\ c \in Foes /\ turn.action /\ foes # {}
           swings == {Weapon(c, t, "action", None) : t \in IF turn.attacks > 0 THEN foes ELSE {}}
           blasts == {Resolution(c, "blast", S, "action", None) : S \in IF able("blast") THEN (SUBSET foes) \ {{}} ELSE {}}
           casts == {Resolution(c, p[1], {p[2]}, "action", None) : p \in {x \in {"bolt", "missile"} : able(x)} \X foes}
           lays == {Resolution(c, "spirits", foes, "action", None) : x \in {y \in {c} : able("spirits") /\ c \notin focus}}
<1>7. r \in swings \/ r \in blasts \/ r \in casts \/ r \in lays
  <2>1. r \in swings \cup blasts \cup casts \cup lays
    <3>1. r \in PlannedActions(c)
      OBVIOUS
    <3> QED BY ONLY <3>1, Zenon DEF PlannedActions
  <2> HIDE DEF swings, blasts, casts, lays
  <2> QED BY <2>1
<1>8. CASE r \in swings
  BY <1>3, <1>8
<1>9. CASE r \in blasts
  BY <1>4, <1>9
<1>10. CASE r \in casts
  BY <1>5, <1>10
<1>11. CASE r \in lays
  BY <1>6, <1>11
<1> HIDE DEF swings, blasts, casts, lays
<1> QED BY <1>7, <1>8, <1>9, <1>10, <1>11

\* A plan acts, moves or is over.
LEMMA ContinuePlanKeeps == ASSUME Inv, ContinuePlan PROVE Inv'
<1> USE DEF tableVars, creatureVars, turnVars, flightVars, diceVars, timerVars
<1>1. call.fn = "continuePlan" /\ call # Done /\ call.fn # "endIfDecided"
  BY DEF ContinuePlan, Done
<1>2. phase = "active" /\ Begun /\ AtRest /\ call.moves \in BOOLEAN
  BY <1>1 DEF Inv, InPlace, Running, Ready
<1>3. Current \in Creatures /\ Current' = Current
  BY <1>2, CurrentIs DEF Inv, ContinuePlan, Current
<1>4. UNCHANGED <<tableVars, creatureVars, turnVars, resolution, triggers, diceVars, timerVars>>
  BY DEF ContinuePlan
<1>5. TableTyped' /\ CreaturesTyped' /\ TurnTyped' /\ DiceTyped' /\ TimersTyped' /\ OrderFits' /\ FoesSettle'
  BY <1>4 DEF Inv, Typed, TableTyped, CreaturesTyped, TurnTyped, DiceTyped, TimersTyped, OrderFits,
       FoesSettle, Traits
<1>6. Begun' /\ Quiet'
  BY <1>2, <1>4 DEF Begun, AtRest, Quiet
<1>7. ASSUME UNCHANGED move PROVE FlightTyped' /\ MoveFits' /\ TimersFit' /\ AtRest'
  BY <1>2, <1>3, <1>4, <1>7 DEF Inv, Typed, FlightTyped, MoveFits, AtRest, Quiet, TimersFit, windowOpen, offerOpen
<1>8. CASE call.moves /\ startMove(Current, TRUE)
  <2>1. CASE UNCHANGED move /\ call' = [fn |-> "continuePlan", moves |-> FALSE]
    <3>1. InPlace' BY <1>2, <1>6, <1>7, <2>1 DEF InPlace, Running, Ready, Begun
    <3> QED BY <1>5, <1>7, <2>1, <3>1 DEF Inv, Typed
  <2>2. CASE /\ move' \in Moves /\ move'.mover = Current /\ move'.auto = TRUE /\ ~move'.offer /\ move' # None
             /\ call' = Call("nextOpportunityAttack")
    <3>1. FlightTyped' /\ MoveFits' BY <1>3, <1>4, <2>2 DEF Inv, Typed, FlightTyped, MoveFits
    <3>2. TimersFit' BY <1>1, <1>4, NothingAsked DEF Inv, TimersFit
    <3>3. InPlace' BY <1>2, <1>4, <1>6, <2>2 DEF InPlace, Running, Ready, MoveWaits, Call, Begun
    <3> QED BY <1>5, <3>1, <3>2, <3>3 DEF Inv, Typed
  <2> QED BY <1>3, <1>8, <2>1, <2>2, MoveStarts DEF Inv
<1>9. CASE ~call.moves /\ call' = Call("endTurn") /\ UNCHANGED move
  <2>1. InPlace' BY <1>2, <1>6, <1>7, <1>9 DEF InPlace, Running, Ready, Call, Begun
  <2> QED BY <1>5, <1>7, <1>9, <2>1 DEF Inv, Typed
<1>10. CASE /\ ~call.moves /\ isActive(Current) /\ UNCHANGED move
            /\ \E r \in PlannedActions(Current) : call' = declare(r)
  <2>1. PICK r \in PlannedActions(Current) : call' = declare(r)
    BY <1>10
  <2>2. Declarable(r, spent)
    BY <1>2, <1>3, <1>10, PlansFit DEF AtRest
  <2>3. InPlace' BY <1>2, <1>4, <1>6, <1>10, <2>1, <2>2, Declared
  <2> QED BY <1>5, <1>7, <1>10, <2>3 DEF Inv, Typed
<1> QED BY <1>8, <1>9, <1>10 DEF ContinuePlan

\* A turn ends, and its timer with it.
LEMMA EndTurnKeeps == ASSUME Inv, EndTurn PROVE Inv'
<1> USE DEF tableVars, creatureVars, turnVars, flightVars, diceVars, timerVars
<1>1. call.fn = "endTurn" /\ call # Done /\ call.fn # "endIfDecided"
  BY DEF EndTurn, Done
<1>2. phase = "active" /\ Begun /\ AtRest
  BY <1>1 DEF Inv, InPlace, Running, Ready
<1>3. /\ timers' = IF turn.ends THEN timers \ {turnTimer} ELSE timers
      /\ turn' = [turn EXCEPT !.ends = FALSE]
      /\ UNCHANGED <<tableVars, creatureVars, phase, order, deferred, flightVars, diceVars, due>>
  BY DEF EndTurn
<1>4. Typed'
  BY <1>3, ZenonT(60) DEF Inv, Typed, TableTyped, CreaturesTyped, TurnTyped, Turns, FlightTyped, DiceTyped, TimersTyped
<1>5. OrderFits' /\ MoveFits' /\ FoesSettle'
  BY <1>2, <1>3 DEF Inv, OrderFits, MoveFits, AtRest, FoesSettle, Traits
<1>6. TimersFit'
  BY <1>1, <1>3, NothingAsked DEF Inv, TimersFit, Typed, TurnTyped, Turns
<1>7. InPlace'
  BY <1>2, <1>3 DEF EndTurn, Inv, Typed, TurnTyped, Turns, InPlace, Undecided, Ready, AtRest, Quiet,
       unlessDecided, Call, Begun
<1> QED BY <1>4, <1>5, <1>6, <1>7 DEF Inv

\* A legendary foe strikes between two turns, or the next turn begins.
LEMMA TakeLegendaryActionKeeps == ASSUME Inv, TakeLegendaryAction PROVE Inv'
<1> USE DEF tableVars, creatureVars, turnVars, flightVars, diceVars, timerVars
<1>1. call.fn = "takeLegendaryAction" /\ call # Done /\ call.fn # "endIfDecided"
  BY DEF TakeLegendaryAction, Done
<1>2. phase = "active" /\ Begun /\ AtRest /\ heroesStanding
  BY <1>1 DEF Inv, InPlace, Running, Ready
<1>3. UNCHANGED <<tableVars, creatureVars, phase, order, deferred, flightVars, diceVars, timerVars>>
  BY DEF TakeLegendaryAction
<1>4. turn' \in Turns /\ turn'.index = turn.index /\ turn'.ends = turn.ends
      /\ turn'.attacks = turn.attacks
  BY DEF Inv, Typed, TurnTyped, Turns, TakeLegendaryAction
<1>5. Typed' /\ OrderFits' /\ MoveFits' /\ TimersFit' /\ FoesSettle'
  BY <1>2, <1>3, <1>4 DEF Inv, Typed, TableTyped, CreaturesTyped, TurnTyped, FlightTyped, DiceTyped,
       TimersTyped, OrderFits, MoveFits, AtRest, TimersFit, windowOpen, offerOpen, FoesSettle, Traits
<1>6. AtRest' /\ Begun' /\ heroesStanding' /\ phase' = "active"
  BY <1>2, <1>3, <1>4 DEF AtRest, Quiet, Begun, heroesStanding, isActive
<1>7. CASE \E f \in Foes, h \in Heroes : isActive(f) /\ call' = declare(Weapon(f, h, "legendary", None))
  <2>1. PICK f \in Foes, h \in Heroes : isActive(f) /\ call' = declare(Weapon(f, h, "legendary", None))
    BY <1>7
  <2>2. Declarable(Weapon(f, h, "legendary", None), spent)
    BY <1>2, <2>1, Apartness, Declaring DEF AtRest, Weapon, MoveWaits, Kinds, Purposes, NeedsFocus
  <2>3. PICK r : r = Weapon(f, h, "legendary", None)
    OBVIOUS
  <2>4. InPlace' BY <1>2, <1>3, <1>4, <1>6, <2>1, <2>2, <2>3, Declared DEF AtRest
  <2> QED BY <1>5, <2>4 DEF Inv
<1>8. CASE call' = advanceTurn /\ UNCHANGED turn
  <2>1. InPlace' BY <1>3, <1>6, <1>8 DEF InPlace, Running, Ready, advanceTurn, following, Begun
  <2> QED BY <1>5, <2>1 DEF Inv
<1> QED BY <1>7, <1>8 DEF TakeLegendaryAction

-----------------------------------------------------------------------------
(* The next turn.                                                          *)

LEMMA Wrap ==
  ASSUME NEW n \in Nat \ {0}, NEW a \in Nat, a < 2 * n
  PROVE  a % n = IF a < n THEN a ELSE a - n
OBVIOUS

Less == {p \in Nat \X Nat : p[1] < p[2]}

\* A set of numbers that is not empty has a least one.
LEMMA Smallest ==
  ASSUME NEW S \in SUBSET Nat, S # {}
  PROVE  \E k \in S : \A m \in S : k <= m
<1>1. Less = OpToRel(<, Nat)
  BY DEF OpToRel, Less
<1>2. PICK k \in S : \A y \in S : ~(<<y, k>> \in Less)
  BY <1>1, NatLessThanWellFounded, WFMin
<1>3. ASSUME NEW m \in S PROVE k <= m
  <2>1. k \in Nat /\ m \in Nat
    OBVIOUS
  <2>2. m < k => <<m, k>> \in Less
    BY <2>1 DEF Less
  <2> QED BY <1>2, <2>1, <2>2
<1> QED BY <1>2, <1>3

\* Going round the order from any place reaches every place.
LEMMA PlaceReached ==
  ASSUME NEW n \in Nat \ {0}, NEW i \in 1 .. n, NEW j \in 1 .. n
  PROVE  \E k \in 0 .. n - 1 : ((i + k - 1) % n) + 1 = j
<1> DEFINE k == IF i <= j THEN j - i ELSE j + n - i
<1>1. k \in 0 .. n - 1 /\ i + k - 1 = (IF i <= j THEN j - 1 ELSE j - 1 + n)
  OBVIOUS
<1>2. PICK a \in Nat : a = i + k - 1 /\ a < 2 * n
  BY <1>1
<1>3. a % n = j - 1
  <2>1. a % n = IF a < n THEN a ELSE a - n
    BY <1>2, Wrap
  <2> QED BY <1>1, <1>2, <2>1
<1>4. ((i + k - 1) % n) + 1 = j
  BY <1>2, <1>3
<1> QED BY <1>1, <1>4

\* The next turn goes to the first creature from place i on that is present.
LEMMA NextPresentIs ==
  ASSUME order \in Seq(Creatures), Len(order) \in Nat \ {0}, NEW i \in 1 .. Len(order),
         \E j \in 1 .. Len(order) : isPresent(order[j])
  PROVE  LET at(k) == ((i + k - 1) % Len(order)) + 1
         IN \E k \in 0 .. Len(order) - 1 :
               /\ nextPresent(i) = at(k) /\ nextPresent(i) \in 1 .. Len(order)
               /\ isPresent(order[nextPresent(i)])
               /\ \A m \in 0 .. k - 1 : ~isPresent(order[at(m)])
<1> DEFINE n == Len(order)
           at(k) == ((i + k - 1) % n) + 1
           skip == {k \in 0 .. n - 1 : isPresent(order[at(k)])}
<1>1. skip \in SUBSET Nat /\ skip # {}
  <2>1. PICK j \in 1 .. n : isPresent(order[j])
    OBVIOUS
  <2>2. PICK k \in 0 .. n - 1 : at(k) = j
    BY PlaceReached
  <2>3. k \in skip
    BY <2>1, <2>2
  <2>4. skip \subseteq 0 .. n - 1 /\ 0 .. n - 1 \subseteq Nat
    OBVIOUS
  <2> HIDE DEF skip
  <2> QED BY <2>3, <2>4
<1>2. PICK k \in skip : \A m \in skip : k <= m
  <2> HIDE DEF skip
  <2> QED BY <1>1, Smallest
<1>3. k = CHOOSE x \in skip : \A m \in skip : x <= m
  <2> HIDE DEF skip
  <2>1. \A x \in skip : (\A m \in skip : x <= m) => x = k
    BY <1>1, <1>2
  <2> QED BY <1>2, <2>1
<1>4. nextPresent(i) = at(k)
  BY <1>3 DEF nextPresent
<1>5. at(k) \in 1 .. n
  BY <1>1, <1>2
<1>6. ASSUME NEW m \in 0 .. k - 1 PROVE ~isPresent(order[at(m)])
  <2>1. m \in 0 .. n - 1 /\ ~(k <= m)
    BY <1>1, <1>2
  <2> QED BY <1>2, <2>1
<1> QED BY <1>2, <1>4, <1>5, <1>6

\* The next turn begins, with the start-of-turn effect of a spell or without.
LEMMA BeginTurnKeeps == ASSUME Inv, BeginTurn PROVE Inv'
<1> USE DEF tableVars, creatureVars, turnVars, flightVars, diceVars, timerVars
<1>1. call.fn = "beginTurn" /\ call # Done /\ call.fn # "endIfDecided"
  BY DEF BeginTurn, Done
<1>2. /\ phase = "active" /\ AtRest /\ call.index = following /\ heroesStanding
  BY <1>1 DEF Inv, InPlace, Running, Ready
<1> DEFINE i == nextPresent(call.index)
           c == order[i]
           player == isPlayerControlled(c) /\ isActive(c)
<1>3. order \in Seq(Creatures) /\ Len(order) \in Nat \ {0} /\ order = fight.order
      /\ \A x \in Creatures : \E j \in 1 .. Len(order) : order[j] = x
  BY <1>2, OrderIs DEF Inv, OrderFits
<1>4. i \in 1 .. Len(order) /\ isPresent(c)
  <2>1. call.index \in 1 .. Len(order)
    BY <1>2, <1>3 DEF Inv, Typed, TurnTyped, Turns, following
  <2>2. \E j \in 1 .. Len(order) : isPresent(order[j])
    BY <1>2, <1>3 DEF heroesStanding, isActive, isPresent, Creatures
  <2> QED BY <1>3, <2>1, <2>2, NextPresentIs
<1> HIDE DEF i
<1>5. c \in Creatures
  BY <1>3, <1>4
<1>6. /\ turn' = [index |-> i, ends |-> fight.timed /\ player,
                  action |-> TRUE, attacks |-> attacksPerAction(c), moved |-> FALSE, legendary |-> {}]
      /\ timers' = (timers \ {turnTimer}) \cup IF player THEN Arm(turnTimer) ELSE {}
      /\ due' = dueWithout({turnTimer})
      /\ reaction' = [reaction EXCEPT ![c] = TRUE]
      /\ \/ UNCHANGED <<focus, burning>>
         \/ c \in focus /\ endConcentration({c})
      /\ deferred' = None
      /\ UNCHANGED <<tableVars, phase, order, cond, fails, spent, resolution, move>>
  BY DEF BeginTurn, i
<1>7. \/ /\ c \in burning' /\ triggers' = c /\ call' = Done
         /\ pendingRolls' = pendingRolls \cup {<<"trigger", c>>} /\ jobs' = jobs \cup {<<"trigger", c>>}
      \/ c \notin burning' /\ call' = Call("continueTurn") /\ UNCHANGED <<triggers, pendingRolls, jobs>>
  BY DEF BeginTurn, i
<1>8. focus' \subseteq focus /\ burning' \subseteq burning
  BY <1>6 DEF endConcentration
<1>9. Current' = c /\ turn'.index # 0
  BY <1>4, <1>6 DEF Current
<1>10. fight.timed \in BOOLEAN /\ player \in BOOLEAN
  BY <1>5, CreaturesAssumption DEF Inv, OrderFits, isPlayerControlled, isActive
<1>11. TableTyped' /\ CreaturesTyped' /\ OrderFits' /\ FoesSettle'
  BY <1>6, <1>8 DEF Inv, Typed, TableTyped, CreaturesTyped, OrderFits, FoesSettle, Traits
<1>12. TurnTyped'
  <2>1. turn' \in Turns
    BY <1>4, <1>6, <1>10 DEF Turns, attacksPerAction
  <2> QED BY <1>4, <1>6, <2>1 DEF Inv, Typed, TurnTyped
<1>13. FlightTyped' /\ DiceTyped' /\ MoveFits'
  <2>1. c \in burning' => c \in Heroes
    BY <1>11 DEF CreaturesTyped
  <2> QED BY <1>2, <1>5, <1>6, <1>7, <2>1 DEF Inv, Typed, FlightTyped, DiceTyped, Rolls, MoveFits, AtRest
<1>14. TimersTyped'
  BY <1>6 DEF Inv, Typed, TimersTyped, dueWithout, Arm, Timers
<1>15. TimersFit'
  <2>1. \A t \in timers' : t[1] \notin {"reaction", "opportunity"}
    BY <1>1, <1>6, NothingAsked DEF Arm, turnTimer
  <2>2. ~fight'.timed => timers' = {} /\ due' = None /\ ~turn'.ends
    BY <1>6 DEF Inv, TimersFit, Arm, dueWithout
  <2> QED BY <2>1, <2>2 DEF TimersFit
<1>16. InPlace'
  <2>1. CASE /\ c \in burning' /\ triggers' = c /\ call' = Done
             /\ pendingRolls' = pendingRolls \cup {<<"trigger", c>>} /\ jobs' = jobs \cup {<<"trigger", c>>}
    <3>1. RollsTrigger'
      BY <1>2, <1>4, <1>6, <1>9, <2>1 DEF RollsTrigger, AtRest, Quiet, isPresent
    <3> QED BY <1>2, <1>6, <1>9, <2>1, <3>1 DEF InPlace, Waits, Begun
  <2>2. CASE call' = Call("continueTurn") /\ UNCHANGED <<triggers, pendingRolls, jobs>>
    <3>1. AtRest' /\ Begun'
      BY <1>2, <1>6, <1>9, <2>2 DEF AtRest, Quiet, Begun
    <3> QED BY <1>2, <1>6, <2>2, <3>1 DEF InPlace, Running, Ready, Call
  <2> QED BY <1>7, <2>1, <2>2
<1> QED BY <1>11, <1>12, <1>13, <1>14, <1>15, <1>16 DEF Inv, Typed

\* The creatures a move leaves strike one after the other, and players are asked.
LEMMA NextOpportunityAttackKeeps == ASSUME Inv, NextOpportunityAttack PROVE Inv'
<1> USE DEF tableVars, creatureVars, turnVars, flightVars, diceVars, timerVars
<1>1. call.fn = "nextOpportunityAttack" /\ call # Done /\ call.fn # "endIfDecided"
  BY DEF NextOpportunityAttack, Done
<1>2. phase = "active" /\ Begun /\ Quiet /\ MoveWaits("opportunity")
  BY <1>1 DEF Inv, InPlace, Running, Ready
<1>3. move \in Moves /\ move.mover = Current /\ Current \in Creatures
  BY <1>2, CurrentIs DEF Inv, Typed, FlightTyped, MoveWaits, MoveFits
<1>4. UNCHANGED <<tableVars, creatureVars, turnVars, resolution, triggers, diceVars, due>>
  BY DEF NextOpportunityAttack
<1>5. TableTyped' /\ CreaturesTyped' /\ TurnTyped' /\ DiceTyped' /\ OrderFits' /\ FoesSettle'
  BY <1>4 DEF Inv, Typed, TableTyped, CreaturesTyped, TurnTyped, DiceTyped, OrderFits, FoesSettle, Traits
<1>6. Current' = Current /\ Begun' /\ Quiet' /\ phase' = "active"
  BY <1>2, <1>4 DEF Begun, Quiet, Current
<1>7. ASSUME UNCHANGED timers PROVE TimersTyped' /\ TimersFit'
  BY <1>1, <1>4, <1>7, NothingAsked DEF Inv, Typed, TimersTyped, TimersFit
<1>8. CASE call' = Call("completeMove") /\ UNCHANGED <<move, timers>>
  <2>1. FlightTyped' /\ MoveFits'
    BY <1>4, <1>6, <1>8 DEF Inv, Typed, FlightTyped, MoveFits
  <2>2. InPlace'
    BY <1>2, <1>6, <1>8 DEF InPlace, Running, Ready, MoveWaits, Call, Begun
  <2> QED BY <1>5, <1>7, <1>8, <2>1, <2>2 DEF Inv, Typed
<1> DEFINE p == Head(move.provokers)
           passed == [move EXCEPT !.provokers = Tail(@)]
<1>9. CASE move.provokers # <<>> /\ \/ ~canReact(p) /\ move' = passed /\ UNCHANGED <<call, timers>>
                                    \/ /\ canReact(p) /\ isPlayerControlled(p)
                                       /\ move' = [move EXCEPT !.offer = TRUE]
                                       /\ timers' = timers \cup Arm(opportunityTimer(p))
                                       /\ call' = Done
                                    \/ /\ canReact(p) /\ ~isPlayerControlled(p)
                                       /\ move' = passed
                                       /\ call' \in {declare(Weapon(p, move.mover, "opportunity", None)), call}
                                       /\ UNCHANGED timers
  <2>1. p \in Creatures /\ Tail(move.provokers) \in Seq(Creatures) /\ move.provokers \in Seq(Creatures)
    BY <1>3, <1>9 DEF Moves
  <2>2. passed \in Moves /\ passed.mover = move.mover /\ passed.auto = move.auto /\ passed.offer = move.offer
    BY <1>3, <2>1 DEF Moves
  <2>3. ASSUME move' = passed PROVE FlightTyped' /\ MoveFits' /\ MoveWaits("opportunity")'
    BY <1>2, <1>3, <1>4, <1>6, <2>2, <2>3, NoneAssumption DEF Inv, Typed, FlightTyped, MoveFits, MoveWaits
  <2>4. CASE move' = passed /\ UNCHANGED <<call, timers>>
    <3>1. InPlace'
      BY <1>1, <1>6, <2>3, <2>4 DEF InPlace, Running, Ready, Begun
    <3> QED BY <1>5, <1>7, <2>3, <2>4, <3>1 DEF Inv, Typed
  <2>5. CASE /\ isPlayerControlled(p) /\ move' = [move EXCEPT !.offer = TRUE]
             /\ timers' = timers \cup Arm(opportunityTimer(p)) /\ call' = Done
    <3>1. /\ move' \in Moves /\ move'.mover = move.mover /\ move'.auto = move.auto /\ move'.offer
          /\ move'.provokers = move.provokers /\ move' # None
      BY <1>3, <2>5, NoneAssumption DEF Moves
    <3>2. p \in Heroes
      BY <2>5 DEF Inv, Typed, TableTyped, isPlayerControlled
    <3>3. FlightTyped' /\ MoveFits'
      BY <1>2, <1>3, <1>4, <1>6, <3>1 DEF Inv, Typed, FlightTyped, MoveFits, MoveWaits
    <3>4. TimersTyped'
      BY <1>4, <2>5, <3>2 DEF Inv, Typed, TimersTyped, Arm, Timers
    <3>5. offerOpen' /\ Head(move'.provokers) = p
      BY <1>9, <3>1 DEF offerOpen
    <3>6. TimersFit'
      <4>1. \A t \in timers' : t \in timers \/ t = opportunityTimer(p)
        BY <2>5 DEF Arm
      <4>2. \A t \in timers' : /\ t[1] # "reaction"
                               /\ t[1] = "opportunity" => t[2] = p
        BY <1>1, <4>1, NothingAsked DEF opportunityTimer
      <4>3. ~fight'.timed => timers' = {} /\ due' = None /\ ~turn'.ends
        BY <1>4, <2>5 DEF Inv, TimersFit, Arm
      <4> QED BY <3>5, <4>2, <4>3 DEF TimersFit
    <3>7. AsksOffer'
      BY <1>4, <1>6, <1>9, <2>5, <3>1 DEF AsksOffer, isPlayerControlled
    <3>8. InPlace'
      BY <1>6, <2>5, <3>7 DEF InPlace, Waits
    <3> QED BY <1>5, <3>3, <3>4, <3>6, <3>8 DEF Inv, Typed
  <2>6. CASE /\ canReact(p) /\ move' = passed /\ call' = declare(Weapon(p, move.mover, "opportunity", None))
             /\ UNCHANGED timers
    <3>1. PICK r : r = Weapon(p, move.mover, "opportunity", None)
      OBVIOUS
    <3>2. Declarable(r, spent)
      BY <1>2, <1>3, <2>1, <2>6, <3>1, Declaring DEF Weapon, Kinds, Purposes, NeedsFocus, canReact
    <3>3. InPlace'
      BY <1>2, <1>4, <1>6, <2>2, <2>3, <2>6, <3>1, <3>2, Declared DEF MoveWaits
    <3> QED BY <1>5, <1>7, <2>3, <2>6, <3>3 DEF Inv, Typed
  <2> QED BY <1>9, <2>4, <2>5, <2>6
<1> QED BY <1>8, <1>9 DEF NextOpportunityAttack

\* The move happens, or the mover's turn is over.
LEMMA CompleteMoveKeeps == ASSUME Inv, CompleteMove PROVE Inv'
<1> USE DEF tableVars, creatureVars, turnVars, flightVars, diceVars, timerVars
<1>1. call.fn = "completeMove" /\ call # Done /\ call.fn # "endIfDecided"
  BY DEF CompleteMove, Done
<1>2. phase = "active" /\ Begun /\ Quiet /\ MoveWaits("opportunity")
  BY <1>1 DEF Inv, InPlace, Running, Ready
<1>3. move \in Moves /\ move.mover = Current /\ (~move.auto => move.mover \in Heroes) /\ move.auto \in BOOLEAN
  BY <1>2 DEF Inv, Typed, FlightTyped, MoveWaits, MoveFits, Moves
<1>4. move' = None /\ UNCHANGED <<tableVars, creatureVars, turnVars, resolution, triggers, diceVars, timerVars>>
  BY DEF CompleteMove
<1>5. Typed' /\ OrderFits' /\ FoesSettle' /\ MoveFits'
  BY <1>4 DEF Inv, Typed, TableTyped, CreaturesTyped, TurnTyped, FlightTyped, DiceTyped, TimersTyped,
       OrderFits, FoesSettle, Traits, MoveFits
<1>6. TimersFit'
  BY <1>1, <1>4, NothingAsked DEF Inv, TimersFit
<1>7. AtRest' /\ Begun' /\ Current' = Current
  BY <1>2, <1>4 DEF AtRest, Quiet, Begun, Current
<1>8. InPlace'
  <2>1. CASE call' = [fn |-> "continuePlan", moves |-> FALSE]
    BY <1>7, <2>1 DEF InPlace, Running, Ready, Begun
  <2>3. CASE call' = Call("endTurn")
    BY <1>7, <2>3 DEF InPlace, Running, Ready, Call, Begun
  <2>2. CASE isActive(Current) /\ ~move.auto /\ call' = Done
    <3>1. HeroTurn' BY <1>3, <1>4, <1>7, <2>2 DEF HeroTurn, isActive
    <3> QED BY <1>7, <2>2, <3>1 DEF InPlace, Waits
  <2> QED BY <1>3, <2>1, <2>2, <2>3 DEF CompleteMove
<1> QED BY <1>5, <1>6, <1>8 DEF Inv

-----------------------------------------------------------------------------
(* An action in flight.                                                    *)

\* An action still fits when its progress is all that changes.
LEMMA FitsOn ==
  ASSUME NEW r, NEW s \in Resolutions, Fitting(r),
         s.actor = r.actor, s.kind = r.kind, s.targets = r.targets, s.purpose = r.purpose,
         s.resumes = r.resumes, s.stage \in {r.stage, "effects"},
         r.kind = "weapon" /\ s.stage = "checks" => cond'[r.actor] = cond[r.actor],
         turn'.index = turn.index, (move' = None) = (move = None), ~move.offer => ~move'.offer,
         UNCHANGED <<fight, order>>
  PROVE  Fitting(s)'
<1>1. Current' = Current /\ Traits' = Traits
  BY DEF Current, Traits
<1>2. resumesAs(s) = resumesAs(r)
  BY DEF resumesAs, Outline
<1>3. Resumes(resumesAs(s))'
  BY <1>1, <1>2 DEF Fitting, Resumes, MoveWaits
<1> QED BY <1>1, <1>3 DEF Fitting, isActive

\* A question is asked, and timed.
LEMMA WindowOpens ==
  ASSUME Inv, ~windowOpen, ~offerOpen, NEW r \in Resolutions, NEW h \in Heroes,
         NEW kind \in {"hit", "spell", "damage", "smite"}, openWindow(r, kind, h),
         turn'.ends = turn.ends, UNCHANGED <<fight, due>>
  PROVE  LET w == [kind |-> kind, hero |-> h]
         IN /\ resolution' \in Resolutions /\ resolution' # None /\ w \in Windows
            /\ resolution'.window = w /\ resolution'.actor = r.actor /\ resolution'.kind = r.kind
            /\ resolution'.targets = r.targets /\ resolution'.purpose = r.purpose
            /\ resolution'.resumes = r.resumes /\ resolution'.stage = r.stage
            /\ TimersTyped' /\ TimersFit' /\ call' = Done
<1> DEFINE w == [kind |-> kind, hero |-> h]
<1>1. w \in Windows
  BY DEF Windows
<1>2. resolution' = [r EXCEPT !.window = w] /\ timers' = timers \cup Arm(reactionTimer(w)) /\ call' = Done
  BY DEF openWindow
<1> HIDE DEF w
<1>3. /\ resolution' \in Resolutions
      /\ resolution'.window = w /\ resolution'.actor = r.actor /\ resolution'.kind = r.kind
      /\ resolution'.targets = r.targets /\ resolution'.purpose = r.purpose
      /\ resolution'.resumes = r.resumes /\ resolution'.stage = r.stage
  BY <1>1, <1>2 DEF Resolutions
<1>4. resolution' # None
  BY <1>3, NoneAssumption
<1>5. w # None
  BY <1>1, NoneAssumption
<1>6. TimersTyped'
  BY <1>1, <1>2 DEF Inv, Typed, TimersTyped, Arm, Timers
<1>7. TimersFit'
  <2>1. \A t \in timers : t[1] \notin {"reaction", "opportunity"}
    BY DEF Inv, TimersFit
  <2>2. windowOpen'
    BY <1>3, <1>4, <1>5 DEF windowOpen
  <2>3. ASSUME NEW t \in timers'
        PROVE  /\ t[1] = "reaction" => t = reactionTimer(w)
               /\ t[1] # "opportunity"
    <3>1. t \in timers \/ t = reactionTimer(w)
      BY <1>2 DEF Arm
    <3> QED BY <2>1, <3>1 DEF reactionTimer
  <2>4. ~fight'.timed => timers' = {} /\ due' = None /\ ~turn'.ends
    BY <1>2 DEF Inv, TimersFit, Arm
  <2> QED BY <1>3, <2>2, <2>3, <2>4 DEF TimersFit
<1> QED BY <1>1, <1>2, <1>3, <1>4, <1>6, <1>7 DEF w

\* A question about what is in flight is a wait.
LEMMA Asks ==
  ASSUME NEW w \in Windows, Begun', resolution' # None, Fitting(resolution)', triggers' = None,
         resolution'.window = w, call' = Done,
         w.hero \in present', cond'[w.hero] = "active", w.kind # "smite" => reaction'[w.hero],
         jobs' = {}, w.kind = "hit" => w.hero \in resolution'.targets /\ resolution'.kind = "weapon",
         w.kind = "damage" => resolution'.purpose # "reaction",
         w.kind # "damage" => resolution'.stage = "checks",
         IF w.kind = "spell" THEN pendingRolls' \subseteq CheckRolls(resolution)' ELSE pendingRolls' = {}
  PROVE  InPlace'
<1>1. AsksWindow'
  BY DEF AsksWindow, InFlight, isActive
<1> QED BY <1>1 DEF InPlace, Waits

\* An action is declared: what it costs, what it needs, who may counter it.
LEMMA DeclareResolutionKeeps == ASSUME Inv, DeclareResolution PROVE Inv'
<1> USE DEF tableVars, creatureVars, turnVars, flightVars, diceVars, timerVars
<1>1. call.fn = "declareResolution" /\ call # Done /\ call.fn # "endIfDecided"
  BY DEF DeclareResolution, Done
<1>2. phase = "active" /\ Begun /\ Quiet /\ Declarable(call.res, spent)
  BY <1>1 DEF Inv, InPlace, Running, Ready
<1>3. PICK r : r = call.res
  OBVIOUS
<1>4. /\ Quiet /\ Fitting(r) /\ r \in Resolutions /\ r.stage = "checks" /\ r.window = None
      /\ r.kind = "weapon" /\ r.purpose = "action" => turn.attacks > 0
  BY <1>2, <1>3 DEF Declarable, Fitting
<1>5. /\ reaction' = IF r.kind = "weapon" /\ r.purpose \in {"opportunity", "reaction"}
                       THEN [reaction EXCEPT ![r.actor] = FALSE] ELSE reaction
      /\ turn' = IF r.purpose # "action" THEN turn
                 ELSE [turn EXCEPT !.action = FALSE, !.attacks = IF r.kind = "weapon" THEN @ - 1 ELSE 0]
      /\ IF r.kind \in NeedsFocus
           THEN /\ focus' = focus \cup {r.actor}
                /\ burning' = IF endsSpirits({r.actor} \cap focus) THEN {} ELSE burning
           ELSE UNCHANGED <<focus, burning>>
      /\ pendingRolls' = pendingRolls \cup
             (IF r.kind \in NeedsCheck THEN {<<"check", c>> : c \in r.targets \ r.landed} ELSE {})
      /\ IF counterspellers(r) # {}
           THEN \E h \in counterspellers(r) : openWindow(r, "spell", h)
           ELSE resolution' = r /\ call' = Call("startResolution") /\ UNCHANGED timers
      /\ UNCHANGED <<tableVars, cond, fails, spent, phase, order, deferred, move, triggers, jobs, due>>
  BY <1>3 DEF DeclareResolution
<1>6. r.actor \in Creatures /\ r.targets \subseteq Creatures
  BY <1>4 DEF Resolutions
<1>7. turn' \in Turns /\ turn'.index = turn.index /\ turn'.ends = turn.ends
  <2>1. turn \in Turns
    BY DEF Inv, Typed, TurnTyped
  <2>2. turn.attacks \in 0 .. 2 /\ (r.kind = "weapon" /\ r.purpose = "action" => turn.attacks - 1 \in 0 .. 2)
    BY <1>4, <2>1 DEF Turns
  <2>3. CASE r.purpose # "action"
    BY <1>5, <2>1, <2>3
  <2>4. CASE r.purpose = "action" /\ r.kind = "weapon"
    <3>1. turn' = [turn EXCEPT !.action = FALSE, !.attacks = turn.attacks - 1]
      BY <1>5, <2>1, <2>4 DEF Turns
    <3> QED BY <2>1, <2>2, <2>4, <3>1 DEF Turns
  <2>5. CASE r.purpose = "action" /\ r.kind # "weapon"
    <3>1. turn' = [turn EXCEPT !.action = FALSE, !.attacks = 0]
      BY <1>5, <2>1, <2>5 DEF Turns
    <3>2. 0 \in 0 .. 2
      OBVIOUS
    <3> QED BY <2>1, <2>5, <3>1, <3>2 DEF Turns
  <2> QED BY <2>3, <2>4, <2>5
<1>8. TableTyped' /\ CreaturesTyped' /\ TurnTyped' /\ OrderFits' /\ MoveFits'
  BY <1>5, <1>6, <1>7 DEF Inv, Typed, TableTyped, CreaturesTyped, TurnTyped, OrderFits, MoveFits, Current
<1>9. FoesSettle'
  BY <1>5 DEF Inv, FoesSettle
<1>10. pendingRolls' \subseteq CheckRolls(r)
  BY <1>4, <1>5 DEF CheckRolls, Quiet
<1>11. DiceTyped'
  BY <1>5, <1>6, <1>10 DEF Inv, Typed, DiceTyped, CheckRolls, Rolls
<1>12. jobs' = {} /\ triggers' = None /\ Begun' /\ phase' = "active"
  BY <1>2, <1>4, <1>5, <1>7 DEF Quiet, Begun
<1>13. CASE counterspellers(r) # {}
  <2>1. PICK h \in counterspellers(r) : openWindow(r, "spell", h)
    BY <1>5, <1>13
  <2>2. h \in Heroes /\ h \in present /\ canReact(h) /\ r.actor \in Foes
    BY DEF counterspellers, isPlayerControlled
  <2>3. PICK w : w = [kind |-> "spell", hero |-> h]
    OBVIOUS
  <2>4. /\ resolution' \in Resolutions /\ resolution' # None /\ w \in Windows
        /\ resolution'.window = w /\ resolution'.actor = r.actor /\ resolution'.kind = r.kind
        /\ resolution'.targets = r.targets /\ resolution'.purpose = r.purpose
        /\ resolution'.resumes = r.resumes /\ resolution'.stage = r.stage
        /\ TimersTyped' /\ TimersFit' /\ call' = Done
    BY <1>1, <1>4, <1>5, <1>7, <2>1, <2>2, <2>3, WindowOpens, NothingAsked
  <2>5. PICK s : s = resolution'
    OBVIOUS
  <2>6. Fitting(s)'
    BY <1>4, <1>5, <1>7, <2>4, <2>5, FitsOn
  <2>7. Fitting(resolution)'
    BY <2>5, <2>6 DEF Fitting
  <2>8. reaction'[h] /\ cond'[h] = "active"
    BY <1>5, <2>2, Apartness DEF Inv, Typed, CreaturesTyped, canReact, isActive
  <2>9. InPlace'
    BY <1>4, <1>5, <1>10, <1>12, <2>2, <2>3, <2>4, <2>7, <2>8, Asks DEF CheckRolls
  <2> QED BY <1>5, <1>8, <1>9, <1>11, <2>4, <2>9 DEF Inv, Typed, FlightTyped
<1>14. CASE resolution' = r /\ call' = Call("startResolution") /\ UNCHANGED timers
  <2>1. Fitting(r)'
    BY <1>4, <1>5, <1>7, FitsOn
  <2>2. resolution' \in Resolutions /\ resolution' # None
    BY <1>4, <1>14, NoneAssumption
  <2>3. InFlight'
    BY <1>12, <1>14, <2>1, <2>2 DEF InFlight
  <2>4. InPlace'
    BY <1>4, <1>10, <1>12, <1>14, <2>3 DEF InPlace, Running, Ready, Call, CheckRolls, Begun
  <2>5. TimersTyped' /\ TimersFit'
    BY <1>1, <1>5, <1>7, <1>14, NothingAsked DEF Inv, Typed, TimersTyped, TimersFit
  <2> QED BY <1>5, <1>8, <1>9, <1>11, <2>2, <2>4, <2>5 DEF Inv, Typed, FlightTyped
<1> QED BY <1>5, <1>13, <1>14

\* The dice of an action go out.
LEMMA StartResolutionKeeps == ASSUME Inv, StartResolution PROVE Inv'
<1> USE DEF tableVars, creatureVars, turnVars, flightVars, diceVars, timerVars
<1>1. call.fn = "startResolution" /\ call # Done /\ call.fn # "endIfDecided"
  BY DEF StartResolution, Done
<1>2. /\ phase = "active" /\ Begun /\ InFlight /\ resolution.stage = "checks" /\ resolution.window = None
      /\ pendingRolls \subseteq CheckRolls(resolution) /\ jobs = {}
  BY <1>1 DEF Inv, InPlace, Running, Ready
<1>3. Checks = pendingRolls
  BY <1>2 DEF Checks, CheckRolls
<1>4. /\ jobs' = pendingRolls
      /\ call' = IF pendingRolls = {} THEN Call("proceedToEffects") ELSE Done
      /\ UNCHANGED <<tableVars, creatureVars, turnVars, flightVars, pendingRolls, timerVars>>
  BY <1>2, <1>3 DEF StartResolution
<1>5. Typed' /\ OrderFits' /\ MoveFits' /\ FoesSettle' /\ TimersFit'
  BY <1>4 DEF Inv, Typed, TableTyped, CreaturesTyped, TurnTyped, FlightTyped, DiceTyped, TimersTyped,
       OrderFits, MoveFits, Current, FoesSettle, Traits, TimersFit, windowOpen, offerOpen
<1>6. InFlight' /\ Begun'
  BY <1>2, <1>4 DEF InFlight, Fitting, Resumes, MoveWaits, Current, isActive, Traits, Begun
<1>7. InPlace'
  <2>1. CASE pendingRolls = {}
    BY <1>2, <1>4, <1>6, <2>1 DEF InPlace, Running, Ready, NoDice, Call, Begun
  <2>2. CASE pendingRolls # {}
    BY <1>2, <1>4, <1>6, <2>2 DEF InPlace, Waits, RollsChecks, CheckRolls
  <2> QED BY <2>1, <2>2
<1> QED BY <1>5, <1>7 DEF Inv

\* The dice of a check are in; the last of them may wait for a smite.
LEMMA SettleCheckKeeps == ASSUME Inv, SettleCheck PROVE Inv'
<1> USE DEF tableVars, creatureVars, turnVars, flightVars, diceVars, timerVars
<1>1. call.fn = "settleCheck" /\ call # Done /\ call.fn # "endIfDecided"
  BY DEF SettleCheck, Done
<1>2. /\ phase = "active" /\ Begun /\ InFlight /\ resolution.stage = "checks" /\ resolution.window = None
      /\ call.target \in resolution.targets /\ call.landed \in BOOLEAN
      /\ pendingRolls \subseteq CheckRolls(resolution) /\ jobs = pendingRolls \ {<<"check", call.target>>}
  BY <1>1 DEF Inv, InPlace, Running, Ready
<1>3. Checks = pendingRolls
  BY <1>2 DEF Checks, CheckRolls
<1>4. PICK r : r = [resolution EXCEPT !.landed = IF call.landed THEN @ \cup {call.target} ELSE @]
  OBVIOUS
<1>5. resolution \in Resolutions /\ Fitting(resolution)
  BY <1>2 DEF InFlight, Fitting
<1>6. /\ r \in Resolutions /\ r.actor = resolution.actor /\ r.kind = resolution.kind
      /\ r.targets = resolution.targets /\ r.purpose = resolution.purpose
      /\ r.resumes = resolution.resumes /\ r.stage = "checks" /\ r.window = None
  <2>1. resolution.landed \cup {call.target} \in SUBSET Creatures
    BY <1>2, <1>5 DEF Resolutions
  <2> QED BY <1>2, <1>4, <1>5, <2>1 DEF Resolutions
<1> DEFINE waiting == jobs # {}
           smites == r.kind = "weapon" /\ call.landed /\ isPlayerControlled(r.actor) /\ "smite" \in Traits[r.actor]
<1>7. /\ IF ~waiting /\ smites
            THEN openWindow(r, "smite", r.actor)
            ELSE /\ resolution' = r
                 /\ call' = IF waiting THEN Done ELSE Call("proceedToEffects")
                 /\ UNCHANGED timers
      /\ pendingRolls' = jobs
      /\ UNCHANGED <<tableVars, creatureVars, turnVars, move, triggers, jobs, due>>
  BY <1>2, <1>3, <1>4 DEF SettleCheck
<1>8. TableTyped' /\ CreaturesTyped' /\ TurnTyped' /\ DiceTyped' /\ OrderFits' /\ MoveFits' /\ FoesSettle'
  BY <1>7 DEF Inv, Typed, TableTyped, CreaturesTyped, TurnTyped, DiceTyped,
       OrderFits, MoveFits, Current, FoesSettle, Traits
<1>9. Begun' /\ triggers' = None
  BY <1>2, <1>7 DEF Begun, InFlight
<1>10. CASE ~waiting /\ smites
  <2>1. PICK w : w = [kind |-> "smite", hero |-> r.actor]
    OBVIOUS
  <2>2. r.actor \in present /\ r.actor \in Heroes
    BY <1>10 DEF isPlayerControlled, Inv, Typed, TableTyped
  <2>3. ~windowOpen /\ ~offerOpen
    BY <1>1, NothingAsked
  <2>4. openWindow(r, "smite", r.actor)
    BY <1>7, <1>10
  <2>5. /\ resolution' \in Resolutions /\ resolution' # None /\ w \in Windows
        /\ resolution'.window = w /\ resolution'.actor = r.actor /\ resolution'.kind = r.kind
        /\ resolution'.targets = r.targets /\ resolution'.purpose = r.purpose
        /\ resolution'.resumes = r.resumes /\ resolution'.stage = r.stage
        /\ TimersTyped' /\ TimersFit' /\ call' = Done
    BY <1>6, <1>7, <2>1, <2>2, <2>3, <2>4, WindowOpens
  <2>6. PICK s : s = resolution'
    OBVIOUS
  <2>7. PICK q : q = resolution
    OBVIOUS
  <2>8. Fitting(s)'
    BY <1>2, <1>5, <1>6, <1>7, <2>5, <2>6, <2>7, FitsOn
  <2>9. Fitting(resolution)'
    BY <2>6, <2>8 DEF Fitting
  <2>10. cond'[r.actor] = "active"
    BY <1>2, <1>5, <1>6, <1>7, <1>10 DEF Fitting, isActive
  <2>11. InPlace'
    BY <1>6, <1>7, <1>9, <1>10, <2>1, <2>2, <2>5, <2>9, <2>10, Asks
  <2> QED BY <1>7, <1>8, <2>5, <2>11 DEF Inv, Typed, FlightTyped
<1>11. CASE /\ resolution' = r /\ call' = IF waiting THEN Done ELSE Call("proceedToEffects")
            /\ UNCHANGED timers
  <2>1. PICK q : q = resolution
    OBVIOUS
  <2>2. Fitting(r)'
    BY <1>2, <1>5, <1>6, <1>7, <2>1, FitsOn
  <2>3. resolution' \in Resolutions /\ resolution' # None
    BY <1>6, <1>11, NoneAssumption
  <2>4. InFlight'
    BY <1>9, <1>11, <2>2, <2>3 DEF InFlight
  <2>5. TimersTyped' /\ TimersFit'
    BY <1>1, <1>7, <1>11, NothingAsked DEF Inv, Typed, TimersTyped, TimersFit
  <2>6. InPlace'
    <3>1. CASE waiting
      BY <1>2, <1>6, <1>7, <1>9, <1>11, <2>4, <3>1 DEF InPlace, Waits, RollsChecks, CheckRolls
    <3>2. CASE ~waiting
      BY <1>6, <1>7, <1>9, <1>11, <2>4, <3>2 DEF InPlace, Running, Ready, NoDice, Call, Begun
    <3> QED BY <3>1, <3>2
  <2> QED BY <1>7, <1>8, <2>3, <2>5, <2>6 DEF Inv, Typed, FlightTyped
<1> QED BY <1>7, <1>10, <1>11

\* The damage is rolled for, unless nothing was hit.
LEMMA ProceedToEffectsKeeps == ASSUME Inv, ProceedToEffects PROVE Inv'
<1> USE DEF tableVars, creatureVars, turnVars, flightVars, diceVars, timerVars
<1>1. call.fn = "proceedToEffects" /\ call # Done /\ call.fn # "endIfDecided"
  BY DEF ProceedToEffects, Done
<1>2. /\ phase = "active" /\ Begun /\ InFlight /\ resolution.window = None /\ NoDice
      /\ resolution.stage = "checks" /\ Fitting(resolution) /\ resolution \in Resolutions
  BY <1>1 DEF Inv, InPlace, Running, Ready, InFlight, Fitting
<1>3. UNCHANGED <<tableVars, creatureVars, turnVars, move, triggers, timerVars>>
  BY DEF ProceedToEffects
<1>4. TableTyped' /\ CreaturesTyped' /\ TurnTyped' /\ TimersTyped' /\ OrderFits' /\ MoveFits' /\ FoesSettle'
  BY <1>3 DEF Inv, Typed, TableTyped, CreaturesTyped, TurnTyped, TimersTyped,
       OrderFits, MoveFits, Current, FoesSettle, Traits
<1>5. TimersFit'
  BY <1>1, <1>3, NothingAsked DEF Inv, TimersFit
<1>6. Begun' /\ triggers' = None
  BY <1>2, <1>3 DEF Begun, InFlight
<1>7. CASE /\ resolution' = [resolution EXCEPT !.stage = "effects"]
           /\ pendingRolls' = pendingRolls \cup {<<"effect">>}
           /\ jobs' = jobs \cup {<<"effect">>}
           /\ call' = Done
  <2>1. PICK q : q = resolution
    OBVIOUS
  <2>2. PICK s : s = resolution'
    OBVIOUS
  <2>3. /\ s \in Resolutions /\ s.actor = q.actor /\ s.kind = q.kind /\ s.targets = q.targets
        /\ s.purpose = q.purpose /\ s.resumes = q.resumes /\ s.stage = "effects" /\ s.window = None
    BY <1>2, <1>7, <2>1, <2>2 DEF Resolutions
  <2>4. Fitting(s)'
    BY <1>2, <1>3, <2>1, <2>3, FitsOn
  <2>5. s # None
    BY <2>3, NoneAssumption
  <2>6. InFlight'
    BY <1>6, <2>2, <2>4, <2>5 DEF InFlight, Fitting
  <2>7. InPlace'
    BY <1>2, <1>6, <1>7, <2>2, <2>3, <2>6 DEF InPlace, Waits, RollsEffects, NoDice
  <2>8. FlightTyped' /\ DiceTyped'
    BY <1>3, <1>7, <2>2, <2>3 DEF Inv, Typed, FlightTyped, DiceTyped, Rolls
  <2> QED BY <1>4, <1>5, <2>7, <2>8 DEF Inv, Typed
<1>8. CASE ~needsDice(resolution) /\ call' = Call("applyEffects") /\ UNCHANGED <<resolution, pendingRolls, jobs>>
  <2>1. InFlight' /\ ~needsDice(resolution)'
    BY <1>2, <1>3, <1>8 DEF InFlight, Fitting, Resumes, MoveWaits, Current, isActive, Traits, needsDice
  <2>2. InPlace'
    BY <1>2, <1>6, <1>8, <2>1 DEF InPlace, Running, Ready, NoDice, Call, Begun
  <2>3. FlightTyped' /\ DiceTyped'
    BY <1>3, <1>8 DEF Inv, Typed, FlightTyped, DiceTyped
  <2> QED BY <1>4, <1>5, <2>2, <2>3 DEF Inv, Typed
<1> QED BY <1>7, <1>8 DEF ProceedToEffects

-----------------------------------------------------------------------------
(* Damage.                                                                 *)

\* What one blow leaves of a creature.
LEMMA BlowIs ==
  ASSUME Typed, FoesSettle, NEW c \in Creatures, NEW nonlethal \in BOOLEAN, NEW blow \in Blows(c, nonlethal)
  PROVE  /\ condAfter(c, blow) \in {"active", "unconscious", "stable", "dead", "fled"}
         /\ c \in Foes => condAfter(c, blow) # "unconscious"
         /\ c \in Heroes => failsAfter(c, blow) \in 0 .. 3
<1>1. cond[c] \in {"active", "unconscious", "stable", "dead", "fled"}
  BY DEF Typed, CreaturesTyped
<1>2. condAfter(c, blow) \in {"active", "unconscious", "stable", "dead", "fled"}
  BY <1>1 DEF condAfter
<1>3. ASSUME c \in Foes PROVE condAfter(c, blow) # "unconscious"
  <2>1. ~isProtected(c) /\ cond[c] # "unconscious" /\ blow \in {"none", "wound", "fell", "kill"}
    BY <1>3, Apartness DEF isProtected, FoesSettle, Blows
  <2> QED BY <1>3, <2>1 DEF condAfter
<1>4. ASSUME c \in Heroes PROVE failsAfter(c, blow) \in 0 .. 3
  <2>1. fails[c] \in 0 .. 3
    BY <1>4 DEF Typed, CreaturesTyped
  <2>2. PICK n \in {0, 1, 2} : n = CASE blow = "fail" -> 1 [] blow = "crit" -> 2 [] OTHER -> 0
    OBVIOUS
  <2>3. failsAfter(c, blow) = CASE n > 0 /\ ~isProtected(c) -> IF fails[c] + n > 3 THEN 3 ELSE fails[c] + n
                                [] blow \in {"fell", "kill"} -> 0
                                [] OTHER -> fails[c]
    BY <2>2 DEF failsAfter
  <2> QED BY <2>1, <2>3
<1> QED BY <1>2, <1>3, <1>4

\* The saves asked of those who concentrate and are hurt.
Saves(b, S) == {<<"concentration", c>> : c \in {d \in S \cap focus : b[d] = "wound"}}

\* What damage leaves of the creatures and the dice it asks for.
LEMMA DamageIs ==
  ASSUME Typed, FoesSettle, NEW S \in SUBSET Creatures, NEW nonlethal \in BOOLEAN,
         NEW b \in AllBlows(S, nonlethal), NEW P, NEW J, applyDamage(b, P, J)
  PROVE  /\ cond' \in [Creatures -> {"active", "unconscious", "stable", "dead", "fled"}]
         /\ fails' \in [Heroes -> 0 .. 3]
         /\ \A f \in Foes : cond'[f] # "unconscious"
         /\ \A c \in Creatures \ S : cond'[c] = cond[c]
         /\ \A c \in S : cond'[c] = condAfter(c, b[c])
         /\ focus' \subseteq focus /\ burning' \subseteq burning
         /\ pendingRolls' = P \cup Saves(b, S) /\ jobs' = J \cup Saves(b, S)
         /\ Saves(b, S) \subseteq ConcentrationRolls /\ (S \cap focus = {} => Saves(b, S) = {})
<1>1. b \in [S -> {"none", "wound", "fell", "kill", "fail", "crit"}] /\ \A c \in S : b[c] \in Blows(c, nonlethal)
  BY DEF AllBlows
<1>2. DOMAIN b = S
  BY <1>1
<1>3. /\ cond' = [c \in Creatures |-> IF c \in S THEN condAfter(c, b[c]) ELSE cond[c]]
      /\ fails' = [h \in Heroes |-> IF h \in S THEN failsAfter(h, b[h]) ELSE fails[h]]
      /\ pendingRolls' = P \cup Saves(b, S) /\ jobs' = J \cup Saves(b, S)
      /\ endConcentration({c \in S : b[c] \in {"fell", "kill"}})
  BY <1>2 DEF applyDamage, Saves
<1>4. \A c \in S : /\ condAfter(c, b[c]) \in {"active", "unconscious", "stable", "dead", "fled"}
                   /\ c \in Foes => condAfter(c, b[c]) # "unconscious"
                   /\ c \in Heroes => failsAfter(c, b[c]) \in 0 .. 3
  BY <1>1, BlowIs
<1>5. cond' \in [Creatures -> {"active", "unconscious", "stable", "dead", "fled"}]
  BY <1>3, <1>4 DEF Typed, CreaturesTyped
<1>6. fails' \in [Heroes -> 0 .. 3]
  BY <1>3, <1>4 DEF Typed, CreaturesTyped
<1>7. \A f \in Foes : cond'[f] # "unconscious"
  BY <1>3, <1>4, Apartness DEF FoesSettle
<1>8. focus' \subseteq focus /\ burning' \subseteq burning
  BY <1>3 DEF endConcentration
<1>9. Saves(b, S) \subseteq ConcentrationRolls /\ (S \cap focus = {} => Saves(b, S) = {})
  BY DEF ConcentrationRolls, Saves
<1>10. (\A c \in Creatures \ S : cond'[c] = cond[c]) /\ (\A c \in S : cond'[c] = condAfter(c, b[c]))
  BY <1>3
<1> QED BY <1>3, <1>5, <1>6, <1>7, <1>8, <1>9, <1>10

\* Damage is dealt; who was hurt may answer it, who concentrates saves first.
LEMMA ApplyEffectsKeeps == ASSUME Inv, ApplyEffects PROVE Inv'
<1> USE DEF tableVars, creatureVars, turnVars, flightVars, diceVars, timerVars
<1>1. call.fn = "applyEffects" /\ call # Done /\ call.fn # "endIfDecided"
  BY DEF ApplyEffects, Done
<1>2. /\ phase = "active" /\ Begun /\ InFlight /\ resolution.window = None /\ NoDice
      /\ needsDice(resolution) => resolution.stage = "effects"
      /\ Fitting(resolution) /\ resolution \in Resolutions
  BY <1>1 DEF Inv, InPlace, Running, Ready, InFlight, Fitting
<1> DEFINE S == {c \in Damaged(resolution) : isPresent(c)}
<1>3. S \in SUBSET Creatures /\ (S # {} => needsDice(resolution))
  BY <1>2 DEF Damaged, Resolutions, needsDice
<1>4. PICK nonlethal \in BOOLEAN : \E b \in AllBlows(S, nonlethal) : applyDamage(b, pendingRolls, jobs)
  BY DEF ApplyEffects
<1>16. PICK b \in AllBlows(S, nonlethal) : applyDamage(b, pendingRolls, jobs)
  BY <1>4
<1>17. Typed /\ FoesSettle
  BY DEF Inv
<1>5. UNCHANGED <<tableVars, reaction, spent, turnVars, move, triggers, due>>
  BY DEF ApplyEffects
<1> HIDE DEF S
<1>6. /\ cond' \in [Creatures -> {"active", "unconscious", "stable", "dead", "fled"}]
      /\ fails' \in [Heroes -> 0 .. 3]
      /\ \A f \in Foes : cond'[f] # "unconscious"
      /\ \A c \in Creatures \ S : cond'[c] = cond[c]
      /\ focus' \subseteq focus /\ burning' \subseteq burning
      /\ pendingRolls' = pendingRolls \cup Saves(b, S) /\ jobs' = jobs \cup Saves(b, S)
      /\ Saves(b, S) \subseteq ConcentrationRolls /\ (S \cap focus = {} => Saves(b, S) = {})
  BY <1>3, <1>16, <1>17, DamageIs
<1>7. /\ pendingRolls' = jobs' /\ pendingRolls' \subseteq ConcentrationRolls
      /\ pendingRolls' # {} => resolution.stage = "effects"
  BY <1>2, <1>3, <1>6 DEF NoDice
<1>8. CreaturesTyped' /\ DiceTyped' /\ FoesSettle'
  <2>1. CreaturesTyped'
    BY <1>5, <1>6 DEF Inv, Typed, CreaturesTyped
  <2>2. DiceTyped'
    BY <1>7 DEF DiceTyped, ConcentrationRolls, Rolls
  <2>3. FoesSettle'
    BY <1>5, <1>6 DEF Inv, FoesSettle, Traits
  <2> QED BY <2>1, <2>2, <2>3
<1>9. TableTyped' /\ TurnTyped' /\ OrderFits' /\ MoveFits'
  BY <1>5 DEF Inv, Typed, TableTyped, TurnTyped, OrderFits, MoveFits, Current
<1>10. Begun' /\ triggers' = None
  BY <1>2, <1>5 DEF Begun, InFlight
<1>11. PICK q : q = resolution
  OBVIOUS
<1>12. q.kind = "weapon" /\ q.stage = "checks" => cond'[q.actor] = cond[q.actor]
  BY <1>2, <1>3, <1>6, <1>11 DEF needsDice, Harms, Resolutions
<1>13. ASSUME NEW s \in Resolutions, s.actor = q.actor, s.kind = q.kind, s.targets = q.targets,
              s.purpose = q.purpose, s.resumes = q.resumes, s.stage = q.stage, s = resolution'
       PROVE  Fitting(resolution)' /\ resolution' # None
  <2>1. Fitting(s)'
    BY <1>2, <1>5, <1>11, <1>12, <1>13, FitsOn
  <2> QED BY <1>13, <2>1, NoneAssumption DEF Fitting
<1>14. CASE /\ \A p \in pendingRolls' : p[1] # "concentration"
            /\ \E h \in retorters(resolution) : openWindow(resolution, "damage", h)
  <2>1. PICK h \in retorters(resolution) : openWindow(resolution, "damage", h)
    BY <1>14
  <2>2. /\ h \in Heroes /\ h \in present /\ cond'[h] = "active" /\ reaction[h] /\ resolution.purpose # "reaction"
    BY DEF retorters, isPlayerControlled
  <2>3. PICK w : w = [kind |-> "damage", hero |-> h]
    OBVIOUS
  <2>4. /\ resolution' \in Resolutions /\ resolution' # None /\ w \in Windows
        /\ resolution'.window = w /\ resolution'.actor = q.actor /\ resolution'.kind = q.kind
        /\ resolution'.targets = q.targets /\ resolution'.purpose = q.purpose
        /\ resolution'.resumes = q.resumes /\ resolution'.stage = q.stage
        /\ TimersTyped' /\ TimersFit' /\ call' = Done
    BY <1>1, <1>2, <1>5, <1>11, <2>1, <2>2, <2>3, WindowOpens, NothingAsked
  <2>5. Fitting(resolution)'
    BY <1>13, <2>4
  <2>6. pendingRolls' = {} /\ jobs' = {}
    BY <1>7, <1>14 DEF ConcentrationRolls
  <2>7. InPlace'
    BY <1>5, <1>10, <1>11, <2>2, <2>3, <2>4, <2>5, <2>6, Asks
  <2> QED BY <1>5, <1>8, <1>9, <2>4, <2>7 DEF Inv, Typed, FlightTyped
<1>15. CASE /\ call' = IF \E p \in pendingRolls' : p[1] = "concentration" THEN Done ELSE Call("finishResolution")
            /\ UNCHANGED <<resolution, timers>>
  <2>1. InFlight'
    BY <1>2, <1>10, <1>11, <1>13, <1>15 DEF InFlight
  <2>2. InPlace'
    <3>1. CASE pendingRolls' # {}
      <4>1. call' = Done
        BY <1>7, <1>15, <3>1 DEF ConcentrationRolls
      <4>2. RollsEffects'
        BY <1>2, <1>7, <1>15, <2>1, <3>1 DEF RollsEffects, ConcentrationRolls
      <4> QED BY <1>10, <4>1, <4>2 DEF InPlace, Waits
    <3>2. CASE pendingRolls' = {}
      BY <1>2, <1>7, <1>10, <1>15, <2>1, <3>2 DEF InPlace, Running, Ready, NoDice, Call, Begun
    <3> QED BY <3>1, <3>2
  <2>3. FlightTyped' /\ TimersTyped'
    BY <1>5, <1>15 DEF Inv, Typed, FlightTyped, TimersTyped
  <2>4. TimersFit'
    BY <1>1, <1>5, <1>15, NothingAsked DEF Inv, TimersFit
  <2> QED BY <1>8, <1>9, <2>2, <2>3, <2>4 DEF Inv, Typed
<1> QED BY <1>14, <1>15 DEF ApplyEffects

\* A spell without dice is laid.
LEMMA LaySpellKeeps == ASSUME Inv, LaySpell PROVE Inv'
<1> USE DEF tableVars, creatureVars, turnVars, flightVars, diceVars, timerVars
<1>1. call.fn = "applyEffects" /\ call # Done /\ call.fn # "endIfDecided"
  BY DEF LaySpell, Done
<1>2. /\ phase = "active" /\ Begun /\ InFlight /\ resolution.window = None /\ NoDice
      /\ Fitting(resolution) /\ resolution \in Resolutions
  BY <1>1 DEF Inv, InPlace, Running, Ready, InFlight, Fitting
<1>3. /\ burning' = IF resolution.kind = "spirits"
                    THEN burning \cup {h \in resolution.targets : isPresent(h)} ELSE burning
      /\ call' = Call("finishResolution")
      /\ UNCHANGED <<tableVars, cond, fails, reaction, focus, spent, turnVars, flightVars, diceVars, timerVars>>
  BY DEF LaySpell
<1>4. burning' \subseteq Heroes
  BY <1>2, <1>3 DEF Fitting, Inv, Typed, CreaturesTyped
<1>6. Typed' /\ OrderFits' /\ MoveFits' /\ TimersFit' /\ FoesSettle'
  BY <1>3, <1>4 DEF Inv, Typed, TableTyped, CreaturesTyped, TurnTyped, FlightTyped, DiceTyped, TimersTyped,
       OrderFits, MoveFits, Current, TimersFit, windowOpen, offerOpen, FoesSettle, Traits
<1>7. InPlace'
  BY <1>2, <1>3 DEF InPlace, Running, Ready, InFlight, Fitting, Resumes, MoveWaits, Current, isActive, Traits,
       NoDice, Call, Begun
<1> QED BY <1>6, <1>7 DEF Inv

\* The action is over, and what it interrupted is remembered.
LEMMA FinishResolutionKeeps == ASSUME Inv, FinishResolution PROVE Inv'
<1> USE DEF tableVars, creatureVars, turnVars, flightVars, diceVars, timerVars
<1>1. call.fn = "finishResolution" /\ call # Done /\ call.fn # "endIfDecided"
  BY DEF FinishResolution, Done
<1>2. /\ phase = "active" /\ Begun /\ InFlight /\ NoDice
      /\ Fitting(resolution) /\ resolution \in Resolutions
  BY <1>1 DEF Inv, InPlace, Running, Ready, InFlight, Fitting
<1>3. /\ resolution' = None /\ due' = dueWithout({reactionTimer(w) : w \in Windows})
      /\ call' = [fn |-> "offerDeathBurst", purpose |-> resolution.purpose, actor |-> resolution.actor,
                  damaged |-> Damaged(resolution), resumes |-> resumesAs(resolution)]
      /\ UNCHANGED <<tableVars, creatureVars, turnVars, move, triggers, diceVars, timers>>
  BY DEF FinishResolution
<1>4. due' \in {due, None}
  BY <1>3 DEF dueWithout
<1>5. Typed' /\ OrderFits' /\ MoveFits' /\ FoesSettle'
  BY <1>3, <1>4 DEF Inv, Typed, TableTyped, CreaturesTyped, TurnTyped, FlightTyped, DiceTyped, TimersTyped,
       OrderFits, MoveFits, Current, FoesSettle, Traits
<1>6. TimersFit'
  BY <1>1, <1>3, <1>4, NothingAsked DEF Inv, TimersFit
<1>7. Quiet' /\ Begun'
  BY <1>2, <1>3 DEF InFlight, NoDice, Quiet, Begun
<1>8. PICK o : o = resumesAs(resolution)
  OBVIOUS
<1>9. o \in Outlines /\ Resumes(o)'
  BY <1>2, <1>3, <1>8 DEF Fitting, Resumes, MoveWaits, Current
<1>10. call' \in [fn : {"offerDeathBurst", "offerRetaliation"}, purpose : Purposes, actor : Creatures,
                  damaged : SUBSET Creatures, resumes : Outlines] /\ call'.resumes = o
  <2>1. resolution.purpose \in Purposes /\ resolution.actor \in Creatures /\ Damaged(resolution) \in SUBSET Creatures
    BY <1>2 DEF Resolutions, Purposes, Damaged
  <2> QED BY <1>3, <1>8, <1>9, <2>1
<1>11. Resumes(call.resumes)'
  BY <1>9, <1>10 DEF Resumes
<1>12. call'.fn = "offerDeathBurst"
  BY <1>3
<1>13. InPlace'
  BY <1>7, <1>10, <1>11, <1>12 DEF InPlace, Running, Ready, Begun
<1> QED BY <1>5, <1>6, <1>13 DEF Inv

\* A foe that has just died goes off.
LEMMA OfferDeathBurstKeeps == ASSUME Inv, OfferDeathBurst PROVE Inv'
<1> USE DEF tableVars, creatureVars, turnVars, flightVars, diceVars, timerVars
<1>1. call.fn = "offerDeathBurst" /\ call # Done /\ call.fn # "endIfDecided"
  BY DEF OfferDeathBurst, Done
<1>2. /\ phase = "active" /\ Begun /\ Quiet /\ Resumes(call.resumes)
      /\ call \in [fn : {"offerDeathBurst", "offerRetaliation"}, purpose : Purposes, actor : Creatures,
                   damaged : SUBSET Creatures, resumes : Outlines]
  BY <1>1 DEF Inv, InPlace, Running, Ready
<1>3. UNCHANGED <<tableVars, cond, fails, reaction, focus, burning, turnVars, flightVars, diceVars, timerVars>>
  BY DEF OfferDeathBurst
<1>4. spent' \subseteq Foes
  BY DEF OfferDeathBurst, Inv, Typed, CreaturesTyped
<1>5. Typed' /\ OrderFits' /\ MoveFits' /\ TimersFit' /\ FoesSettle'
  BY <1>3, <1>4 DEF Inv, Typed, TableTyped, CreaturesTyped, TurnTyped, FlightTyped, DiceTyped, TimersTyped,
       OrderFits, MoveFits, Current, TimersFit, windowOpen, offerOpen, FoesSettle, Traits
<1>6. Begun' /\ Quiet' /\ \A o : Resumes(o)' <=> Resumes(o)
  BY <1>2, <1>3 DEF Begun, Quiet, Resumes, MoveWaits, Current
<1>7. CASE call' = [call EXCEPT !.fn = "offerRetaliation"]
  <2>1. /\ call' \in [fn : {"offerDeathBurst", "offerRetaliation"}, purpose : Purposes, actor : Creatures,
                      damaged : SUBSET Creatures, resumes : Outlines]
        /\ call'.resumes = call.resumes /\ call'.fn = "offerRetaliation"
    BY <1>2, <1>7
  <2>2. InPlace'
    BY <1>2, <1>6, <2>1 DEF InPlace, Running, Ready, Begun
  <2> QED BY <1>5, <2>2 DEF Inv
<1>8. CASE call' = call
  <2>1. InPlace'
    BY <1>1, <1>2, <1>6, <1>8 DEF InPlace, Running, Ready, Begun
  <2> QED BY <1>5, <2>1 DEF Inv
<1>9. CASE \E f \in Foes, caught \in SUBSET Creatures :
              /\ cond[f] = "dead" /\ spent' = spent \cup {f}
              /\ call' = declare(Resolution(f, "blast", caught, "reaction", call.resumes))
  <2>1. PICK f \in Foes, caught \in SUBSET Creatures :
              /\ cond[f] = "dead" /\ spent' = spent \cup {f}
              /\ call' = declare(Resolution(f, "blast", caught, "reaction", call.resumes))
    BY <1>9
  <2>2. PICK r : r = Resolution(f, "blast", caught, "reaction", call.resumes)
    OBVIOUS
  <2>3. PICK bursts : bursts = spent'
    OBVIOUS
  <2>4. Declarable(r, bursts)
    BY <1>2, <2>1, <2>2, <2>3, Apartness, Declaring DEF Kinds, Purposes, NeedsFocus
  <2>5. InPlace'
    BY <1>2, <1>3, <1>6, <2>1, <2>2, <2>3, <2>4, Declared
  <2> QED BY <1>5, <2>5 DEF Inv
<1>10. \/ call' = [call EXCEPT !.fn = "offerRetaliation"] \/ call' = call
       \/ \E f \in Foes, caught \in SUBSET Creatures :
              /\ cond[f] = "dead" /\ spent' = spent \cup {f}
              /\ call' = declare(Resolution(f, "blast", caught, "reaction", call.resumes))
  BY DEF OfferDeathBurst
<1> QED BY <1>7, <1>8, <1>9, <1>10

\* A creature that was hurt strikes back.
LEMMA OfferRetaliationKeeps == ASSUME Inv, OfferRetaliation PROVE Inv'
<1> USE DEF tableVars, creatureVars, turnVars, flightVars, diceVars, timerVars
<1>1. call.fn = "offerRetaliation" /\ call # Done /\ call.fn # "endIfDecided"
  BY DEF OfferRetaliation, Done
<1>2. /\ phase = "active" /\ Begun /\ Quiet /\ Resumes(call.resumes)
      /\ call \in [fn : {"offerDeathBurst", "offerRetaliation"}, purpose : Purposes, actor : Creatures,
                   damaged : SUBSET Creatures, resumes : Outlines]
  BY <1>1 DEF Inv, InPlace, Running, Ready
<1>3. UNCHANGED <<tableVars, creatureVars, turnVars, flightVars, diceVars, timerVars>>
  BY DEF OfferRetaliation
<1>4. Typed' /\ OrderFits' /\ MoveFits' /\ TimersFit' /\ FoesSettle'
  BY <1>3 DEF Inv, Typed, TableTyped, CreaturesTyped, TurnTyped, FlightTyped, DiceTyped, TimersTyped,
       OrderFits, MoveFits, Current, TimersFit, windowOpen, offerOpen, FoesSettle, Traits
<1>5. CASE \E t \in call.damaged : canReact(t) /\ call' = declare(Weapon(t, call.actor, "reaction", call.resumes))
  <2>1. PICK t \in Creatures : canReact(t) /\ call' = declare(Weapon(t, call.actor, "reaction", call.resumes))
    BY <1>2, <1>5
  <2>2. PICK r : r = Weapon(t, call.actor, "reaction", call.resumes)
    OBVIOUS
  <2>3. Declarable(r, spent)
    BY <1>2, <2>1, <2>2, Declaring DEF Weapon, Kinds, Purposes, NeedsFocus, canReact
  <2>4. InPlace'
    BY <1>2, <1>3, <2>1, <2>2, <2>3, Declared DEF Quiet
  <2> QED BY <1>4, <2>4 DEF Inv
<1>6. CASE call' = unlessDecided([fn |-> "afterResolution", actor |-> call.resumes.actor,
                                  kind |-> call.resumes.kind, purpose |-> call.resumes.purpose])
  <2>1. PICK f : f = call'.next
    OBVIOUS
  <2>2. f \in [fn : {"afterResolution"}, actor : Creatures, kind : Kinds, purpose : Purposes]
    BY <1>2, <1>6, <2>1 DEF unlessDecided, Outlines, Purposes
  <2>3. [actor |-> f.actor, kind |-> f.kind, purpose |-> f.purpose] = call.resumes
    BY <1>2, <1>6, <2>1 DEF unlessDecided, Outlines
  <2>4. Quiet' /\ Begun' /\ Resumes([actor |-> f.actor, kind |-> f.kind, purpose |-> f.purpose])'
    BY <1>2, <1>3, <2>3 DEF Quiet, Begun, Resumes, MoveWaits, Current
  <2>5. f.fn = "afterResolution" /\ call'.fn = "endIfDecided"
    BY <1>6, <2>1 DEF unlessDecided
  <2>6. Undecided(f)'
    BY <2>2, <2>4, <2>5 DEF Undecided, Ready
  <2>7. Undecided(call.next)'
    BY <2>1, <2>6
  <2>8. InPlace'
    BY <2>4, <2>5, <2>7 DEF InPlace
  <2> QED BY <1>4, <2>8 DEF Inv
<1> QED BY <1>5, <1>6 DEF OfferRetaliation

\* What the action interrupted goes on, or its actor's turn does.
LEMMA AfterResolutionKeeps == ASSUME Inv, AfterResolution PROVE Inv'
<1> USE DEF tableVars, creatureVars, turnVars, flightVars, diceVars, timerVars
<1>1. call.fn = "afterResolution" /\ call # Done /\ call.fn # "endIfDecided"
  BY DEF AfterResolution, Done
<1>2. /\ phase = "active" /\ Begun /\ Quiet /\ heroesStanding
      /\ Resumes([actor |-> call.actor, kind |-> call.kind, purpose |-> call.purpose])
      /\ call \in [fn : {"afterResolution"}, actor : Creatures, kind : Kinds, purpose : Purposes]
  BY <1>1 DEF Inv, InPlace, Running, Ready
<1> DEFINE c == call.actor
<1>3. /\ c \in Creatures /\ MoveWaits(call.purpose) /\ (call.purpose = "action" => c = Current)
      /\ call.purpose \in {"action", "opportunity", "legendary"}
  BY <1>2 DEF Resumes, Outlines
<1>4. UNCHANGED <<tableVars, creatureVars, turnVars, flightVars, diceVars, timerVars>>
  BY DEF AfterResolution
<1>5. Typed' /\ OrderFits' /\ MoveFits' /\ TimersFit' /\ FoesSettle'
  BY <1>4 DEF Inv, Typed, TableTyped, CreaturesTyped, TurnTyped, FlightTyped, DiceTyped, TimersTyped,
       OrderFits, MoveFits, Current, TimersFit, windowOpen, offerOpen, FoesSettle, Traits
<1>6. Begun' /\ Quiet' /\ heroesStanding' /\ phase' = "active" /\ Current' = Current
      /\ (move = None => AtRest') /\ (MoveWaits("opportunity") => MoveWaits("opportunity")')
  BY <1>2, <1>4 DEF Begun, Quiet, AtRest, heroesStanding, isActive, Current, MoveWaits
<1>7. CASE call.purpose = "opportunity" /\ call' = Call("nextOpportunityAttack")
  <2>1. InPlace'
    BY <1>3, <1>6, <1>7 DEF InPlace, Running, Ready, Call
  <2> QED BY <1>5, <2>1 DEF Inv
<1>8. CASE call.purpose = "legendary" /\ call' = Call("takeLegendaryAction")
  <2>1. InPlace'
    BY <1>3, <1>6, <1>8 DEF InPlace, Running, Ready, Call, MoveWaits
  <2> QED BY <1>5, <2>1 DEF Inv
<1>9. CASE call.purpose = "action" /\ call' = Call("endTurn")
  <2>1. InPlace'
    BY <1>3, <1>6, <1>9 DEF InPlace, Running, Ready, Call, MoveWaits
  <2> QED BY <1>5, <2>1 DEF Inv
<1>10. CASE call.purpose = "action" /\ isPlayerControlled(c) /\ isActive(c) /\ call' = Done
  <2>1. HeroTurn'
    BY <1>3, <1>4, <1>6, <1>10 DEF Inv, Typed, TableTyped, isPlayerControlled, HeroTurn, isActive, MoveWaits
  <2>2. InPlace'
    BY <1>6, <1>10, <2>1 DEF InPlace, Waits
  <2> QED BY <1>5, <2>2 DEF Inv
<1>11. CASE call.purpose = "action" /\ isActive(c) /\ \E r \in nextMultiattack(c) : call' = declare(r)
  <2>1. PICK t \in Enemies(c) : turn.attacks > 0 /\ call' = declare(Weapon(c, t, "action", None))
    BY <1>11 DEF nextMultiattack
  <2>2. PICK r : r = Weapon(c, t, "action", None)
    OBVIOUS
  <2>3. t \in Creatures
    BY Apartness DEF Enemies
  <2>4. Declarable(r, spent)
    BY <1>2, <1>3, <1>11, <2>1, <2>2, <2>3, Declaring DEF Weapon, Kinds, Purposes, NeedsFocus
  <2>5. InPlace'
    BY <1>2, <1>4, <1>6, <2>1, <2>2, <2>4, Declared
  <2> QED BY <1>5, <2>5 DEF Inv
<1> QED BY <1>3, <1>7, <1>8, <1>9, <1>10, <1>11 DEF AfterResolution

-----------------------------------------------------------------------------
(* Saved rolls.                                                            *)

\* A die of the initiative; the last gives the order and the first turn.
LEMMA RecordInitiativeKeeps == ASSUME Inv, NEW c \in Creatures, RecordInitiative(c) PROVE Inv'
<1> USE DEF tableVars, creatureVars, turnVars, flightVars, diceVars, timerVars
<1> DEFINE j == <<"initiative", c>>
<1>1. call = Done /\ j \in pendingRolls /\ j \in jobs /\ jobs' = jobs \ {j} /\ pendingRolls' = pendingRolls \ {j}
      /\ UNCHANGED <<tableVars, creatureVars, turn, deferred, flightVars, timerVars>>
  BY DEF RecordInitiative, arrives, Free, Idle
<1>2. RollsInitiative
  <2>1. Waits
    BY <1>1 DEF Inv, InPlace, Done
  <2> QED BY <1>1, <2>1 DEF Waits, IsOver, IsDeferred, AtRest, Quiet, HeroTurn, RollsDeathSave, RollsTrigger,
            AsksOffer, RollsChecks, CheckRolls, AsksWindow, RollsEffects, ConcentrationRolls
<1>3. TableTyped' /\ CreaturesTyped' /\ FlightTyped' /\ DiceTyped' /\ TimersTyped' /\ FoesSettle' /\ TimersFit' /\ MoveFits'
  BY <1>1, <1>2 DEF Inv, Typed, TableTyped, CreaturesTyped, FlightTyped, DiceTyped, TimersTyped, FoesSettle, Traits,
       TimersFit, windowOpen, offerOpen, MoveFits, RollsInitiative
<1>4. CASE pendingRolls' # {}
  <2>1. UNCHANGED <<order, phase, call>>
    BY <1>4 DEF RecordInitiative
  <2>2. TurnTyped' /\ OrderFits'
    BY <1>1, <2>1 DEF Inv, Typed, TurnTyped, OrderFits
  <2>3. InPlace'
    BY <1>1, <1>2, <1>4, <2>1 DEF InPlace, Waits, RollsInitiative, isActive
  <2> QED BY <1>3, <2>2, <2>3 DEF Inv, Typed
<1>5. CASE pendingRolls' = {}
  <2>1. order' = fight.order /\ phase' = "active" /\ call' = [fn |-> "beginTurn", index |-> 1]
    BY <1>5 DEF RecordInitiative
  <2>2. OrderFits'
    BY <1>1, <2>1 DEF Inv, OrderFits
  <2>3. Len(order') \in Nat \ {0}
    <3>1. order' \in [1 .. Cardinality(Creatures) -> Creatures]
      BY <2>1, CreaturesAssumption DEF Inv, OrderFits
    <3>2. Cardinality(Creatures) \in Nat \ {0}
      BY CreaturesAssumption, FS_CardinalityType, FS_EmptySet DEF Creatures
    <3> QED BY <3>1, <3>2
  <2>4. TurnTyped'
    BY <1>1, <1>2, <2>1, <2>3 DEF Inv, Typed, TurnTyped, RollsInitiative
  <2>5. following' = 1
    BY <1>1, <1>2, <2>3 DEF following, RollsInitiative
  <2>6. heroesStanding' /\ AtRest'
    BY <1>1, <1>2, <1>5, Apartness, CreaturesAssumption DEF heroesStanding, isActive, RollsInitiative, AtRest, Quiet
  <2>7. InPlace'
    BY <1>1, <1>2, <2>1, <2>5, <2>6 DEF InPlace, Running, Ready, RollsInitiative
  <2> QED BY <1>3, <2>2, <2>4, <2>7 DEF Inv, Typed
<1> QED BY <1>4, <1>5

\* A death save, whatever its hero has become while the die was on its way.
LEMMA RecordDeathSaveKeeps == ASSUME Inv, NEW h \in Heroes, RecordDeathSave(h) PROVE Inv'
<1> USE DEF tableVars, creatureVars, turnVars, flightVars, diceVars, timerVars
<1> DEFINE j == <<"deathSave", h>>
<1>1. call = Done /\ j \in pendingRolls /\ j \in jobs /\ jobs' = jobs \ {j} /\ pendingRolls' = pendingRolls \ {j}
      /\ UNCHANGED <<tableVars, reaction, focus, burning, spent, turnVars, flightVars, timerVars>>
  BY DEF RecordDeathSave, arrives, Free, Idle
<1>2. Begun /\ RollsDeathSave
  <2>1. Waits
    BY <1>1 DEF Inv, InPlace, Done
  <2> QED BY <1>1, <2>1 DEF Waits, RollsInitiative, IsOver, IsDeferred, AtRest, Quiet, HeroTurn, RollsDeathSave,
            RollsTrigger, AsksOffer, RollsChecks, CheckRolls, AsksWindow, RollsEffects, ConcentrationRolls
<1>3. h = Current /\ Current' = Current /\ AtRest' /\ Begun'
  BY <1>1, <1>2 DEF RollsDeathSave, Current, AtRest, Quiet, Begun
<1>4. \E c \in {"active", "unconscious", "stable", "dead"}, n \in 0 .. 3 :
         /\ cond' = [cond EXCEPT ![h] = c] /\ fails' = [fails EXCEPT ![h] = n]
         /\ IF c = "active" THEN call' = unlessDecided(IF isPlayerControlled(h) THEN Done ELSE Call("playPlan"))
                            ELSE call' = unlessDecided(Call("endTurn"))
  <2>1. fails[h] \in 0 .. 3 /\ 0 \in 0 .. 3 /\ 3 \in 0 .. 3
    BY DEF Inv, Typed, CreaturesTyped
  <2>2. \A n \in {1, 2} : fails[h] + n < 3 => fails[h] + n \in 0 .. 3
    BY <2>1
  <2> QED BY <2>1, <2>2 DEF RecordDeathSave
<1>5. TableTyped' /\ CreaturesTyped' /\ TurnTyped' /\ FlightTyped' /\ DiceTyped' /\ TimersTyped'
  <2>1. TableTyped' /\ TurnTyped' /\ FlightTyped' /\ DiceTyped' /\ TimersTyped'
    BY <1>1 DEF Inv, Typed, TableTyped, TurnTyped, FlightTyped, DiceTyped, TimersTyped
  <2>2. cond' \in [Creatures -> {"active", "unconscious", "stable", "dead", "fled"}] /\ fails' \in [Heroes -> 0 .. 3]
    BY <1>4 DEF Inv, Typed, CreaturesTyped
  <2> QED BY <1>1, <2>1, <2>2 DEF Inv, Typed, CreaturesTyped
<1>6. OrderFits' /\ MoveFits' /\ TimersFit' /\ FoesSettle'
  BY <1>1, <1>4, Apartness DEF Inv, Typed, CreaturesTyped, OrderFits, MoveFits, Current, TimersFit, windowOpen,
       offerOpen, FoesSettle, Traits
<1>7. InPlace'
  <2>1. CASE call' = unlessDecided(Done) /\ cond' = [cond EXCEPT ![h] = "active"]
    <3>1. HeroTurn'
      BY <1>3, <2>1, Apartness DEF HeroTurn, isActive, Inv, Typed, CreaturesTyped
    <3> QED BY <1>3, <2>1, <3>1 DEF InPlace, unlessDecided
  <2>2. CASE call' = unlessDecided(Call("playPlan")) \/ call' = unlessDecided(Call("endTurn"))
    BY <1>3, <2>2 DEF InPlace, Undecided, Ready, unlessDecided, Call
  <2> QED BY <1>4, <2>1, <2>2
<1> QED BY <1>5, <1>6, <1>7 DEF Inv, Typed

\* A hero is hurt as the turn starts, and no save is asked for.
LEMMA RecordTriggerKeeps == ASSUME Inv, NEW h \in Heroes, RecordTrigger(h), ~astray' PROVE Inv'
<1> USE DEF tableVars, creatureVars, turnVars, flightVars, diceVars, timerVars
<1> DEFINE j == <<"trigger", h>>
<1>1. call = Done /\ j \in pendingRolls /\ j \in jobs /\ triggers' = None /\ h \in burning
      /\ call' = unlessDecided(Call("continueTurn")) /\ <<"concentration", h>> \notin pendingRolls'
      /\ UNCHANGED <<fight, status, present, leaving, reaction, spent, turnVars, resolution, move, timerVars>>
  BY DEF RecordTrigger, arrives, Free, Idle
<1>2. Begun /\ RollsTrigger
  <2>1. Waits
    BY <1>1 DEF Inv, InPlace, Done
  <2> QED BY <1>1, <2>1 DEF Waits, RollsInitiative, IsOver, IsDeferred, AtRest, Quiet, HeroTurn, RollsDeathSave,
            RollsTrigger, AsksOffer, RollsChecks, CheckRolls, AsksWindow, RollsEffects, ConcentrationRolls
<1>3. PICK b \in AllBlows({h}, FALSE) : applyDamage(b, pendingRolls \ {j}, jobs \ {j})
  BY DEF RecordTrigger
<1>4. PICK P, J : P = pendingRolls \ {j} /\ J = jobs \ {j}
  OBVIOUS
<1>5. P = {} /\ J = {}
  BY <1>1, <1>2, <1>4 DEF RollsTrigger
<1>6. {h} \in SUBSET Creatures /\ Typed /\ FoesSettle /\ FALSE \in BOOLEAN
  BY Apartness DEF Inv
<1>7. applyDamage(b, P, J)
  BY <1>3, <1>4
<1>8. /\ cond' \in [Creatures -> {"active", "unconscious", "stable", "dead", "fled"}]
      /\ fails' \in [Heroes -> 0 .. 3]
      /\ \A f \in Foes : cond'[f] # "unconscious"
      /\ focus' \subseteq focus /\ burning' \subseteq burning
      /\ pendingRolls' = P \cup Saves(b, {h}) /\ jobs' = J \cup Saves(b, {h})
  BY <1>6, <1>7, DamageIs
<1>9. Saves(b, {h}) = {}
  BY <1>1, <1>8 DEF Saves
<1>10. pendingRolls' = {} /\ jobs' = {}
  BY <1>5, <1>8, <1>9
<1>11. Typed'
  BY <1>1, <1>8, <1>10 DEF Inv, Typed, TableTyped, CreaturesTyped, TurnTyped, FlightTyped, DiceTyped, TimersTyped
<1>12. OrderFits' /\ MoveFits' /\ TimersFit' /\ FoesSettle'
  BY <1>1, <1>8 DEF Inv, OrderFits, MoveFits, Current, TimersFit, windowOpen, offerOpen, FoesSettle, Traits
<1>13. AtRest' /\ Begun'
  BY <1>1, <1>2, <1>10 DEF RollsTrigger, AtRest, Quiet, Begun
<1>14. InPlace'
  BY <1>1, <1>13 DEF InPlace, Undecided, Ready, unlessDecided, Call
<1> QED BY <1>11, <1>12, <1>14 DEF Inv

\* The die of a check; a weapon's hit may wait for its target's answer.
LEMMA RecordCheckKeeps == ASSUME Inv, NEW c \in Creatures, RecordCheck(c) PROVE Inv'
<1> USE DEF tableVars, creatureVars, turnVars, flightVars, diceVars, timerVars
<1> DEFINE j == <<"check", c>>
<1>1. call = Done /\ j \in pendingRolls /\ j \in jobs /\ jobs' = jobs \ {j}
      /\ UNCHANGED <<tableVars, creatureVars, turnVars, move, triggers, due>>
  BY DEF RecordCheck, arrives, Free, Idle
<1>2. Begun /\ RollsChecks /\ Fitting(resolution) /\ resolution \in Resolutions
  <2>1. Waits
    BY <1>1 DEF Inv, InPlace, Done
  <2> QED BY <1>1, <2>1 DEF Waits, RollsInitiative, IsOver, IsDeferred, AtRest, Quiet, HeroTurn, RollsDeathSave,
            RollsTrigger, AsksOffer, RollsChecks, CheckRolls, AsksWindow, RollsEffects, ConcentrationRolls,
            InFlight, Fitting
<1>3. c \in resolution.targets /\ ~windowOpen /\ ~offerOpen
  BY <1>1, <1>2 DEF RollsChecks, CheckRolls, windowOpen, offerOpen, Fitting, Resumes, MoveWaits
<1>4. TableTyped' /\ CreaturesTyped' /\ TurnTyped' /\ OrderFits' /\ MoveFits' /\ FoesSettle'
  BY <1>1 DEF Inv, Typed, TableTyped, CreaturesTyped, TurnTyped, OrderFits, MoveFits, Current, FoesSettle, Traits
<1>5. Begun' /\ triggers' = None
  BY <1>1, <1>2 DEF Begun, RollsChecks, InFlight
<1>6. CASE /\ resolution.kind = "weapon" /\ c \in Heroes /\ isPlayerControlled(c) /\ canReact(c)
           /\ pendingRolls' = pendingRolls \ {j} /\ openWindow(resolution, "hit", c)
  <2>1. PICK w : w = [kind |-> "hit", hero |-> c]
    OBVIOUS
  <2>2. PICK q : q = resolution
    OBVIOUS
  <2>3. /\ resolution' \in Resolutions /\ resolution' # None /\ w \in Windows
        /\ resolution'.window = w /\ resolution'.actor = q.actor /\ resolution'.kind = q.kind
        /\ resolution'.targets = q.targets /\ resolution'.purpose = q.purpose
        /\ resolution'.resumes = q.resumes /\ resolution'.stage = q.stage
        /\ TimersTyped' /\ TimersFit' /\ call' = Done
    BY <1>1, <1>2, <1>3, <1>6, <2>1, <2>2, WindowOpens
  <2>4. PICK s : s = resolution'
    OBVIOUS
  <2>5. Fitting(s)'
    BY <1>1, <1>2, <2>2, <2>3, <2>4, FitsOn
  <2>6. Fitting(resolution)'
    BY <2>4, <2>5 DEF Fitting
  <2>7. pendingRolls' = {} /\ jobs' = {}
    <3>1. PICK t \in Creatures : resolution.targets = {t}
      BY <1>2, <1>6 DEF Fitting
    <3> QED BY <1>1, <1>2, <1>3, <1>6, <3>1 DEF RollsChecks, CheckRolls
  <2>8. w.hero \in present' /\ cond'[w.hero] = "active" /\ reaction'[w.hero]
    BY <1>1, <1>6, <2>1 DEF isPlayerControlled, canReact, isActive
  <2>9. InPlace'
    BY <1>2, <1>3, <1>5, <1>6, <2>1, <2>2, <2>3, <2>6, <2>7, <2>8, Asks DEF RollsChecks
  <2>10. DiceTyped' /\ FlightTyped'
    BY <1>1, <2>3, <2>7 DEF Inv, Typed, DiceTyped, FlightTyped
  <2> QED BY <1>4, <2>3, <2>9, <2>10 DEF Inv, Typed
<1>7. CASE /\ \E landed \in BOOLEAN : call' = [fn |-> "settleCheck", target |-> c, landed |-> landed]
           /\ UNCHANGED <<resolution, pendingRolls, timers>>
  <2>1. InFlight' /\ resolution'.stage = "checks" /\ resolution'.window = None
    BY <1>1, <1>2, <1>7 DEF RollsChecks, InFlight, Fitting, Resumes, MoveWaits, Current, isActive, Traits
  <2>2. /\ c \in resolution'.targets /\ pendingRolls' \subseteq CheckRolls(resolution)'
        /\ jobs' = pendingRolls' \ {<<"check", c>>}
    BY <1>1, <1>2, <1>3, <1>7 DEF RollsChecks, CheckRolls
  <2>3. InPlace'
    BY <1>5, <1>7, <2>1, <2>2 DEF InPlace, Running, Ready, Begun
  <2>4. DiceTyped' /\ FlightTyped' /\ TimersTyped' /\ TimersFit'
    BY <1>1, <1>7 DEF Inv, Typed, DiceTyped, FlightTyped, TimersTyped, TimersFit, windowOpen, offerOpen
  <2> QED BY <1>4, <2>3, <2>4 DEF Inv, Typed
<1> QED BY <1>6, <1>7 DEF RecordCheck

\* The damage is rolled.
LEMMA RecordEffectKeeps == ASSUME Inv, RecordEffect PROVE Inv'
<1> USE DEF tableVars, creatureVars, turnVars, flightVars, diceVars, timerVars
<1> DEFINE j == <<"effect">>
<1>1. call = Done /\ j \in pendingRolls /\ j \in jobs /\ jobs' = jobs \ {j} /\ pendingRolls' = pendingRolls \ {j}
      /\ call' = Call("applyEffects")
      /\ UNCHANGED <<tableVars, creatureVars, turnVars, flightVars, timerVars>>
  BY DEF RecordEffect, arrives, Free, Idle
<1>2. Begun /\ RollsEffects /\ pendingRolls = {j}
  <2>1. Waits
    BY <1>1 DEF Inv, InPlace, Done
  <2> QED BY <1>1, <2>1 DEF Waits, RollsInitiative, IsOver, IsDeferred, AtRest, Quiet, HeroTurn, RollsDeathSave,
            RollsTrigger, AsksOffer, RollsChecks, CheckRolls, AsksWindow, RollsEffects, ConcentrationRolls
<1>3. Typed' /\ OrderFits' /\ MoveFits' /\ FoesSettle' /\ TimersFit'
  BY <1>1 DEF Inv, Typed, TableTyped, CreaturesTyped, TurnTyped, FlightTyped, DiceTyped, TimersTyped,
       OrderFits, MoveFits, Current, FoesSettle, Traits, TimersFit, windowOpen, offerOpen
<1>4. InFlight' /\ NoDice' /\ Begun'
  BY <1>1, <1>2 DEF RollsEffects, InFlight, Fitting, Resumes, MoveWaits, Current, isActive, Traits, NoDice, Begun
<1>5. InPlace'
  BY <1>1, <1>2, <1>4 DEF InPlace, Running, Ready, RollsEffects, Call, Begun
<1> QED BY <1>3, <1>5 DEF Inv

\* A save for concentration; the last one finishes the action.
LEMMA RecordConcentrationKeeps == ASSUME Inv, NEW c \in Creatures, RecordConcentration(c) PROVE Inv'
<1> USE DEF tableVars, creatureVars, turnVars, flightVars, diceVars, timerVars
<1> DEFINE j == <<"concentration", c>>
<1>1. call = Done /\ j \in pendingRolls /\ j \in jobs /\ jobs' = jobs \ {j} /\ pendingRolls' = pendingRolls \ {j}
      /\ (endConcentration({c}) \/ UNCHANGED <<focus, burning>>)
      /\ UNCHANGED <<tableVars, cond, fails, reaction, spent, turnVars, flightVars, timerVars>>
  BY DEF RecordConcentration, arrives, Free, Idle
<1> DEFINE over == resolution.stage # "checks" /\ \A p \in pendingRolls' : p[1] # "concentration"
<1>8. (over => call' = Call("finishResolution")) /\ (~over => call' = Done)
  <2>1. call' = IF over THEN Call("finishResolution") ELSE Done
    BY DEF RecordConcentration
  <2> HIDE DEF over
  <2> QED BY <2>1
<1>2. Begun /\ RollsEffects /\ pendingRolls \subseteq ConcentrationRolls
  <2>1. Waits
    BY <1>1 DEF Inv, InPlace, Done
  <2> QED BY <1>1, <2>1 DEF Waits, RollsInitiative, IsOver, IsDeferred, AtRest, Quiet, HeroTurn, RollsDeathSave,
            RollsTrigger, AsksOffer, RollsChecks, CheckRolls, AsksWindow, RollsEffects
<1>3. focus' \subseteq focus /\ burning' \subseteq burning
  BY <1>1 DEF endConcentration
<1>4. Typed' /\ OrderFits' /\ MoveFits' /\ FoesSettle' /\ TimersFit'
  BY <1>1, <1>3 DEF Inv, Typed, TableTyped, CreaturesTyped, TurnTyped, FlightTyped, DiceTyped, TimersTyped,
       OrderFits, MoveFits, Current, FoesSettle, Traits, TimersFit, windowOpen, offerOpen
<1>5. InFlight' /\ Begun' /\ resolution'.stage = "effects" /\ resolution'.window = None /\ jobs' = pendingRolls'
  BY <1>1, <1>2 DEF RollsEffects, InFlight, Fitting, Resumes, MoveWaits, Current, isActive, Traits, Begun
<1>6. CASE pendingRolls' = {}
  <2>1. call' = Call("finishResolution")
    BY <1>2, <1>6, <1>8 DEF RollsEffects
  <2>2. InPlace'
    BY <1>5, <1>6, <2>1 DEF InPlace, Running, Ready, NoDice, Call, Begun
  <2> QED BY <1>4, <2>2 DEF Inv
<1>7. CASE pendingRolls' # {}
  <2>1. call' = Done /\ pendingRolls' \subseteq ConcentrationRolls
    BY <1>1, <1>2, <1>7, <1>8 DEF ConcentrationRolls
  <2>2. RollsEffects'
    BY <1>5, <1>7, <2>1 DEF RollsEffects, ConcentrationRolls
  <2>3. InPlace'
    BY <1>5, <2>1, <2>2 DEF InPlace, Waits
  <2> QED BY <1>4, <2>3 DEF Inv
<1> QED BY <1>6, <1>7

-----------------------------------------------------------------------------
(* Timers, answers and the player's turn.                                  *)

\* What the timer worker has in hand, as answers leave it.
DueStays == due' \in Dues \cup {None} /\ (due = None => due' = None) /\ (due # None => due'.timer = due.timer)

\* The player's answer, or none in time: the action goes on.
LEMMA AnswerWindowIs ==
  ASSUME Inv, call = Done, windowOpen, NEW take \in BOOLEAN, answerWindow(take), DueStays,
         UNCHANGED <<fight, cond, fails, focus, burning, spent, turnVars, move, triggers, jobs>>
  PROVE  /\ CreaturesTyped' /\ FlightTyped' /\ DiceTyped' /\ TimersTyped'
         /\ OrderFits' /\ MoveFits' /\ TimersFit' /\ FoesSettle' /\ InPlace'
<1> USE DEF turnVars
<1>1. Begun /\ AsksWindow /\ Fitting(resolution) /\ resolution \in Resolutions
  <2>1. Waits
    BY DEF Inv, InPlace, Done
  <2> QED BY <2>1 DEF Waits, RollsInitiative, IsOver, IsDeferred, AtRest, Quiet, HeroTurn, RollsDeathSave,
            RollsTrigger, AsksOffer, RollsChecks, AsksWindow, RollsEffects, InFlight, Fitting, windowOpen
<1> DEFINE w == resolution.window
           used == IF take THEN [reaction EXCEPT ![w.hero] = FALSE] ELSE reaction
<1>2. w \in Windows /\ w.hero \in Heroes /\ w.kind \in {"hit", "spell", "damage", "smite"}
  BY <1>1 DEF AsksWindow, Windows
<1>3. /\ resolution' \in {None, [resolution EXCEPT !.window = None]}
      /\ timers' = timers \ {reactionTimer(w)}
      /\ reaction' \in {reaction, used}
      /\ pendingRolls' \subseteq pendingRolls
  BY <1>2 DEF answerWindow, closeWindow
<1>4. PICK r : r = [resolution EXCEPT !.window = None]
  OBVIOUS
<1>5. PICK q : q = resolution
  OBVIOUS
<1>6. /\ r \in Resolutions /\ r.window = None /\ r.actor = q.actor /\ r.kind = q.kind /\ r.targets = q.targets
      /\ r.purpose = q.purpose /\ r.resumes = q.resumes /\ r.stage = q.stage /\ r # None
  <2>1. /\ r \in Resolutions /\ r.window = None /\ r.actor = q.actor /\ r.kind = q.kind /\ r.targets = q.targets
        /\ r.purpose = q.purpose /\ r.resumes = q.resumes /\ r.stage = q.stage
    BY <1>1, <1>4, <1>5 DEF Resolutions
  <2> QED BY <2>1, NoneAssumption
<1>7. ~offerOpen
  BY <1>1 DEF offerOpen, Fitting, Resumes, MoveWaits
<1>8. CreaturesTyped' /\ DiceTyped' /\ FlightTyped'
  BY <1>2, <1>3, <1>4, <1>6 DEF Inv, Typed, CreaturesTyped, DiceTyped, FlightTyped
<1>9. TimersTyped' /\ OrderFits' /\ MoveFits' /\ FoesSettle'
  BY <1>3 DEF Inv, Typed, TimersTyped, DueStays, OrderFits, MoveFits, Current, FoesSettle, Traits
<1>10. TimersFit'
  <2>1. \A t \in timers' : t[1] \notin {"reaction", "opportunity"}
    BY <1>3, <1>7 DEF Inv, TimersFit
  <2> QED BY <1>3, <2>1 DEF Inv, TimersFit, DueStays
<1>11. Begun' /\ triggers' = None /\ jobs' = {}
  BY <1>1 DEF Begun, AsksWindow, InFlight
<1>12. ASSUME resolution' = r PROVE InFlight' /\ resolution'.window = None /\ resolution'.stage = q.stage
  <2>1. Fitting(r)'
    BY <1>1, <1>5, <1>6, FitsOn
  <2> QED BY <1>6, <1>11, <1>12, <2>1 DEF InFlight
<1>13. CASE w.kind = "hit"
  <2>1. /\ resolution' = r /\ pendingRolls' = pendingRolls
        /\ \E hit \in BOOLEAN : call' = [fn |-> "settleCheck", target |-> w.hero, landed |-> hit]
    BY <1>4, <1>13 DEF answerWindow, closeWindow
  <2>2. pendingRolls = {} /\ w.hero \in r.targets /\ r.stage = "checks"
    BY <1>1, <1>5, <1>6, <1>13 DEF AsksWindow
  <2>3. InPlace'
    BY <1>5, <1>6, <1>11, <1>12, <2>1, <2>2 DEF InPlace, Running, Ready, Begun
  <2> QED BY <1>8, <1>9, <1>10, <2>3
<1>14. CASE w.kind = "spell"
  <2>1. /\ resolution' = r /\ pendingRolls' = IF take THEN pendingRolls \ Checks ELSE pendingRolls
        /\ call' = Call(IF take THEN "finishResolution" ELSE "startResolution")
    BY <1>4, <1>14 DEF answerWindow, closeWindow
  <2>2. pendingRolls \subseteq CheckRolls(q) /\ r.stage = "checks"
    BY <1>1, <1>5, <1>6, <1>14 DEF AsksWindow
  <2>3. CASE take
    <3>1. pendingRolls' = {}
      BY <2>1, <2>2, <2>3 DEF Checks, CheckRolls
    <3>2. InPlace'
      BY <1>11, <1>12, <2>1, <2>3, <3>1 DEF InPlace, Running, Ready, NoDice, Call, Begun
    <3> QED BY <1>8, <1>9, <1>10, <3>2
  <2>4. CASE ~take
    <3>1. pendingRolls' \subseteq CheckRolls(resolution)'
      BY <1>6, <2>1, <2>2, <2>4 DEF CheckRolls
    <3>2. InPlace'
      BY <1>6, <1>11, <1>12, <2>1, <2>2, <2>4, <3>1 DEF InPlace, Running, Ready, Call, Begun
    <3> QED BY <1>8, <1>9, <1>10, <3>2
  <2> QED BY <2>3, <2>4
<1>15. CASE w.kind = "damage" /\ ~take
  <2>1. resolution' = r /\ pendingRolls' = pendingRolls /\ call' = Call("finishResolution")
    BY <1>4, <1>15 DEF answerWindow, closeWindow
  <2>2. pendingRolls = {}
    BY <1>1, <1>15 DEF AsksWindow
  <2>3. InPlace'
    BY <1>11, <1>12, <2>1, <2>2 DEF InPlace, Running, Ready, NoDice, Call, Begun
  <2> QED BY <1>8, <1>9, <1>10, <2>3
<1>16. CASE w.kind = "damage" /\ take
  <2>1. /\ resolution' = None /\ pendingRolls' = pendingRolls
        /\ call' = declare(Resolution(w.hero, "bolt", {resolution.actor}, "reaction", Outline(resolution)))
    BY <1>16 DEF answerWindow
  <2>2. pendingRolls = {} /\ resolution.purpose # "reaction" /\ isActive(w.hero)
    BY <1>1, <1>16 DEF AsksWindow
  <2>3. resumesAs(resolution) = Outline(resolution)
    BY <1>1, <2>2 DEF Fitting, resumesAs
  <2>4. PICK o : o = Outline(resolution)
    OBVIOUS
  <2>5. o \in Outlines /\ Resumes(o)
    BY <1>1, <2>3, <2>4 DEF Fitting, Resumes
  <2>6. PICK s : s = Resolution(w.hero, "bolt", {resolution.actor}, "reaction", o)
    OBVIOUS
  <2>7. w.hero \in Creatures /\ {resolution.actor} \in SUBSET Creatures
    BY <1>1, <1>2, Apartness DEF Resolutions
  <2>8. Declarable(s, spent)
    BY <2>2, <2>5, <2>6, <2>7, Declaring DEF Kinds, Spells, Purposes, NeedsFocus
  <2>9. s.kind = "bolt"
    BY <2>6 DEF Resolution
  <2>10. Quiet' /\ phase = "active"
    BY <1>1, <1>11, <2>1, <2>2 DEF Quiet, Begun
  <2>11. InPlace'
    BY <1>1, <2>1, <2>4, <2>6, <2>8, <2>9, <2>10, Declared
  <2> QED BY <1>8, <1>9, <1>10, <2>11
<1>17. CASE w.kind = "smite"
  <2>1. pendingRolls = {} /\ q.stage = "checks"
    BY <1>1, <1>5, <1>17 DEF AsksWindow
  <2>2. Checks = {}
    BY <2>1 DEF Checks
  <2>3. resolution' = r /\ pendingRolls' = pendingRolls /\ call' = Call("proceedToEffects")
    BY <1>4, <1>17, <2>2 DEF answerWindow, closeWindow
  <2>4. InPlace'
    BY <1>11, <1>12, <2>1, <2>3 DEF InPlace, Running, Ready, NoDice, Call, Begun
  <2> QED BY <1>8, <1>9, <1>10, <2>4
<1> QED BY <1>2, <1>13, <1>14, <1>15, <1>16, <1>17

\* An opportunity attack is made or let pass: the move goes on.
LEMMA AnswerOpportunityAttackIs ==
  ASSUME Inv, call = Done, offerOpen, NEW take \in BOOLEAN, answerOpportunityAttack(take), DueStays,
         UNCHANGED <<fight, creatureVars, turnVars, resolution, triggers, diceVars>>
  PROVE  /\ CreaturesTyped' /\ FlightTyped' /\ DiceTyped' /\ TimersTyped'
         /\ OrderFits' /\ MoveFits' /\ TimersFit' /\ FoesSettle' /\ InPlace'
<1> USE DEF turnVars, creatureVars, diceVars
<1>1. Begun /\ AsksOffer /\ Quiet
  <2>1. Waits
    BY DEF Inv, InPlace, Done
  <2> QED BY <2>1 DEF Waits, RollsInitiative, IsOver, IsDeferred, AtRest, Quiet, HeroTurn, RollsDeathSave,
            RollsTrigger, AsksOffer, RollsChecks, AsksWindow, RollsEffects, InFlight, Fitting, Resumes,
            MoveWaits, offerOpen
<1>11. PICK p : p = Head(move.provokers)
  OBVIOUS
<1>2. /\ timers' = timers \ {opportunityTimer(p)}
      /\ move' = [move EXCEPT !.provokers = Tail(@), !.offer = FALSE]
      /\ call' = IF take /\ isActive(move.mover) /\ canReact(p)
                   THEN declare(Weapon(p, move.mover, "opportunity", None))
                   ELSE Call("nextOpportunityAttack")
  BY <1>11 DEF answerOpportunityAttack
<1>3. move \in Moves /\ move.mover \in Creatures /\ p \in Creatures /\ Tail(move.provokers) \in Seq(Creatures)
  BY <1>1, <1>11 DEF AsksOffer, Inv, Typed, FlightTyped, Moves
<1>4. move' \in Moves /\ move'.mover = move.mover /\ move'.auto = move.auto /\ ~move'.offer /\ move' # None
  <2>1. move' \in Moves /\ move'.mover = move.mover /\ move'.auto = move.auto /\ ~move'.offer
    BY <1>2, <1>3 DEF Moves
  <2> QED BY <2>1, NoneAssumption
<1>5. CreaturesTyped' /\ FlightTyped' /\ DiceTyped' /\ TimersTyped'
  BY <1>2, <1>4 DEF Inv, Typed, CreaturesTyped, FlightTyped, DiceTyped, TimersTyped, DueStays
<1>6. OrderFits' /\ MoveFits' /\ FoesSettle'
  BY <1>1, <1>4 DEF Inv, OrderFits, MoveFits, Current, FoesSettle, Traits, AsksOffer
<1>7. TimersFit'
  <2>1. ~windowOpen
    BY <1>1 DEF Quiet, windowOpen
  <2>2. \A t \in timers : t[1] = "opportunity" => t = opportunityTimer(p)
    <3>1. ASSUME NEW t \in timers, t[1] = "opportunity" PROVE t = opportunityTimer(p)
      <4>1. t \in Timers /\ t[2] = p
        BY <1>11, <3>1 DEF Inv, TimersFit, Typed, TimersTyped
      <4> QED BY <3>1, <4>1 DEF Timers, turnTimer, opportunityTimer, reactionTimer
    <3> QED BY <3>1
  <2>3. \A t \in timers' : t[1] \notin {"reaction", "opportunity"}
    BY <1>2, <2>1, <2>2 DEF Inv, TimersFit
  <2> QED BY <1>2, <2>3 DEF Inv, TimersFit, DueStays
<1>8. Begun' /\ Quiet' /\ phase = "active"
  BY <1>1 DEF Begun, Quiet
<1>9. CASE isActive(move.mover) /\ canReact(p) /\ call' = declare(Weapon(p, move.mover, "opportunity", None))
  <2>1. PICK r : r = Weapon(p, move.mover, "opportunity", None)
    OBVIOUS
  <2>2. ASSUME ~move.offer PROVE FALSE
    BY <1>1, <2>2 DEF AsksOffer
  <2>3. Fitting(r)' /\ r.stage = "checks" /\ r.window = None /\ r.actor = p /\ r.kind = "weapon" /\ r.purpose = "opportunity"
    <3>5. "weapon" \in Kinds /\ "opportunity" \in Purposes /\ {move.mover} \in SUBSET Creatures
      BY <1>3 DEF Kinds, Purposes
    <3>6. PICK S : S = {move.mover}
      OBVIOUS
    <3>1. /\ r \in Resolutions /\ r.actor = p /\ r.kind = "weapon" /\ r.targets = S
          /\ r.purpose = "opportunity" /\ r.resumes = None /\ r.stage = "checks" /\ r.window = None
      <4>1. r = Resolution(p, "weapon", S, "opportunity", None)
        BY <2>1, <3>6 DEF Weapon
      <4> QED BY <1>3, <3>5, <3>6, <4>1, ResolutionIs
    <3>2. resumesAs(r) = [actor |-> p, kind |-> "weapon", purpose |-> "opportunity"]
      BY <3>1 DEF resumesAs, Outline
    <3>3. Resumes(resumesAs(r))'
      BY <1>3, <1>4, <3>2 DEF Resumes, Outlines, Kinds, MoveWaits
    <3>4. isActive(p)'
      BY <1>9 DEF canReact, isActive
    <3> QED BY <1>3, <3>1, <3>3, <3>4, <3>6 DEF Fitting, NeedsFocus
  <2>4. Declarable(r, spent)'
    BY <1>9, <2>3 DEF Declarable, canReact, isActive
  <2>5. call'.fn = "declareResolution" /\ call'.res = r
    BY <1>9, <2>1 DEF declare
  <2>6. InPlace'
    BY <1>8, <2>4, <2>5 DEF InPlace, Running, Ready, Begun
  <2> QED BY <1>5, <1>6, <1>7, <2>6
<1>10. CASE call' = Call("nextOpportunityAttack")
  <2>1. InPlace'
    BY <1>4, <1>8, <1>10 DEF InPlace, Running, Ready, MoveWaits, Call, Begun
  <2> QED BY <1>5, <1>6, <1>7, <2>1
<1> QED BY <1>2, <1>9, <1>10

\* A wait goes on while what it waits for is untouched.
LEMMA WaitsOn ==
  ASSUME Waits, status' = status \/ status' # "active" \/ ~IsDeferred,
         present \subseteq present',
         UNCHANGED <<fight, creatureVars, turnVars, flightVars, diceVars>>
  PROVE  Waits'
<1> USE DEF creatureVars, turnVars, flightVars, diceVars
<1>1. Current' = Current
  BY DEF Current
<1>2. (RollsInitiative => RollsInitiative') /\ (IsOver => IsOver') /\ (HeroTurn => HeroTurn')
      /\ (RollsDeathSave => RollsDeathSave') /\ (RollsTrigger => RollsTrigger') /\ (AsksOffer => AsksOffer')
  BY <1>1 DEF RollsInitiative, IsOver, HeroTurn, AtRest, Quiet, isActive, RollsDeathSave, RollsTrigger, isPresent,
       AsksOffer
<1>3. IsDeferred => IsDeferred'
  BY DEF IsDeferred, following, AtRest, Quiet, heroesStanding, isActive
<1>4. InFlight => InFlight'
  BY <1>1 DEF InFlight, Fitting, Resumes, MoveWaits, isActive, Traits
<1>5. (RollsChecks => RollsChecks') /\ (RollsEffects => RollsEffects') /\ (AsksWindow => AsksWindow')
  BY <1>4 DEF RollsChecks, RollsEffects, AsksWindow, CheckRolls, isActive
<1>6. Begun => Begun'
  BY DEF Begun
<1> QED BY <1>2, <1>3, <1>5, <1>6 DEF Waits

\* A wait does not depend on what is in the timer worker's hand.
LEMMA DueKeeps ==
  ASSUME Inv, call = Done, DueStays,
         UNCHANGED <<fight, status, present, leaving, creatureVars, turnVars, flightVars, diceVars, timers, call>>
  PROVE  Inv'
<1> USE DEF creatureVars, turnVars, flightVars, diceVars
<1>1. Typed' /\ OrderFits' /\ MoveFits' /\ FoesSettle' /\ TimersFit'
  BY DEF Inv, Typed, TableTyped, CreaturesTyped, TurnTyped, FlightTyped, DiceTyped, TimersTyped,
       OrderFits, MoveFits, Current, FoesSettle, Traits, TimersFit, windowOpen, offerOpen, DueStays
<1>2. Waits
  BY DEF Inv, InPlace, Done
<1>3. Waits'
  BY <1>2, WaitsOn
<1> QED BY <1>1, <1>3 DEF Inv, InPlace

LEMMA AnswerWindowKeeps == ASSUME Inv, NEW take \in BOOLEAN, AnswerWindow(take) PROVE Inv'
<1> USE DEF tableVars, creatureVars, turnVars, flightVars, diceVars, timerVars
<1>1. /\ call = Done /\ windowOpen /\ answerWindow(take)
      /\ UNCHANGED <<tableVars, cond, fails, focus, burning, spent, turnVars, move, triggers, jobs, due>>
  BY DEF AnswerWindow, Free, Idle
<1>2. DueStays
  BY <1>1 DEF DueStays, Inv, Typed, TimersTyped
<1>3. TableTyped' /\ TurnTyped'
  BY <1>1 DEF Inv, Typed, TableTyped, TurnTyped
<1> QED BY <1>1, <1>2, <1>3, AnswerWindowIs DEF Inv, Typed

LEMMA AnswerOpportunityAttackKeeps ==
  ASSUME Inv, NEW take \in BOOLEAN, AnswerOpportunityAttack(take) PROVE Inv'
<1> USE DEF tableVars, creatureVars, turnVars, flightVars, diceVars, timerVars
<1>1. /\ call = Done /\ offerOpen /\ answerOpportunityAttack(take)
      /\ UNCHANGED <<tableVars, creatureVars, turnVars, resolution, triggers, diceVars, due>>
  BY DEF AnswerOpportunityAttack, Free, Idle
<1>2. DueStays
  BY <1>1 DEF DueStays, Inv, Typed, TimersTyped
<1>3. TableTyped' /\ TurnTyped'
  BY <1>1 DEF Inv, Typed, TableTyped, TurnTyped
<1> QED BY <1>1, <1>2, <1>3, AnswerOpportunityAttackIs DEF Inv, Typed

LEMMA FiredIs == ASSUME Inv, due # None, fired PROVE DueStays /\ due' # None
<1>1. due \in Dues /\ due' = [due EXCEPT !.at = "fired"]
  BY DEF Inv, Typed, TimersTyped, fired
<1>2. due' \in Dues /\ due'.timer = due.timer
  BY <1>1 DEF Dues
<1> QED BY <1>2, NoneAssumption DEF DueStays

LEMMA ReactionTimerExpiredKeeps == ASSUME Inv, ReactionTimerExpired PROVE Inv'
<1> USE DEF tableVars, creatureVars, turnVars, flightVars, diceVars, timerVars
<1>1. call = Done /\ due # None /\ fired
      /\ UNCHANGED <<tableVars, cond, fails, focus, burning, spent, turnVars, move, triggers, jobs>>
  BY DEF ReactionTimerExpired, dueNow, Free, Idle
<1>2. DueStays
  BY <1>1, FiredIs
<1>3. TableTyped' /\ TurnTyped'
  BY <1>1 DEF Inv, Typed, TableTyped, TurnTyped
<1>4. CASE windowOpen /\ answerWindow(FALSE)
  BY <1>1, <1>2, <1>3, <1>4, AnswerWindowIs DEF Inv, Typed
<1>5. CASE UNCHANGED <<resolution, timers, reaction, call, pendingRolls>>
  BY <1>1, <1>2, <1>5, DueKeeps
<1> QED BY <1>4, <1>5 DEF ReactionTimerExpired

LEMMA OpportunityTimerExpiredKeeps == ASSUME Inv, OpportunityTimerExpired PROVE Inv'
<1> USE DEF tableVars, creatureVars, turnVars, flightVars, diceVars, timerVars
<1>1. call = Done /\ due # None /\ fired
      /\ UNCHANGED <<tableVars, creatureVars, turnVars, resolution, triggers, diceVars>>
  BY DEF OpportunityTimerExpired, dueNow, Free, Idle
<1>2. DueStays
  BY <1>1, FiredIs
<1>3. TableTyped' /\ TurnTyped'
  BY <1>1 DEF Inv, Typed, TableTyped, TurnTyped
<1>4. CASE offerOpen /\ answerOpportunityAttack(FALSE)
  BY <1>1, <1>2, <1>3, <1>4, AnswerOpportunityAttackIs DEF Inv, Typed
<1>5. CASE UNCHANGED <<move, timers, call>>
  BY <1>1, <1>2, <1>5, DueKeeps
<1> QED BY <1>4, <1>5 DEF OpportunityTimerExpired

\* A turn timer finds its turn, and plays it for the player, unless a death
\* save is out.
LEMMA TurnTimerExpiredKeeps == ASSUME Inv, TurnTimerExpired, ~astray, ~astray' PROVE Inv'
<1> USE DEF tableVars, creatureVars, turnVars, flightVars, diceVars, timerVars
<1>1. /\ call = Done /\ due # None /\ due.timer[1] = "turn" /\ fired
      /\ UNCHANGED <<fight, status, present, leaving, creatureVars, turnVars, flightVars, diceVars>>
  BY DEF TurnTimerExpired, dueNow, Free, Idle
<1>2. ~(call' = Call("endTurn") /\ <<"deathSave", Current>> \in pendingRolls)
  BY Zenon DEF TurnTimerExpired
<1>3. DueStays /\ due' # None
  BY <1>1, FiredIs
<1>4. due.timer = turnTimer
  <2>1. due.timer \in Timers
    BY <1>1 DEF Inv, Typed, TimersTyped, Dues
  <2> QED BY <1>1, <2>1 DEF Timers, opportunityTimer, reactionTimer
<1>5. fight.timed
  BY <1>1 DEF Inv, TimersFit
<1>6. Waits
  BY <1>1 DEF Inv, InPlace, Done
<1>7. CASE UNCHANGED <<timers, call>>
  BY <1>1, <1>3, <1>7, DueKeeps
<1>8. CASE timers' = timers \cup {turnTimer} /\ UNCHANGED call
  <2>1. Typed' /\ OrderFits' /\ MoveFits' /\ FoesSettle'
    BY <1>1, <1>3, <1>8 DEF Inv, Typed, TableTyped, CreaturesTyped, TurnTyped, FlightTyped, DiceTyped, TimersTyped,
         Timers, DueStays, OrderFits, MoveFits, Current, FoesSettle, Traits
  <2>2. TimersFit'
    BY <1>1, <1>5, <1>8 DEF Inv, TimersFit, turnTimer, windowOpen, offerOpen
  <2>3. Waits'
    BY <1>1, <1>6, WaitsOn
  <2> QED BY <1>1, <1>8, <2>1, <2>2, <2>3 DEF Inv, InPlace
<1>9. CASE /\ status = "active" /\ phase = "active" /\ ~Busy /\ UNCHANGED timers
           /\ call' = Call(IF turn.action /\ isActive(Current) THEN "playPlan" ELSE "endTurn")
  <2>1. Begun /\ HeroTurn
    BY <1>1, <1>2, <1>4, <1>6, <1>9, Apartness DEF Waits, RollsInitiative, IsOver, IsDeferred, RollsDeathSave, isActive,
         RollsTrigger, AsksOffer, RollsChecks, AsksWindow, RollsEffects, InFlight, Busy, Inv, Typed, CreaturesTyped
  <2>2. Typed' /\ OrderFits' /\ MoveFits' /\ FoesSettle' /\ TimersFit'
    BY <1>1, <1>3, <1>9 DEF Inv, Typed, TableTyped, CreaturesTyped, TurnTyped, FlightTyped, DiceTyped, TimersTyped,
         DueStays, OrderFits, MoveFits, Current, FoesSettle, Traits, TimersFit, windowOpen, offerOpen
  <2>3. AtRest' /\ Begun'
    BY <1>1, <2>1 DEF HeroTurn, AtRest, Quiet, Begun
  <2>4. InPlace'
    BY <1>9, <2>3 DEF InPlace, Running, Ready, Call, Begun
  <2> QED BY <2>2, <2>4 DEF Inv
<1> QED BY <1>7, <1>8, <1>9 DEF TurnTimerExpired

LEMMA LoadTimerKeeps == ASSUME Inv, NEW t \in timers, LoadTimer(t) PROVE Inv'
<1> USE DEF tableVars, creatureVars, turnVars, flightVars, diceVars, timerVars
<1>1. /\ call = Done /\ due' = [at |-> "loaded", timer |-> t]
      /\ UNCHANGED <<tableVars, creatureVars, turnVars, flightVars, diceVars, timers, call>>
  BY DEF LoadTimer, Free, Idle
<1>2. due' \in Dues
  BY <1>1 DEF Dues, Inv, Typed, TimersTyped
<1>3. Typed' /\ OrderFits' /\ MoveFits' /\ FoesSettle' /\ TimersFit'
  BY <1>1, <1>2 DEF Inv, Typed, TableTyped, CreaturesTyped, TurnTyped, FlightTyped, DiceTyped, TimersTyped,
       OrderFits, MoveFits, Current, FoesSettle, Traits, TimersFit, windowOpen, offerOpen
<1>4. Waits
  BY <1>1 DEF Inv, InPlace, Done
<1>5. Waits'
  BY <1>1, <1>4, WaitsOn
<1> QED BY <1>1, <1>3, <1>5 DEF Inv, InPlace

LEMMA MarkTimerFiredKeeps == ASSUME Inv, MarkTimerFired PROVE Inv'
<1> USE DEF tableVars, creatureVars, turnVars, flightVars, diceVars, timerVars
<1>1. /\ call = Done /\ due' = None /\ timers' = timers \ {due.timer}
      /\ UNCHANGED <<tableVars, creatureVars, turnVars, flightVars, diceVars, call>>
  BY DEF MarkTimerFired, Free, Idle
<1>2. Typed' /\ OrderFits' /\ MoveFits' /\ FoesSettle' /\ TimersFit'
  BY <1>1 DEF Inv, Typed, TableTyped, CreaturesTyped, TurnTyped, FlightTyped, DiceTyped, TimersTyped,
       OrderFits, MoveFits, Current, FoesSettle, Traits, TimersFit, windowOpen, offerOpen
<1>3. Waits
  BY <1>1 DEF Inv, InPlace, Done
<1>4. Waits'
  BY <1>1, <1>3, WaitsOn
<1> QED BY <1>1, <1>2, <1>4 DEF Inv, InPlace

\* On a turn that can be played nothing is waited for but its player.
LEMMA PlayersTurn ==
  ASSUME Inv, mayAct, isActive(Current) \/ <<"deathSave", Current>> \notin pendingRolls
  PROVE  Begun /\ HeroTurn
<1>1. Waits
  BY DEF mayAct, Free, Idle, Inv, InPlace, Done
<1> QED BY <1>1, Apartness DEF mayAct, Free, Idle, Waits, RollsInitiative, IsOver, IsDeferred, RollsDeathSave, isActive,
         RollsTrigger, AsksOffer, RollsChecks, AsksWindow, RollsEffects, InFlight, Busy, Inv, Typed, CreaturesTyped

LEMMA HeroMovesKeeps == ASSUME Inv, HeroMoves PROVE Inv'
<1> USE DEF tableVars, creatureVars, turnVars, flightVars, diceVars, timerVars
<1>1. /\ turn' = [turn EXCEPT !.moved = TRUE] /\ startMove(Current, FALSE)
      /\ UNCHANGED <<tableVars, creatureVars, phase, order, deferred, resolution, triggers, diceVars, timerVars>>
  BY DEF HeroMoves
<1>2. Begun /\ HeroTurn
  BY PlayersTurn DEF HeroMoves, ownTurn
<1>3. turn' \in Turns /\ turn'.index = turn.index /\ turn'.ends = turn.ends
  BY <1>1 DEF Inv, Typed, TurnTyped, Turns
<1>4. Current' = Current /\ Current \in Heroes /\ Current \in Creatures /\ move = None
  BY <1>1, <1>2, <1>3, Apartness DEF Current, HeroTurn, AtRest
<1>5. \/ UNCHANGED move /\ call' = Done
      \/ /\ move' \in Moves /\ move'.mover = Current /\ move'.auto = FALSE /\ ~move'.offer /\ move' # None
         /\ call' = Call("nextOpportunityAttack")
  BY <1>1, <1>4, MoveStarts DEF Inv
<1>6. Typed' /\ OrderFits' /\ MoveFits' /\ FoesSettle'
  BY <1>1, <1>3, <1>4, <1>5 DEF Inv, Typed, TableTyped, CreaturesTyped, TurnTyped, FlightTyped, DiceTyped, TimersTyped,
       OrderFits, MoveFits, FoesSettle, Traits
<1>7. TimersFit'
  BY <1>1, <1>2, <1>3, <1>5 DEF Inv, TimersFit, HeroTurn, AtRest, Quiet, windowOpen, offerOpen
<1>8. Quiet' /\ Begun'
  BY <1>1, <1>2, <1>3 DEF HeroTurn, AtRest, Quiet, Begun
<1>9. CASE UNCHANGED move /\ call' = Done
  <2>1. HeroTurn'
    BY <1>1, <1>2, <1>4, <1>8, <1>9 DEF HeroTurn, AtRest, isActive
  <2> QED BY <1>6, <1>7, <1>8, <1>9, <2>1 DEF Inv, InPlace, Waits
<1>10. CASE ~move'.offer /\ move' # None /\ call' = Call("nextOpportunityAttack")
  <2>1. InPlace'
    BY <1>8, <1>10 DEF InPlace, Running, Ready, MoveWaits, Call, Begun
  <2> QED BY <1>6, <1>7, <2>1 DEF Inv
<1> QED BY <1>5, <1>9, <1>10

LEMMA HeroActsKeeps == ASSUME Inv, HeroActs PROVE Inv'
<1> USE DEF tableVars, creatureVars, turnVars, flightVars, diceVars, timerVars
<1>1. Begun /\ HeroTurn
  BY PlayersTurn DEF HeroActs, ownTurn
<1>2. PICK h \in Heroes : h = Current
  BY <1>1 DEF HeroTurn
<1>3. PICK r \in ChosenActions(h) : call' = declare(r)
  BY <1>2 DEF HeroActs
<1>4. UNCHANGED <<tableVars, creatureVars, turnVars, flightVars, diceVars, timerVars>>
  BY DEF HeroActs
<1>5. Typed' /\ OrderFits' /\ MoveFits' /\ FoesSettle' /\ TimersFit'
  BY <1>4 DEF Inv, Typed, TableTyped, CreaturesTyped, TurnTyped, FlightTyped, DiceTyped, TimersTyped,
       OrderFits, MoveFits, Current, FoesSettle, Traits, TimersFit, windowOpen, offerOpen
<1>6. AtRest /\ Quiet' /\ isActive(h) /\ h \in Creatures /\ phase = "active"
  BY <1>1, <1>2, <1>4, Apartness DEF HeroTurn, AtRest, Quiet, Begun
<1>7. ASSUME NEW k \in {"weapon", "missile", "bless"}, NEW t \in Creatures,
             r = Resolution(h, k, {t}, "action", None),
             k = "weapon" => turn.attacks > 0, k = "bless" => "bless" \in Traits[h]
      PROVE  Declarable(r, spent)
  <2>1. k \in Kinds /\ "action" \in Purposes /\ {t} \in SUBSET Creatures
    BY DEF Kinds, Spells, Purposes
  <2>2. k \in NeedsFocus => "bless" \in Traits[h]
    BY <1>7 DEF NeedsFocus
  <2> QED BY <1>2, <1>6, <1>7, <2>1, <2>2, Declaring DEF AtRest, MoveWaits
<1> DEFINE foes == {f \in Foes : isPresent(f)}
           swings == {Weapon(h, f, "action", None) : f \in IF turn.attacks > 0 THEN foes ELSE {}}
           missiles == {Resolution(h, "missile", {f}, "action", None) :
                          f \in IF turn.action /\ "missile" \in Traits[h] THEN foes ELSE {}}
           blessings == {Resolution(h, "bless", {x}, "action", None) :
                          x \in {y \in {h} : turn.action /\ "bless" \in Traits[h]}}
<1>8. r \in swings \/ r \in missiles \/ r \in blessings
  <2>1. r \in swings \cup missiles \cup blessings
    BY DEF ChosenActions
  <2> HIDE DEF swings, missiles, blessings
  <2> QED BY <2>1
<1>9. Declarable(r, spent)
  <2>1. CASE r \in swings
    BY <1>7, <2>1, Apartness DEF Weapon
  <2>2. CASE r \in missiles
    BY <1>7, <2>2, Apartness
  <2>3. CASE r \in blessings
    BY <1>6, <1>7, <2>3
  <2> HIDE DEF swings, missiles, blessings
  <2> QED BY <1>8, <2>1, <2>2, <2>3
<1>10. InPlace'
  BY <1>1, <1>3, <1>4, <1>6, <1>9, Declared
<1> QED BY <1>5, <1>10 DEF Inv

LEMMA HeroDodgesKeeps == ASSUME Inv, HeroDodges PROVE Inv'
<1> USE DEF tableVars, creatureVars, turnVars, flightVars, diceVars, timerVars
<1>1. /\ turn' = [turn EXCEPT !.action = FALSE, !.attacks = 0] /\ call = Done
      /\ UNCHANGED <<tableVars, creatureVars, phase, order, deferred, flightVars, diceVars, timerVars, call>>
  BY DEF HeroDodges, ownTurn, mayAct, Free, Idle
<1>2. Begun /\ HeroTurn
  BY PlayersTurn DEF HeroDodges, ownTurn
<1>3. turn' \in Turns /\ turn'.index = turn.index /\ turn'.ends = turn.ends
  <2>1. turn \in Turns /\ 0 \in 0 .. 2
    BY DEF Inv, Typed, TurnTyped
  <2> QED BY <1>1, <2>1 DEF Turns
<1>4. Typed' /\ OrderFits' /\ MoveFits' /\ FoesSettle' /\ TimersFit'
  BY <1>1, <1>3 DEF Inv, Typed, TableTyped, CreaturesTyped, TurnTyped, FlightTyped, DiceTyped, TimersTyped,
       OrderFits, MoveFits, Current, FoesSettle, Traits, TimersFit, windowOpen, offerOpen
<1>5. HeroTurn' /\ Begun'
  BY <1>1, <1>2, <1>3 DEF HeroTurn, AtRest, Quiet, isActive, Current, Begun
<1> QED BY <1>1, <1>4, <1>5 DEF Inv, InPlace, Waits

LEMMA HeroEndsTurnKeeps == ASSUME Inv, HeroEndsTurn PROVE Inv'
<1> USE DEF tableVars, creatureVars, turnVars, flightVars, diceVars, timerVars
<1>1. /\ call' = Call("endTurn")
      /\ UNCHANGED <<tableVars, creatureVars, turnVars, flightVars, diceVars, timerVars>>
  BY DEF HeroEndsTurn
<1>2. Begun /\ HeroTurn
  BY PlayersTurn DEF HeroEndsTurn
<1>3. Typed' /\ OrderFits' /\ MoveFits' /\ FoesSettle' /\ TimersFit'
  BY <1>1 DEF Inv, Typed, TableTyped, CreaturesTyped, TurnTyped, FlightTyped, DiceTyped, TimersTyped,
       OrderFits, MoveFits, Current, FoesSettle, Traits, TimersFit, windowOpen, offerOpen
<1>4. AtRest' /\ Begun'
  BY <1>1, <1>2 DEF HeroTurn, AtRest, Quiet, Begun
<1>5. InPlace'
  BY <1>1, <1>4 DEF InPlace, Running, Ready, Call, Begun
<1> QED BY <1>3, <1>5 DEF Inv

-----------------------------------------------------------------------------
(* Members.                                                                *)

\* A player who goes away declines what they are asked.
LEMMA MarkAwayKeeps == ASSUME Inv, NEW h \in Heroes, MarkAway(h) PROVE Inv'
<1> USE DEF tableVars, creatureVars, turnVars, flightVars, diceVars, timerVars
<1>1. /\ call = Done /\ present' = present \ {h} /\ leaving' = h
      /\ UNCHANGED <<fight, astray, status, cond, fails, focus, burning, spent, turnVars, triggers, jobs, due>>
  BY DEF MarkAway, Free, Idle
<1>2. DueStays /\ TableTyped' /\ TurnTyped'
  BY <1>1 DEF DueStays, Inv, Typed, TimersTyped, TableTyped, TurnTyped
<1>3. CASE windowOpen /\ answerWindow(FALSE) /\ UNCHANGED move
  BY <1>1, <1>2, <1>3, AnswerWindowIs DEF Inv, Typed
<1>4. CASE offerOpen /\ answerOpportunityAttack(FALSE) /\ UNCHANGED <<resolution, reaction, pendingRolls>>
  BY <1>1, <1>2, <1>4, AnswerOpportunityAttackIs DEF Inv, Typed
<1>5. CASE /\ ~(windowOpen /\ resolution.window.hero = h) /\ ~(offerOpen /\ Head(move.provokers) = h)
           /\ UNCHANGED <<call, resolution, move, reaction, pendingRolls, timers>>
  <2>1. Typed' /\ OrderFits' /\ MoveFits' /\ FoesSettle' /\ TimersFit'
    BY <1>1, <1>2, <1>5 DEF Inv, Typed, CreaturesTyped, FlightTyped, DiceTyped, TimersTyped,
       OrderFits, MoveFits, Current, FoesSettle, Traits, TimersFit, windowOpen, offerOpen
  <2>2. Waits
    BY <1>1 DEF Inv, InPlace, Done
  <2>3. Current' = Current
    BY <1>1 DEF Current
  <2>4. (RollsInitiative => RollsInitiative') /\ (IsOver => IsOver') /\ (HeroTurn => HeroTurn')
        /\ (RollsDeathSave => RollsDeathSave') /\ (RollsTrigger => RollsTrigger') /\ (IsDeferred => IsDeferred')
    BY <1>1, <1>5, <2>3 DEF RollsInitiative, IsOver, HeroTurn, AtRest, Quiet, isActive, RollsDeathSave,
         RollsTrigger, isPresent, IsDeferred, following, heroesStanding
  <2>5. InFlight => InFlight'
    BY <1>1, <1>5, <2>3 DEF InFlight, Fitting, Resumes, MoveWaits, isActive, Traits
  <2>6. (RollsChecks => RollsChecks') /\ (RollsEffects => RollsEffects')
    BY <1>1, <1>5, <2>5 DEF RollsChecks, RollsEffects, CheckRolls
  <2>7. AsksOffer => AsksOffer'
    BY <1>1, <1>5 DEF AsksOffer, Quiet, offerOpen
  <2>8. AsksWindow => AsksWindow'
    <3>1. AsksWindow => windowOpen
      BY NoneAssumption DEF AsksWindow, InFlight, windowOpen
    <3> QED BY <1>1, <1>5, <2>5, <3>1 DEF AsksWindow, CheckRolls, isActive
  <2>9. Begun => Begun'
    BY <1>1 DEF Begun
  <2>10. Waits'
    BY <2>2, <2>4, <2>6, <2>7, <2>8, <2>9 DEF Waits
  <2> QED BY <1>1, <1>5, <2>1, <2>10 DEF Inv, InPlace
<1> QED BY <1>3, <1>4, <1>5 DEF MarkAway

\* Their dying hero is stable; an empty table waits.
LEMMA FinishAwayKeeps == ASSUME Inv, FinishAway PROVE Inv'
<1> USE DEF tableVars, creatureVars, turnVars, flightVars, diceVars, timerVars
<1>1. /\ call = Done /\ leaving # None /\ leaving' = None
      /\ status' = IF status = "active" /\ present = {} THEN "waiting" ELSE status
      /\ UNCHANGED <<fight, astray, present, reaction, focus, burning, spent, turnVars, flightVars, diceVars, timerVars, call>>
  BY DEF FinishAway
<1>2. leaving \in Heroes /\ leaving \in Creatures /\ leaving \notin Foes
  BY <1>1, Apartness DEF Inv, Typed, TableTyped
<1>3. \/ UNCHANGED <<cond, fails>>
      \/ /\ cond[leaving] = "unconscious" /\ cond' = [cond EXCEPT ![leaving] = "stable"]
         /\ fails' = [fails EXCEPT ![leaving] = 0]
  BY DEF FinishAway
<1>4. \A c \in Creatures : \/ cond'[c] = cond[c]
                           \/ c \in Heroes /\ cond[c] = "unconscious" /\ cond'[c] = "stable"
  BY <1>2, <1>3 DEF Inv, Typed, CreaturesTyped
<1>5. Typed'
  <2>1. CreaturesTyped'
    BY <1>1, <1>2, <1>3 DEF Inv, Typed, CreaturesTyped
  <2> QED BY <1>1, <2>1 DEF Inv, Typed, TableTyped, TurnTyped, FlightTyped, DiceTyped, TimersTyped
<1>6. OrderFits' /\ MoveFits' /\ FoesSettle' /\ TimersFit'
  BY <1>1, <1>4, Apartness DEF Inv, OrderFits, MoveFits, Current, FoesSettle, Traits, TimersFit, windowOpen, offerOpen
<1>7. Waits
  BY <1>1 DEF Inv, InPlace, Done
<1>8. Current' = Current
  BY <1>1 DEF Current
<1>9. \A c \in Creatures : isActive(c) => isActive(c)'
  BY <1>4 DEF isActive
<1>10. (RollsInitiative => RollsInitiative') /\ (IsOver => IsOver') /\ (HeroTurn => HeroTurn')
       /\ (IsDeferred => IsDeferred') /\ (AsksOffer => AsksOffer')
  BY <1>1, <1>8, <1>9, Apartness DEF RollsInitiative, IsOver, HeroTurn, AtRest, Quiet, IsDeferred, following,
       heroesStanding, AsksOffer
<1>11. (RollsDeathSave => RollsDeathSave') /\ (RollsTrigger => RollsTrigger')
  BY <1>1, <1>4, <1>8, Apartness DEF RollsDeathSave, RollsTrigger, isPresent, Inv, Typed, CreaturesTyped
<1>12. InFlight => InFlight'
  <2>1. ASSUME InFlight PROVE Fitting(resolution)'
    <3>1. PICK r : r = resolution
      OBVIOUS
    <3>2. Fitting(r) /\ r \in Resolutions /\ r.actor \in Creatures
      BY <2>1, <3>1 DEF InFlight, Fitting, Resolutions
    <3>3. r.kind = "weapon" /\ r.stage = "checks" => cond'[r.actor] = cond[r.actor]
      BY <1>4, <3>2 DEF Fitting, isActive
    <3>4. Fitting(r)'
      BY <1>1, <3>2, <3>3, FitsOn
    <3> QED BY <1>1, <3>1, <3>4 DEF Fitting
  <2> QED BY <1>1, <2>1 DEF InFlight
<1>13. (RollsChecks => RollsChecks') /\ (RollsEffects => RollsEffects')
  BY <1>1, <1>12 DEF RollsChecks, RollsEffects, CheckRolls
<1>14. AsksWindow => AsksWindow'
  <2>1. \A w \in Windows : isActive(w.hero) => isActive(w.hero)'
    BY <1>9, Apartness DEF Windows
  <2> QED BY <1>1, <1>12, <2>1 DEF AsksWindow, CheckRolls, isActive
<1>15. Begun => Begun'
  BY <1>1 DEF Begun
<1>16. Waits'
  BY <1>7, <1>10, <1>11, <1>13, <1>14, <1>15 DEF Waits
<1> QED BY <1>1, <1>5, <1>6, <1>16 DEF Inv, InPlace

LEMMA MarkReturnedKeeps == ASSUME Inv, NEW h \in Heroes, MarkReturned(h) PROVE Inv'
<1> USE DEF tableVars, creatureVars, turnVars, flightVars, diceVars, timerVars
<1>1. /\ call = Done /\ present' = present \cup {h}
      /\ UNCHANGED <<fight, astray, status, leaving, creatureVars, turnVars, flightVars, diceVars, timerVars, call>>
  BY DEF MarkReturned, Free, Idle
<1>2. Typed' /\ OrderFits' /\ MoveFits' /\ FoesSettle' /\ TimersFit'
  BY <1>1 DEF Inv, Typed, TableTyped, CreaturesTyped, TurnTyped, FlightTyped, DiceTyped, TimersTyped,
       OrderFits, MoveFits, Current, FoesSettle, Traits, TimersFit, windowOpen, offerOpen
<1>3. Waits
  BY <1>1 DEF Inv, InPlace, Done
<1>4. Waits'
  BY <1>1, <1>3, WaitsOn
<1> QED BY <1>1, <1>2, <1>4 DEF Inv, InPlace

LEMMA PauseCampaignKeeps == ASSUME Inv, PauseCampaign PROVE Inv'
<1> USE DEF tableVars, creatureVars, turnVars, flightVars, diceVars, timerVars
<1>1. /\ call = Done /\ status' = "paused" /\ timers' \subseteq timers
      /\ UNCHANGED <<fight, astray, present, leaving, creatureVars, turnVars, flightVars, diceVars, due, call>>
  BY DEF PauseCampaign, Free, Idle
<1>2. Typed' /\ OrderFits' /\ MoveFits' /\ FoesSettle' /\ TimersFit'
  BY <1>1 DEF Inv, Typed, TableTyped, CreaturesTyped, TurnTyped, FlightTyped, DiceTyped, TimersTyped,
       OrderFits, MoveFits, Current, FoesSettle, Traits, TimersFit, windowOpen, offerOpen
<1>3. Waits
  BY <1>1 DEF Inv, InPlace, Done
<1>4. Waits'
  BY <1>1, <1>3, WaitsOn
<1> QED BY <1>1, <1>2, <1>4 DEF Inv, InPlace

\* Everything that is waited for is timed anew, and the turn that was due begins.
LEMMA ContinueCampaignKeeps == ASSUME Inv, NEW h \in Heroes, ContinueCampaign(h) PROVE Inv'
<1> USE DEF tableVars, creatureVars, turnVars, flightVars, diceVars, timerVars
<1>1. /\ call = Done /\ phase # "ended" /\ status' = "active" /\ present' = present \cup {h}
      /\ timers' = timers \cup (IF turn.ends THEN Arm(turnTimer) ELSE {})
                          \cup (IF windowOpen THEN Arm(reactionTimer(resolution.window)) ELSE {})
                          \cup (IF offerOpen THEN Arm(opportunityTimer(Head(move.provokers))) ELSE {})
      /\ call' = IF deferred # None THEN [fn |-> "beginTurn", index |-> deferred] ELSE call
      /\ UNCHANGED <<fight, astray, leaving, creatureVars, turnVars, flightVars, diceVars, due>>
  BY DEF ContinueCampaign, Free, Idle
<1>2. Waits
  BY <1>1 DEF Inv, InPlace, Done
<1>3. (windowOpen => resolution.window \in Windows) /\ (offerOpen => Head(move.provokers) \in Heroes)
  <2>1. windowOpen => resolution.window \in Windows
    BY DEF windowOpen, Inv, Typed, FlightTyped, Resolutions
  <2>2. offerOpen => AsksOffer
    BY <1>2 DEF Waits, RollsInitiative, IsOver, IsDeferred, AtRest, Quiet, HeroTurn, RollsDeathSave,
            RollsTrigger, AsksOffer, RollsChecks, AsksWindow, RollsEffects, InFlight, Fitting, Resumes,
            MoveWaits, offerOpen
  <2> QED BY <2>1, <2>2 DEF AsksOffer, Inv, Typed, TableTyped
<1>4. \A t \in timers' : \/ t \in timers
                         \/ t = turnTimer /\ turn.ends
                         \/ windowOpen /\ t = reactionTimer(resolution.window)
                         \/ offerOpen /\ t = opportunityTimer(Head(move.provokers))
  BY <1>1 DEF Arm
<1>5. TimersTyped'
  BY <1>1, <1>3, <1>4 DEF Inv, Typed, TimersTyped, Timers
<1>6. TimersFit'
  <2>1. \A t \in timers' : /\ t[1] = "reaction" => windowOpen /\ t = reactionTimer(resolution.window)
                           /\ t[1] = "opportunity" => offerOpen /\ t[2] = Head(move.provokers)
    BY <1>4 DEF Inv, TimersFit, turnTimer, reactionTimer, opportunityTimer
  <2>2. ~fight.timed => timers' = {}
    BY <1>1 DEF Inv, TimersFit, Arm
  <2> QED BY <1>1, <2>1, <2>2 DEF Inv, TimersFit, windowOpen, offerOpen
<1>7. Typed' /\ OrderFits' /\ MoveFits' /\ FoesSettle'
  BY <1>1, <1>5 DEF Inv, Typed, TableTyped, CreaturesTyped, TurnTyped, FlightTyped, DiceTyped,
       OrderFits, MoveFits, Current, FoesSettle, Traits
<1>8. CASE deferred # None
  <2>1. IsDeferred
    BY <1>1, <1>2, <1>8 DEF Waits, RollsInitiative, IsOver, Begun
  <2>2. AtRest' /\ following' = deferred /\ heroesStanding' /\ phase' = "active"
    BY <1>1, <2>1 DEF IsDeferred, AtRest, Quiet, following, heroesStanding, isActive
  <2>3. InPlace'
    BY <1>1, <1>8, <2>2 DEF InPlace, Running, Ready
  <2> QED BY <1>6, <1>7, <2>3 DEF Inv
<1>9. CASE deferred = None
  <2>1. ~IsDeferred
    <3>1. phase # "initiative" => following \in Nat
      BY OrderIs DEF following, Inv, Typed, TurnTyped, Turns
    <3> QED BY <1>9, <3>1, NoneAssumption DEF IsDeferred
  <2>2. Waits'
    BY <1>1, <1>2, <2>1, WaitsOn
  <2> QED BY <1>1, <1>6, <1>7, <1>9, <2>2 DEF Inv, InPlace
<1> QED BY <1>8, <1>9

-----------------------------------------------------------------------------
(* The invariant holds at the start and is kept by every step.             *)

LEMMA InitIsInPlace == ASSUME Init PROVE Inv
<1>1. call = Done /\ turn \in Turns /\ turn.index = 0 /\ ~turn.ends
  BY DEF Init, Turns
<1>2. Typed
  <2>1. pendingRolls \subseteq Rolls
    BY DEF Init, Rolls
  <2>2. order = <<>> /\ Len(order) = 0
    BY DEF Init
  <2> QED BY <1>1, <2>1, <2>2 DEF Init, Typed, TableTyped, CreaturesTyped, TurnTyped, FlightTyped, DiceTyped, TimersTyped
<1>3. RollsInitiative
  <2>1. pendingRolls # {}
    <3>1. PICK h : h \in Heroes
      BY CreaturesAssumption
    <3>2. <<"initiative", h>> \in pendingRolls
      BY <3>1 DEF Init, Creatures
    <3> QED BY <3>2
  <2> QED BY <1>1, <2>1 DEF Init, RollsInitiative, isActive
<1>4. OrderFits /\ MoveFits /\ TimersFit /\ FoesSettle
  BY <1>1, Apartness DEF Init, OrderFits, MoveFits, TimersFit, FoesSettle
<1> QED BY <1>1, <1>2, <1>3, <1>4 DEF Inv, InPlace, Waits

LEMMA NothingMovesKeeps == ASSUME Inv, UNCHANGED vars PROVE Inv'
<1> USE DEF vars, tableVars, creatureVars, turnVars, flightVars, diceVars, timerVars
<1>1. Typed' /\ OrderFits' /\ MoveFits' /\ FoesSettle' /\ TimersFit'
  BY DEF Inv, Typed, TableTyped, CreaturesTyped, TurnTyped, FlightTyped, DiceTyped, TimersTyped,
       OrderFits, MoveFits, Current, FoesSettle, Traits, TimersFit, windowOpen, offerOpen
<1>2. Current' = Current /\ following' = following
  BY DEF Current, following
<1>3. \A o : Resumes(o) => Resumes(o)'
  BY <1>2 DEF Resumes, MoveWaits
<1>4. \A r : Fitting(r) => Fitting(r)'
  BY <1>3 DEF Fitting, isActive, Traits
<1>5. InFlight => InFlight'
  BY <1>4 DEF InFlight
<1>6. \A f : Ready(f) => Ready(f)'
  <2>1. ASSUME NEW f, Ready(f) PROVE Ready(f)'
    <3>1. Quiet' = Quiet /\ AtRest' = AtRest /\ NoDice' = NoDice
          /\ MoveWaits("opportunity")' = MoveWaits("opportunity") /\ Checks' = Checks
      BY DEF Quiet, AtRest, NoDice, MoveWaits, Checks
    <3>2. Declarable(f.res, spent) => Declarable(f.res, spent)'
      BY <1>4 DEF Declarable, isActive
    <3>3. isActive(Current)' = isActive(Current)
      BY <1>2 DEF isActive
    <3> QED BY <1>2, <1>3, <1>5, <2>1, <3>1, <3>2, <3>3 DEF Ready, CheckRolls
  <2> QED BY <2>1
<1>7. heroesStanding' = heroesStanding /\ (Begun => Begun')
  BY DEF heroesStanding, isActive, Begun
<1>8. InPlace'
  <2>1. CASE call = Done
    <3>1. Waits
      BY <2>1 DEF Inv, InPlace, Done
    <3>2. Waits'
      BY <3>1, WaitsOn
    <3> QED BY <2>1, <3>2 DEF InPlace
  <2>2. CASE call.fn \notin {"done", "endIfDecided"} /\ Running(call)
    BY <1>6, <1>7, <2>2 DEF InPlace, Running
  <2>3. CASE call.fn = "endIfDecided" /\ Begun /\ ((call.next = Done /\ HeroTurn) \/ Undecided(call.next))
    <3>1. HeroTurn => HeroTurn'
      BY <1>2 DEF HeroTurn, AtRest, Quiet, isActive
    <3>2. Undecided(call.next) => Undecided(call.next)'
      BY <1>6 DEF Undecided
    <3> QED BY <1>7, <2>3, <3>1, <3>2 DEF InPlace
  <2> QED BY <2>1, <2>2, <2>3 DEF Inv, InPlace
<1> QED BY <1>1, <1>8 DEF Inv

LEMMA StepKeeps == ASSUME Inv, Step PROVE Inv'
BY EndIfDecidedKeeps, BeginTurnKeeps, DeferTurnKeeps, ContinueTurnKeeps, PlayPlanKeeps, ContinuePlanKeeps,
   EndTurnKeeps, TakeLegendaryActionKeeps, NextOpportunityAttackKeeps, CompleteMoveKeeps, DeclareResolutionKeeps,
   StartResolutionKeeps, SettleCheckKeeps, ProceedToEffectsKeeps, ApplyEffectsKeeps, LaySpellKeeps,
   FinishResolutionKeeps, OfferDeathBurstKeeps, OfferRetaliationKeeps, AfterResolutionKeeps, FinishAwayKeeps
DEF Step

LEMMA RecordRollKeeps == ASSUME Inv, RecordRoll, ~astray' PROVE Inv'
BY RecordInitiativeKeeps, RecordCheckKeeps, RecordConcentrationKeeps, RecordDeathSaveKeeps, RecordTriggerKeeps,
   RecordEffectKeeps
DEF RecordRoll

LEMMA TimersKeep == ASSUME Inv, LoadDue \/ TimerStep, ~astray, ~astray' PROVE Inv'
BY LoadTimerKeeps, TurnTimerExpiredKeeps, ReactionTimerExpiredKeeps, OpportunityTimerExpiredKeeps, MarkTimerFiredKeeps
DEF LoadDue, TimerStep

LEMMA PlayerKeeps == ASSUME Inv, Player PROVE Inv'
BY AnswerWindowKeeps, AnswerOpportunityAttackKeeps, HeroMovesKeeps, HeroActsKeeps, HeroDodgesKeeps, HeroEndsTurnKeeps,
   MarkAwayKeeps, MarkReturnedKeeps, ContinueCampaignKeeps, PauseCampaignKeeps
DEF Player

\* A decision under way leaves no roll behind.
LEMMA StepsDoNotStray == ASSUME Step PROVE astray' = astray
<1> USE DEF tableVars
<1>1. CASE \/ EndIfDecided \/ BeginTurn \/ DeferTurn \/ ContinueTurn \/ PlayPlan \/ ContinuePlan \/ EndTurn
           \/ TakeLegendaryAction \/ NextOpportunityAttack \/ CompleteMove
  BY <1>1 DEF EndIfDecided, BeginTurn, DeferTurn, ContinueTurn, PlayPlan, ContinuePlan, EndTurn,
       TakeLegendaryAction, NextOpportunityAttack, CompleteMove
<1>2. CASE DeclareResolution \/ StartResolution \/ SettleCheck \/ ProceedToEffects \/ ApplyEffects \/ LaySpell
  BY <1>2 DEF DeclareResolution, StartResolution, SettleCheck, ProceedToEffects, ApplyEffects, LaySpell
<1>3. CASE FinishResolution \/ OfferDeathBurst \/ OfferRetaliation \/ AfterResolution \/ FinishAway
  BY <1>3 DEF FinishResolution, OfferDeathBurst, OfferRetaliation, AfterResolution, FinishAway
<1> QED BY <1>1, <1>2, <1>3 DEF Step

\* No new decision is taken once a roll has been left behind.
LEMMA DecisionsAreFollowed == ASSUME RecordRoll \/ LoadDue \/ TimerStep \/ Player PROVE ~astray
<1>1. CASE RecordRoll
  BY <1>1 DEF RecordRoll, RecordInitiative, RecordCheck, RecordConcentration, RecordDeathSave, RecordTrigger,
       RecordEffect, arrives, Free
<1>2. CASE LoadDue \/ TimerStep
  BY <1>2 DEF LoadDue, LoadTimer, TimerStep, TurnTimerExpired, ReactionTimerExpired, OpportunityTimerExpired,
       MarkTimerFired, dueNow, Free
<1>3. CASE Player
  BY <1>3 DEF Player, AnswerWindow, AnswerOpportunityAttack, HeroMoves, HeroActs, HeroDodges, HeroEndsTurn, ownTurn,
       mayAct, MarkAway, MarkReturned, ContinueCampaign, PauseCampaign, Free
<1> QED BY <1>1, <1>2, <1>3

LEMMA NextKeeps == ASSUME ~astray => Inv, [Next]_vars, ~astray' PROVE Inv'
<1>1. CASE Step
  BY <1>1, StepsDoNotStray, StepKeeps
<1>2. CASE RecordRoll \/ LoadDue \/ TimerStep \/ Player
  BY <1>2, DecisionsAreFollowed, RecordRollKeeps, TimersKeep, PlayerKeeps
<1>3. CASE UNCHANGED vars
  BY <1>3, NothingMovesKeeps DEF vars, tableVars
<1> QED BY <1>1, <1>2, <1>3 DEF Next

\* Every fight stays in place until a roll is left behind.
LEMMA InPlaceAlways == Spec => [](~astray => Inv)
<1>1. Init => (~astray => Inv)
  BY InitIsInPlace
<1>2. (~astray => Inv) /\ [Next]_vars => (~astray => Inv)'
  BY NextKeeps
<1> QED BY <1>1, <1>2, PTL DEF Spec

-----------------------------------------------------------------------------
(* What follows from a fight in its place.                                 *)

\* Between decisions the fight waits.
LEMMA IdleWaits == ASSUME Inv, Idle PROVE Waits
BY DEF Inv, InPlace, Idle, Done

LEMMA TypesAreOK == ASSUME Inv PROVE TypeOK
<1>1. turn \in [index : 0 .. Len(order), ends : BOOLEAN, action : BOOLEAN, attacks : 0 .. 2,
                moved : BOOLEAN, legendary : SUBSET Foes]
  BY DEF Inv, Typed, TurnTyped, Turns
<1> QED BY <1>1 DEF Inv, Typed, TableTyped, CreaturesTyped, TurnTyped, FlightTyped, DiceTyped, TimersTyped, TypeOK

\* Each roll on its way finds the fight waiting for it.
RollFits(j) ==
    /\ j[1] = "check" => resolution # None /\ resolution.stage = "checks" /\ j[2] \in resolution.targets
    /\ j[1] = "effect" => resolution # None /\ resolution.stage = "effects"
    /\ j[1] = "concentration" => resolution # None /\ resolution.stage = "effects"
    /\ j[1] = "trigger" => triggers = j[2] /\ j[2] \in burning
    /\ j[1] = "deathSave" => ~Busy /\ Current = j[2]
\* The checks held back while a spell may be countered.
HeldBack == IF windowOpen /\ resolution.window.kind = "spell" THEN Checks ELSE {}

LEMMA WaitsInOrder ==
  ASSUME Waits
  PROVE  jobs = pendingRolls \ HeldBack /\ \A j \in jobs : RollFits(j)
<1>1. CASE RollsInitiative
  BY <1>1 DEF RollsInitiative, HeldBack, windowOpen, RollFits
<1>2. CASE AtRest
  BY <1>2 DEF AtRest, Quiet, HeldBack, windowOpen
<1>3. CASE RollsDeathSave
  BY <1>3 DEF RollsDeathSave, HeldBack, windowOpen, RollFits, Busy
<1>4. CASE RollsTrigger
  BY <1>4 DEF RollsTrigger, HeldBack, windowOpen, RollFits
<1>5. CASE AsksOffer
  BY <1>5 DEF AsksOffer, Quiet, HeldBack, windowOpen
<1>6. CASE RollsChecks
  BY <1>6 DEF RollsChecks, InFlight, CheckRolls, HeldBack, windowOpen, RollFits
<1>7. CASE RollsEffects
  BY <1>7 DEF RollsEffects, InFlight, ConcentrationRolls, HeldBack, windowOpen, RollFits
<1>8. CASE AsksWindow
  <2>1. windowOpen
    BY <1>8, NoneAssumption DEF AsksWindow, InFlight, windowOpen
  <2>2. jobs = {}
    BY <1>8 DEF AsksWindow
  <2>3. CASE resolution.window.kind = "spell"
    <3>1. pendingRolls \subseteq CheckRolls(resolution)
      BY <1>8, <2>3 DEF AsksWindow
    <3>2. pendingRolls = Checks
      BY <3>1 DEF CheckRolls, Checks
    <3> QED BY <2>1, <2>2, <2>3, <3>2 DEF HeldBack
  <2>4. CASE resolution.window.kind # "spell"
    BY <1>8, <2>2, <2>4 DEF AsksWindow, HeldBack
  <2> QED BY <2>3, <2>4
<1> QED BY <1>1, <1>2, <1>3, <1>4, <1>5, <1>6, <1>7, <1>8 DEF Waits, IsOver, IsDeferred, HeroTurn

LEMMA DiceAreInOrder == ASSUME Inv PROVE DiceInOrder
BY IdleWaits, WaitsInOrder DEF DiceInOrder, HeldBack, RollFits

\* A question asked of a player is one of the waits.
LEMMA AskedIs ==
  ASSUME Inv, windowOpen
  PROVE  AsksWindow
<1>1. call = Done
  BY NothingAsked DEF Inv, InPlace
<1>2. Waits
  BY <1>1 DEF Inv, InPlace, Done
<1> QED BY <1>2 DEF windowOpen, Waits, RollsInitiative, IsOver, IsDeferred, HeroTurn, AtRest, Quiet, RollsDeathSave,
         RollsTrigger, AsksOffer, RollsChecks, RollsEffects

LEMMA RestInOrder ==
  ASSUME Inv PROVE TimersHaveAReason /\ WindowsCanBeUsed /\ ActorsAreAble /\ OneThingAtATime
<1>1. TimersHaveAReason
  BY DEF TimersHaveAReason, Inv, TimersFit
<1>2. WindowsCanBeUsed
  BY AskedIs DEF AsksWindow, WindowsCanBeUsed
<1>3. ASSUME call.fn \in {"declareResolution", "beginTurn"}
      PROVE  Ready(call)
  BY <1>3 DEF Inv, InPlace, Done, Running
<1>4. ASSUME call.fn = "declareResolution"
      PROVE  Quiet /\ Declarable(call.res, spent)
  BY <1>3, <1>4 DEF Ready
<1>5. ActorsAreAble
  BY <1>4 DEF ActorsAreAble, Declarable
<1>6. ASSUME call.fn = "declareResolution", move # None
      PROVE  call.res.purpose \in {"opportunity", "reaction"}
  <2>1. PICK r : r = call.res
    OBVIOUS
  <2>2. r \in Resolutions /\ Resumes(resumesAs(r)) /\ (r.purpose # "reaction" => r.resumes = None)
    BY <1>4, <1>6, <2>1 DEF Declarable, Fitting
  <2>3. r.purpose # "reaction" => resumesAs(r).purpose = r.purpose
    BY <2>2 DEF resumesAs, Outline
  <2>4. resumesAs(r).purpose = "opportunity"
    BY <1>6, <2>2 DEF Resumes, MoveWaits
  <2> QED BY <2>1, <2>2, <2>3, <2>4
<1>7. call.fn = "beginTurn" => ~Busy /\ pendingRolls = {}
  BY <1>3 DEF Ready, AtRest, Quiet, Busy
<1>8. OneThingAtATime
  BY <1>4, <1>6, <1>7 DEF OneThingAtATime, Quiet
<1> QED BY <1>1, <1>2, <1>5, <1>8

LEMMA WaitsStallNothing == ASSUME ~astray => Inv PROVE NeverStalls
<1> SUFFICES ASSUME Inv, Idle, phase = "active", jobs = {}
    PROVE  \/ windowOpen /\ resolution.window.hero \in present
           \/ offerOpen /\ Head(move.provokers) \in present
           \/ ~Busy /\ (IF deferred = None THEN Current \in Heroes /\ isActive(Current) ELSE status # "active")
  BY DEF NeverStalls, Free
<1>1. Waits
  BY IdleWaits
<1>2. CASE IsDeferred
  <2>1. deferred # None
    BY <1>2, OrderIs, NoneAssumption DEF IsDeferred, following, Inv, Typed, TurnTyped, Turns
  <2> QED BY <1>2, <2>1 DEF IsDeferred, AtRest, Quiet, Busy
<1>3. CASE Begun /\ HeroTurn
  BY <1>3 DEF Begun, HeroTurn, AtRest, Quiet, Busy
<1>4. CASE AsksOffer
  BY <1>4 DEF AsksOffer, offerOpen
<1>5. CASE AsksWindow
  BY <1>5, NoneAssumption DEF AsksWindow, InFlight, windowOpen
<1> QED BY <1>1, <1>2, <1>3, <1>4, <1>5 DEF Waits, RollsInitiative, IsOver, RollsDeathSave, RollsTrigger, RollsChecks,
         RollsEffects

LEMMA DiceAreIn == ASSUME ~astray => Inv PROVE DiceBeforeDamage
BY DEF Inv, InPlace, Done, Running, Ready, NoDice, DiceBeforeDamage

-----------------------------------------------------------------------------
\* FightInOrder: in every fight, timed or not and whatever its creatures can
\* do, each roll, timer and question belongs to what is in flight, and one
\* thing is in flight, whatever the order of dice, clicks, timers, joins and
\* departures (the chain of combat-flow.ts), until a roll is left behind.
THEOREM FightStaysInOrder == Spec => []FightInOrder
<1>1. (~astray => Inv) => FightInOrder
  BY TypesAreOK, DiceAreInOrder, RestInOrder DEF FightInOrder
<1> QED BY <1>1, InPlaceAlways, PTL

\* NeverStalls: in every fight, until a roll is left behind, a fight that
\* waits for no roll has asked a player at the table, or it is a standing
\* hero's turn, or the table is stopped.
THEOREM FightNeverStalls == Spec => []NeverStalls
BY WaitsStallNothing, InPlaceAlways, PTL

\* DiceBeforeDamage: in every fight, until a roll is left behind, applyEffects
\* runs with every check and effect roll in and no window open.
THEOREM DamageWaitsForDice == Spec => []DiceBeforeDamage
BY DiceAreIn, InPlaceAlways, PTL

-----------------------------------------------------------------------------
(* Who is in the fight, and whose turn it is.                              *)

CondTyped == cond \in [Creatures -> {"active", "unconscious", "stable", "dead", "fled"}]

\* What a step may do to the condition of c: who is gone stays gone, and
\* a hero whose player is away dies of a death save alone.
Spares(c) ==
    cond[c] # "dead" /\ cond'[c] = "dead" /\ c \in Heroes \ present => <<"deathSave", c>> \in jobs \ jobs'
StaysOut(c) == ~isPresent(c) => cond'[c] \in {"dead", "fled"}

LEMMA HurtSpares ==
  ASSUME CondTyped, NEW S, NEW nonlethal \in BOOLEAN,
         NEW b \in AllBlows(S, nonlethal), NEW P, NEW J, applyDamage(b, P, J)
  PROVE  CondTyped' /\ (\A c \in Creatures : Spares(c)) /\ (\A c \in Creatures \ S : cond'[c] = cond[c])
<1>1. DOMAIN b = S
  BY DEF AllBlows
<1>2. cond' = [c \in Creatures |-> IF c \in S THEN condAfter(c, b[c]) ELSE cond[c]]
  BY <1>1 DEF applyDamage
<1>3. ASSUME NEW c \in S \cap Creatures
      PROVE  /\ condAfter(c, b[c]) \in {"active", "unconscious", "stable", "dead", "fled"}
             /\ isProtected(c) /\ cond[c] # "dead" => condAfter(c, b[c]) # "dead"
  <2>1. cond[c] \in {"active", "unconscious", "stable", "dead", "fled"}
    BY DEF CondTyped
  <2> QED BY <2>1 DEF condAfter
<1>4. CondTyped'
  BY <1>2, <1>3 DEF CondTyped
<1>5. ASSUME NEW c \in Creatures PROVE Spares(c)
  BY <1>2, <1>3 DEF Spares, isProtected
<1> QED BY <1>2, <1>4, <1>5

LEMMA ContinueTurnSpares ==
  ASSUME CondTyped, ContinueTurn
  PROVE  CondTyped' /\ \A c \in Creatures : Spares(c) /\ StaysOut(c)
<1>1. \/ UNCHANGED cond
      \/ isPresent(Current) /\ cond' = [cond EXCEPT ![Current] = "fled"]
      \/ isPresent(Current) /\ cond' = [cond EXCEPT ![Current] = "stable"]
  BY DEF ContinueTurn, Flees, isPresent
<1> QED BY <1>1 DEF CondTyped, Spares, StaysOut, isPresent

LEMMA FinishAwaySpares ==
  ASSUME CondTyped, FinishAway
  PROVE  CondTyped' /\ \A c \in Creatures : Spares(c) /\ StaysOut(c)
<1>1. \/ UNCHANGED cond
      \/ cond[leaving] = "unconscious" /\ cond' = [cond EXCEPT ![leaving] = "stable"]
  BY DEF FinishAway
<1> QED BY <1>1 DEF CondTyped, Spares, StaysOut, isPresent

LEMMA ApplyEffectsSpares ==
  ASSUME CondTyped, ApplyEffects
  PROVE  CondTyped' /\ \A c \in Creatures : Spares(c) /\ StaysOut(c)
<1> DEFINE S == {c \in Damaged(resolution) : isPresent(c)}
<1>1. PICK nonlethal \in BOOLEAN : \E b \in AllBlows(S, nonlethal) : applyDamage(b, pendingRolls, jobs)
  BY DEF ApplyEffects
<1>2. CondTyped' /\ (\A c \in Creatures : Spares(c)) /\ (\A c \in Creatures \ S : cond'[c] = cond[c])
  <2> HIDE DEF S
  <2> QED BY <1>1, HurtSpares
<1>3. ASSUME NEW c \in Creatures, ~isPresent(c) PROVE cond'[c] = cond[c]
  BY <1>2, <1>3
<1> QED BY <1>2, <1>3 DEF StaysOut, isPresent

LEMMA RecordTriggerSpares ==
  ASSUME CondTyped, NEW h \in Heroes, RecordTrigger(h)
  PROVE  CondTyped' /\ (\A c \in Creatures : Spares(c)) /\ (\A c \in Creatures \ {h} : cond'[c] = cond[c])
<1>1. PICK b \in AllBlows({h}, FALSE) :
          applyDamage(b, pendingRolls \ {<<"trigger", h>>}, jobs \ {<<"trigger", h>>})
  BY DEF RecordTrigger
<1> QED BY <1>1, HurtSpares

LEMMA RecordDeathSaveSpares ==
  ASSUME CondTyped, NEW h \in Heroes, RecordDeathSave(h)
  PROVE  CondTyped' /\ (\A c \in Creatures : Spares(c)) /\ (\A c \in Creatures \ {h} : cond'[c] = cond[c])
<1>1. \E c \in {"active", "unconscious", "stable", "dead"} : cond' = [cond EXCEPT ![h] = c]
  BY DEF RecordDeathSave
<1>2. <<"deathSave", h>> \in jobs \ jobs'
  BY DEF RecordDeathSave, arrives
<1> QED BY <1>1, <1>2 DEF CondTyped, Spares

\* Nothing else touches a condition.
Hurts == \/ ContinueTurn \/ FinishAway \/ ApplyEffects
         \/ \E h \in Heroes : RecordTrigger(h) \/ RecordDeathSave(h)

LEMMA StepsHurt == ASSUME Step, ~(ContinueTurn \/ FinishAway \/ ApplyEffects) PROVE UNCHANGED cond
<1> USE DEF creatureVars
<1>1. CASE EndIfDecided \/ BeginTurn \/ DeferTurn \/ PlayPlan \/ ContinuePlan \/ EndTurn \/ TakeLegendaryAction
  BY <1>1 DEF EndIfDecided, BeginTurn, DeferTurn, PlayPlan, ContinuePlan, EndTurn, TakeLegendaryAction
<1>2. CASE \/ NextOpportunityAttack \/ CompleteMove \/ DeclareResolution \/ StartResolution \/ SettleCheck
           \/ ProceedToEffects
  BY <1>2 DEF NextOpportunityAttack, CompleteMove, DeclareResolution, StartResolution, SettleCheck, ProceedToEffects
<1>3. CASE LaySpell \/ FinishResolution \/ OfferDeathBurst \/ OfferRetaliation \/ AfterResolution
  BY <1>3 DEF LaySpell, FinishResolution, OfferDeathBurst, OfferRetaliation, AfterResolution
<1> QED BY <1>1, <1>2, <1>3 DEF Step

LEMMA OthersSpare == ASSUME [Next]_vars, ~Hurts PROVE UNCHANGED cond
<1> USE DEF vars, tableVars, creatureVars, turnVars, flightVars, diceVars, timerVars
<1>1. CASE Step
  BY <1>1, StepsHurt DEF Hurts
<1>2. CASE RecordRoll
  <2>1. ASSUME NEW c \in Creatures, RecordInitiative(c) \/ RecordCheck(c) \/ RecordConcentration(c)
        PROVE  UNCHANGED cond
    BY <2>1 DEF RecordInitiative, RecordCheck, RecordConcentration
  <2> QED BY <1>2, <2>1 DEF RecordRoll, RecordEffect, Hurts
<1>3. CASE LoadDue \/ TimerStep
  BY <1>3 DEF LoadDue, LoadTimer, TimerStep, TurnTimerExpired, ReactionTimerExpired, OpportunityTimerExpired,
              MarkTimerFired
<1>4. CASE Player
  <2>1. ASSUME NEW take \in BOOLEAN, AnswerWindow(take) \/ AnswerOpportunityAttack(take) PROVE UNCHANGED cond
    BY <2>1 DEF AnswerWindow, AnswerOpportunityAttack
  <2>2. ASSUME NEW h \in Heroes, MarkAway(h) \/ MarkReturned(h) \/ ContinueCampaign(h) PROVE UNCHANGED cond
    BY <2>2 DEF MarkAway, MarkReturned, ContinueCampaign
  <2> QED BY <1>4, <2>1, <2>2 DEF Player, HeroMoves, HeroActs, HeroDodges, HeroEndsTurn, PauseCampaign
<1> QED BY <1>1, <1>2, <1>3, <1>4 DEF Next

\* AwayHeroesAreSafe: a hero whose player is away does not die, unless of a
\* death save already on its way (the protection of applyDamage and markAway).
THEOREM AwayHeroesStaySafe == Spec => AwayHeroesAreSafe
<1>1. Init => CondTyped
  BY DEF Init, CondTyped
<1>2. CondTyped /\ [Next]_vars => CondTyped' /\ \A c \in Creatures : Spares(c)
  <2> SUFFICES ASSUME CondTyped, [Next]_vars PROVE CondTyped' /\ \A c \in Creatures : Spares(c)
    OBVIOUS
  <2>1. CASE Hurts
    BY <2>1, ContinueTurnSpares, FinishAwaySpares, ApplyEffectsSpares, RecordTriggerSpares, RecordDeathSaveSpares
    DEF Hurts
  <2>2. CASE ~Hurts
    BY <2>2, OthersSpare DEF CondTyped, Spares
  <2> QED BY <2>1, <2>2
<1> DEFINE Safe == \A h \in Heroes \ present :
                      cond[h] # "dead" /\ cond'[h] = "dead" => <<"deathSave", h>> \in jobs \ jobs'
<1>3. CondTyped /\ [Next]_vars => [Safe]_vars
  BY <1>2, Apartness DEF Spares
<1>4. Spec => [][Safe]_vars
  BY <1>1, <1>2, <1>3, PTL DEF Spec
<1> QED BY <1>4 DEF AwayHeroesAreSafe

-----------------------------------------------------------------------------
(* A fight implements TurnOrder.                                           *)

\* Nobody but the next turn moves the index; the dice make the order once.
LEMMA StepsKeepTurns ==
  ASSUME "index" \in DOMAIN turn, Step, ~BeginTurn
  PROVE  order' = order /\ turn'.index = turn.index
<1> USE DEF turnVars
<1>1. CASE EndIfDecided \/ DeferTurn \/ ContinueTurn \/ PlayPlan \/ ContinuePlan \/ EndTurn
  BY <1>1 DEF EndIfDecided, DeferTurn, ContinueTurn, PlayPlan, ContinuePlan, EndTurn
<1>2. CASE TakeLegendaryAction \/ DeclareResolution
  BY <1>2 DEF TakeLegendaryAction, DeclareResolution
<1>3. CASE \/ NextOpportunityAttack \/ CompleteMove \/ StartResolution \/ SettleCheck
           \/ ProceedToEffects
  BY <1>3 DEF NextOpportunityAttack, CompleteMove, StartResolution, SettleCheck, ProceedToEffects
<1>4. CASE ApplyEffects \/ LaySpell \/ FinishResolution \/ OfferDeathBurst \/ OfferRetaliation \/ AfterResolution
           \/ FinishAway
  BY <1>4 DEF ApplyEffects, LaySpell, FinishResolution, OfferDeathBurst, OfferRetaliation, AfterResolution, FinishAway
<1> QED BY <1>1, <1>2, <1>3, <1>4 DEF Step

LEMMA OthersKeepTurns ==
  ASSUME "index" \in DOMAIN turn, [Next]_vars, ~BeginTurn, ~ \E c \in Creatures : RecordInitiative(c)
  PROVE  order' = order /\ turn'.index = turn.index
<1> USE DEF vars, tableVars, creatureVars, turnVars, flightVars, diceVars, timerVars
<1>1. CASE Step
  BY <1>1, StepsKeepTurns
<1>2. CASE RecordRoll
  <2>1. ASSUME NEW c \in Creatures, RecordCheck(c) \/ RecordConcentration(c)
        PROVE  order' = order /\ turn'.index = turn.index
    BY <2>1 DEF RecordCheck, RecordConcentration
  <2>2. ASSUME NEW h \in Heroes, RecordDeathSave(h) \/ RecordTrigger(h)
        PROVE  order' = order /\ turn'.index = turn.index
    BY <2>2 DEF RecordDeathSave, RecordTrigger
  <2> QED BY <1>2, <2>1, <2>2 DEF RecordRoll, RecordEffect
<1>3. CASE LoadDue \/ TimerStep
  BY <1>3 DEF LoadDue, LoadTimer, TimerStep, TurnTimerExpired, ReactionTimerExpired, OpportunityTimerExpired,
              MarkTimerFired
<1>4. CASE Player
  <2>1. ASSUME NEW take \in BOOLEAN, AnswerWindow(take) \/ AnswerOpportunityAttack(take)
        PROVE  order' = order /\ turn'.index = turn.index
    BY <2>1 DEF AnswerWindow, AnswerOpportunityAttack
  <2>2. ASSUME NEW h \in Heroes, MarkAway(h) \/ MarkReturned(h) \/ ContinueCampaign(h)
        PROVE  order' = order /\ turn'.index = turn.index
    BY <2>2 DEF MarkAway, MarkReturned, ContinueCampaign
  <2>3. CASE HeroMoves \/ HeroDodges
    BY <2>3 DEF HeroMoves, HeroDodges
  <2> QED BY <1>4, <2>1, <2>2, <2>3 DEF Player, HeroActs, HeroEndsTurn, PauseCampaign
<1> QED BY <1>1, <1>2, <1>3, <1>4 DEF Next

\* Who is dead or has fled does not come back.
LEMMA NobodyComesBack == ASSUME Inv, [Next]_vars PROVE \A c \in Creatures : StaysOut(c)
<1>1. CondTyped
  BY DEF Inv, Typed, CreaturesTyped, CondTyped
<1>2. CASE ~Hurts
  BY <1>1, <1>2, OthersSpare DEF CondTyped, StaysOut, isPresent
<1>3. CASE ContinueTurn \/ FinishAway \/ ApplyEffects
  BY <1>1, <1>3, ContinueTurnSpares, FinishAwaySpares, ApplyEffectsSpares
<1>4. ASSUME NEW h \in Heroes, RecordTrigger(h) PROVE \A c \in Creatures : StaysOut(c)
  <2>1. Waits /\ <<"trigger", h>> \in pendingRolls
    BY <1>4, IdleWaits DEF RecordTrigger, arrives, Free
  <2>2. isPresent(h)
    BY <2>1 DEF Waits, RollsInitiative, IsOver, IsDeferred, AtRest, Quiet, HeroTurn, RollsDeathSave,
            RollsTrigger, AsksOffer, RollsChecks, CheckRolls, AsksWindow, RollsEffects, ConcentrationRolls
  <2> QED BY <1>1, <1>4, <2>2, RecordTriggerSpares DEF StaysOut, isPresent
<1>5. ASSUME NEW h \in Heroes, RecordDeathSave(h) PROVE \A c \in Creatures : StaysOut(c)
  <2>1. Waits /\ <<"deathSave", h>> \in pendingRolls
    BY <1>5, IdleWaits DEF RecordDeathSave, arrives, Free
  <2>2. isPresent(h)
    BY <2>1 DEF Waits, RollsInitiative, IsOver, IsDeferred, AtRest, Quiet, HeroTurn, RollsDeathSave,
            RollsTrigger, AsksOffer, RollsChecks, CheckRolls, AsksWindow, RollsEffects, ConcentrationRolls, isPresent
  <2> QED BY <1>1, <1>5, <2>2, RecordDeathSaveSpares DEF StaysOut, isPresent
<1> QED BY <1>2, <1>3, <1>4, <1>5 DEF Hurts

Out == {c \in Creatures : ~isPresent(c)}

\* Steps that move neither the order nor the turn.
LEMMA LeaveOrStay ==
  ASSUME Inv, [Next]_vars, ~BeginTurn, ~ \E c \in Creatures : RecordInitiative(c)
  PROVE  Order!Leave
<1>1. Out \subseteq Out' /\ Out' \subseteq Creatures
  BY NobodyComesBack DEF Out, StaysOut, isPresent
<1>2. "index" \in DOMAIN turn
  BY DEF Inv, Typed, TurnTyped, Turns
<1> QED BY <1>1, <1>2, OthersKeepTurns DEF Order!Leave, Out

\* The last initiative die makes the order.
LEMMA OrderIsSet ==
  ASSUME Inv, NEW c \in Creatures, RecordInitiative(c)
  PROVE  Order!SetOrder \/ UNCHANGED Order!vars
<1>1. Out' = Out /\ turn' = turn /\ (UNCHANGED order \/ order' = fight.order)
  BY DEF RecordInitiative, creatureVars, Out, isPresent
<1>2. CASE UNCHANGED order
  BY <1>1, <1>2 DEF Order!vars, Out
<1>3. CASE order' = fight.order
  <2>1. Waits /\ <<"initiative", c>> \in pendingRolls
    BY IdleWaits DEF RecordInitiative, arrives, Free
  <2>2. phase = "initiative"
    BY <2>1 DEF Waits, RollsInitiative, IsOver, IsDeferred, AtRest, Quiet, HeroTurn, RollsDeathSave,
            RollsTrigger, AsksOffer, RollsChecks, CheckRolls, AsksWindow, RollsEffects, ConcentrationRolls
  <2>3. order = <<>> /\ fight \in Fights
    BY <2>2 DEF Inv, OrderFits
  <2>4. Cardinality(Creatures) \in Nat
    BY CreaturesAssumption, FS_CardinalityType
  <2>5. fight.order \in Seq(Creatures) /\ {fight.order[i] : i \in DOMAIN fight.order} = Creatures
    BY <2>3, <2>4, CreaturesAssumption
  <2> QED BY <1>1, <1>3, <2>3, <2>5 DEF Order!SetOrder, Out
<1> QED BY <1>1, <1>2, <1>3

\* The next turn is that of the next creature in the order still in the fight.
LEMMA TurnAdvances ==
  ASSUME OrderFits, phase # "initiative", turn.index \in 0 .. Len(order),
         call.index = following, heroesStanding, BeginTurn
  PROVE  Order!Advance
<1>1. /\ turn'.index = nextPresent(call.index)
      /\ UNCHANGED <<order, cond>>
  BY DEF BeginTurn
<1>2. call.index = following /\ heroesStanding
  OBVIOUS
<1>3. order \in Seq(Creatures) /\ Len(order) \in Nat \ {0} /\ turn.index \in 0 .. Len(order)
      /\ \A c \in Creatures : \E i \in 1 .. Len(order) : order[i] = c
  BY OrderIs
<1> DEFINE n == Len(order)
           at(k) == ((following + k - 1) % n) + 1
<1>4. following \in 1 .. n
  BY <1>3 DEF following
<1>5. \E j \in 1 .. n : isPresent(order[j])
  BY <1>2, <1>3, Apartness DEF heroesStanding, isActive, isPresent
<1>6. PICK k \in 0 .. n - 1 :
         /\ nextPresent(following) = at(k) /\ nextPresent(following) \in 1 .. n
         /\ isPresent(order[nextPresent(following)])
         /\ \A m \in 0 .. k - 1 : ~isPresent(order[at(m)])
  BY <1>3, <1>4, <1>5, NextPresentIs
<1>7. \A m \in 0 .. n - 1 : at(m) = ((turn.index + m) % n) + 1 /\ at(m) \in 1 .. n
  <2>1. TAKE m \in 0 .. n - 1
  <2>2. PICK l \in Nat : l = n /\ l # 0
    BY <1>3
  <2>3. PICK i \in 0 .. l : i = turn.index
    BY <1>3, <2>2
  <2>4. i % l = IF i < l THEN i ELSE 0
    BY <2>2, <2>3, Wrap
  <2>5. (i % l) + m = IF i < l THEN i + m ELSE m
    BY <2>4
  <2>6. ((i % l) + m) % l = (i + m) % l
    <3>1. CASE i < l
      BY <2>5, <3>1
    <3>2. CASE i = l
      <4>1. m \in Nat /\ m < l
        BY <2>2
      <4>2. PICK a \in Nat : a = l + m /\ a < 2 * l
        BY <2>2, <4>1
      <4>3. m % l = m
        BY <2>2, <4>1
      <4>4. a % l = IF a < l THEN a ELSE a - l
        BY <2>2, <4>2, Wrap
      <4>5. a % l = m
        BY <2>2, <4>1, <4>2, <4>4
      <4> QED BY <2>5, <3>2, <4>2, <4>3, <4>5
    <3> QED BY <3>1, <3>2
  <2>7. following = (i % l) + 1 /\ following + m - 1 = (i % l) + m
    BY <2>2, <2>3, <2>4, SMTT(60) DEF following
  <2>8. (i + m) % l \in 0 .. l - 1
    BY <2>2
  <2>9. ((following + m - 1) % l) + 1 = ((i + m) % l) + 1
    BY <2>6, <2>7
  <2> QED BY <2>2, <2>3, <2>8, <2>9
<1>8. \A j \in 1 .. n : order[j] \in Creatures
  BY <1>3
<1>9. /\ turn'.index = Order!place(turn.index, k) /\ order[turn'.index] \notin Out
      /\ \A m \in 0 .. k - 1 : order[Order!place(turn.index, m)] \in Out
  <2>1. \A m \in 0 .. n - 1 : at(m) = Order!place(turn.index, m) /\ order[at(m)] \in Creatures
    BY <1>7, <1>8 DEF Order!place
  <2>2. 0 .. k - 1 \subseteq 0 .. n - 1 /\ k \in 0 .. n - 1
    BY <1>3, <1>6
  <2> HIDE DEF at
  <2> QED BY <1>1, <1>2, <1>6, <2>1, <2>2 DEF Out
<1>10. Out' = Out
  BY <1>1 DEF Out, isPresent
<1> QED BY <1>1, <1>6, <1>9, <1>10 DEF Order!Advance, Out

\* Until a roll is left behind, every step is one of the order's.
LEMMA InPlaceInOrder ==
  ASSUME Inv, [Next]_vars
  PROVE  [Order!Next]_(Order!vars)
<1>1. CASE BeginTurn
  <2>1. phase = "active" /\ call.index = following /\ heroesStanding
    BY <1>1 DEF BeginTurn, Inv, InPlace, Done, Running, Ready
  <2>2. turn.index \in 0 .. Len(order) /\ OrderFits
    BY DEF Inv, Typed, TurnTyped
  <2> QED BY <1>1, <2>1, <2>2, TurnAdvances DEF Order!Next
<1> QED BY <1>1, LeaveOrStay, OrderIsSet DEF Order!Next

-----------------------------------------------------------------------------
(* The end of a decision that leaves a roll behind.                        *)

\* What may run if the fight is not over.
Goes(c) ==
    /\ "fn" \in DOMAIN c
    /\ c.fn \in {"done", "continueTurn", "playPlan", "endTurn", "takeLegendaryAction", "afterResolution"}
\* A turn begins after the one before it, and while somebody stands.
Leads(c, standing, next) ==
    /\ "fn" \in DOMAIN c
    /\ c.fn = "endIfDecided" => Goes(c.next)
    /\ c.fn \in {"beginTurn", "takeLegendaryAction", "afterResolution"} => standing
    /\ c.fn = "beginTurn" => c.index = next
Winds ==
    /\ CondTyped /\ OrderFits /\ phase # "initiative"
    /\ "index" \in DOMAIN turn /\ turn.index \in 0 .. Len(order)
    /\ Leads(call, heroesStanding, following)

\* A step that declares an action, or runs what no turn depends on.
Passing(c) ==
    /\ "fn" \in DOMAIN c
    /\ c.fn \notin {"endIfDecided", "beginTurn", "takeLegendaryAction", "afterResolution"}

LEMMA CallsPass ==
  /\ Passing(Done) /\ \A r : Passing(declare(r))
  /\ \A f \in {"continueTurn", "playPlan", "endTurn", "nextOpportunityAttack", "completeMove", "startResolution",
               "proceedToEffects", "applyEffects", "finishResolution"} : Passing(Call(f))
BY DEF Passing, Done, declare, Call

LEMMA StepsLead ==
  ASSUME Winds, Step
  PROVE  Leads(call, heroesStanding, following)'
<1> USE DEF tableVars, creatureVars, turnVars, flightVars, diceVars, timerVars
<1>1. ASSUME Passing(call') PROVE Leads(call, heroesStanding, following)'
  BY <1>1 DEF Passing, Leads
<1>2. "fn" \in DOMAIN call /\ Leads(call, heroesStanding, following)
  BY DEF Winds, Leads
<1>3. ASSUME UNCHANGED cond PROVE heroesStanding' = heroesStanding
  BY <1>3 DEF heroesStanding, isActive
<1>4. ASSUME NEW f \in {"endTurn", "takeLegendaryAction"}, call' = unlessDecided(Call(f))
      PROVE  Leads(call, heroesStanding, following)'
  BY <1>4 DEF Leads, Goes, unlessDecided, Call
<1>5. CASE EndIfDecided
  <2>1. CASE call' = Done
    BY <1>1, <2>1, CallsPass
  <2>2. CASE foesLeft /\ heroesStanding /\ call' = call.next /\ UNCHANGED cond
    BY <1>2, <1>3, <1>5, <2>2 DEF EndIfDecided, Leads, Goes
  <2> QED BY <1>5, <2>1, <2>2 DEF EndIfDecided
<1>6. CASE BeginTurn \/ DeferTurn \/ PlayPlan
  BY <1>1, <1>6, CallsPass DEF BeginTurn, DeferTurn, PlayPlan, Passing
<1>7. CASE ContinueTurn
  <2>1. \/ call' \in {Call("playPlan"), Call("endTurn"), Done}
        \/ call' = unlessDecided(Call("endTurn"))
    BY <1>7 DEF ContinueTurn, Flees
  <2> QED BY <1>1, <1>4, <2>1, CallsPass
<1>8. CASE ContinuePlan
  <2>1. Passing(call')
    BY <1>8, CallsPass DEF ContinuePlan, startMove, Passing
  <2> QED BY <1>1, <2>1
<1>9. CASE EndTurn
  BY <1>4, <1>9 DEF EndTurn
<1>10. CASE TakeLegendaryAction
  <2>1. CASE call' = advanceTurn /\ UNCHANGED <<turn, order, cond>>
    BY <1>2, <1>3, <1>10, <2>1 DEF TakeLegendaryAction, advanceTurn, Leads, following
  <2>2. CASE \E r : call' = declare(r)
    BY <1>1, <2>2, CallsPass
  <2> QED BY <1>10, <2>1, <2>2 DEF TakeLegendaryAction
<1>11. CASE NextOpportunityAttack
  <2>1. Passing(call)
    BY <1>2, <1>11 DEF NextOpportunityAttack, Passing
  <2>2. call' \in {Call("completeMove"), Done, call} \/ \E r : call' = declare(r)
    BY <1>11 DEF NextOpportunityAttack
  <2> QED BY <1>1, <2>1, <2>2, CallsPass
<1>12. CASE CompleteMove
  BY <1>1, <1>12, CallsPass DEF CompleteMove, Passing
<1>13. CASE DeclareResolution \/ StartResolution
  BY <1>1, <1>13, CallsPass DEF DeclareResolution, openWindow, StartResolution
<1>14. CASE SettleCheck \/ ProceedToEffects \/ ApplyEffects \/ LaySpell
  BY <1>1, <1>14, CallsPass DEF SettleCheck, openWindow, ProceedToEffects, ApplyEffects, LaySpell
<1>15. CASE FinishResolution
  BY <1>1, <1>15 DEF FinishResolution, Passing
<1>16. CASE OfferDeathBurst
  <2>1. Passing(call) /\ Passing([call EXCEPT !.fn = "offerRetaliation"])
    BY <1>2, <1>16 DEF OfferDeathBurst, Passing
  <2>2. call' \in {call, [call EXCEPT !.fn = "offerRetaliation"]} \/ \E r : call' = declare(r)
    BY <1>16 DEF OfferDeathBurst
  <2> QED BY <1>1, <2>1, <2>2, CallsPass
<1>17. CASE OfferRetaliation
  <2>1. CASE \E r : call' = declare(r)
    BY <1>1, <2>1, CallsPass
  <2>2. CASE call' = unlessDecided([fn |-> "afterResolution", actor |-> call.resumes.actor,
                                    kind |-> call.resumes.kind, purpose |-> call.resumes.purpose])
    BY <2>2 DEF Leads, Goes, unlessDecided
  <2> QED BY <1>17, <2>1, <2>2 DEF OfferRetaliation
<1>18. CASE AfterResolution
  <2>1. CASE call' = Call("takeLegendaryAction") /\ UNCHANGED cond
    BY <1>2, <1>3, <1>18, <2>1 DEF AfterResolution, Leads, Call
  <2>2. CASE call' \in {Call("nextOpportunityAttack"), Call("endTurn"), Done} \/ \E r : call' = declare(r)
    BY <1>1, <2>2, CallsPass
  <2> QED BY <1>18, <2>1, <2>2 DEF AfterResolution
<1>19. CASE FinishAway
  BY <1>1, <1>19, CallsPass DEF FinishAway
<1> QED BY <1>5, <1>6, <1>7, <1>8, <1>9, <1>10, <1>11, <1>12, <1>13, <1>14, <1>15, <1>16, <1>17, <1>18, <1>19 DEF Step

\* The table, the phase and the record of the turn while a decision runs.
LEMMA StepsKeepTheFight ==
  ASSUME Step, "index" \in DOMAIN turn
  PROVE  fight' = fight /\ phase' \in {phase, "ended"} /\ "index" \in DOMAIN turn'
<1> USE DEF tableVars, turnVars
<1>1. CASE EndIfDecided \/ BeginTurn \/ EndTurn \/ TakeLegendaryAction \/ DeclareResolution
  BY <1>1 DEF EndIfDecided, BeginTurn, EndTurn, TakeLegendaryAction, DeclareResolution
<1>2. CASE DeferTurn \/ ContinueTurn \/ PlayPlan \/ ContinuePlan \/ NextOpportunityAttack \/ CompleteMove
  BY <1>2 DEF DeferTurn, ContinueTurn, PlayPlan, ContinuePlan, NextOpportunityAttack, CompleteMove
<1>3. CASE StartResolution \/ SettleCheck \/ ProceedToEffects \/ ApplyEffects \/ LaySpell \/ FinishResolution
           \/ OfferDeathBurst \/ OfferRetaliation \/ AfterResolution \/ FinishAway
  BY <1>3 DEF StartResolution, SettleCheck, ProceedToEffects, ApplyEffects, LaySpell, FinishResolution,
       OfferDeathBurst, OfferRetaliation, AfterResolution, FinishAway
<1> QED BY <1>1, <1>2, <1>3 DEF Step

LEMMA StepsSpare == ASSUME CondTyped, Step PROVE CondTyped' /\ \A c \in Creatures : StaysOut(c)
<1>1. CASE ContinueTurn \/ FinishAway \/ ApplyEffects
  BY <1>1, ContinueTurnSpares, FinishAwaySpares, ApplyEffectsSpares
<1>2. CASE ~(ContinueTurn \/ FinishAway \/ ApplyEffects)
  <2>1. UNCHANGED cond
    BY <1>2, StepsHurt
  <2> QED BY <2>1 DEF CondTyped, StaysOut, isPresent
<1> QED BY <1>1, <1>2

\* The decision winds on, and its steps are the order's.
LEMMA WindsOn == ASSUME Winds, Step PROVE Winds' /\ [Order!Next]_(Order!vars)
<1>1. CondTyped' /\ (\A c \in Creatures : StaysOut(c)) /\ "index" \in DOMAIN turn
  BY StepsSpare DEF Winds
<1>2. fight' = fight /\ phase' \in {phase, "ended"} /\ "index" \in DOMAIN turn'
  BY <1>1, StepsKeepTheFight
<1>3. Leads(call, heroesStanding, following)'
  BY StepsLead
<1>4. CASE BeginTurn
  <2>1. call.index = following /\ heroesStanding /\ OrderFits /\ phase # "initiative" /\ turn.index \in 0 .. Len(order)
    BY <1>4 DEF BeginTurn, Winds, Leads
  <2>2. Order!Advance
    BY <1>4, <2>1, TurnAdvances
  <2>3. order' = order /\ turn'.index \in 0 .. Len(order)
    <3>1. PICK k \in 0 .. Len(order) - 1 : turn'.index = Order!place(turn.index, k)
      BY <2>2 DEF Order!Advance
    <3>2. Len(order) \in Nat \ {0}
      BY <2>1, OrderIs
    <3>3. PICK l \in Nat \ {0} : l = Len(order)
      BY <3>2
    <3>4. (turn.index + k) % l \in 0 .. l - 1
      BY <2>1, <3>3
    <3>5. turn'.index = ((turn.index + k) % l) + 1
      BY <3>1, <3>3 DEF Order!place
    <3> QED BY <2>2, <3>3, <3>4, <3>5 DEF Order!Advance
  <2>4. Winds'
    BY <1>1, <1>2, <1>3, <2>1, <2>3 DEF Winds, OrderFits
  <2> QED BY <2>2, <2>4 DEF Order!Next
<1>5. CASE ~BeginTurn
  <2>1. order' = order /\ turn'.index = turn.index
    BY <1>1, <1>5, StepsKeepTurns
  <2>2. Out \subseteq Out' /\ Out' \subseteq Creatures
    BY <1>1 DEF Out, StaysOut, isPresent
  <2>3. Order!Leave
    BY <2>1, <2>2 DEF Order!Leave, Out
  <2>4. Winds'
    BY <1>1, <1>2, <1>3, <2>1 DEF Winds, OrderFits
  <2> QED BY <2>3, <2>4 DEF Order!Next
<1> QED BY <1>4, <1>5

\* The two decisions that leave a roll behind, and what they leave to run.
LEMMA OthersLeaveNothing ==
  ASSUME ~astray, astray', [Next]_vars
  PROVE  TurnTimerExpired \/ \E h \in Heroes : RecordTrigger(h)
<1> USE DEF vars, tableVars
<1>1. CASE Step
  BY <1>1, StepsDoNotStray
<1>2. CASE RecordRoll
  <2>1. ASSUME NEW c \in Creatures, RecordInitiative(c) \/ RecordCheck(c) \/ RecordConcentration(c)
        PROVE  astray' = astray
    BY <2>1 DEF RecordInitiative, RecordCheck, RecordConcentration
  <2>2. ASSUME NEW h \in Heroes, RecordDeathSave(h) PROVE astray' = astray
    BY <2>2 DEF RecordDeathSave
  <2> QED BY <1>2, <2>1, <2>2 DEF RecordRoll, RecordEffect
<1>3. CASE LoadDue \/ TimerStep
  BY <1>3 DEF LoadDue, LoadTimer, TimerStep, ReactionTimerExpired, OpportunityTimerExpired, MarkTimerFired
<1>4. CASE Player
  <2>1. ASSUME NEW take \in BOOLEAN, AnswerWindow(take) \/ AnswerOpportunityAttack(take) PROVE astray' = astray
    BY <2>1 DEF AnswerWindow, AnswerOpportunityAttack
  <2>2. ASSUME NEW h \in Heroes, MarkAway(h) \/ MarkReturned(h) \/ ContinueCampaign(h) PROVE astray' = astray
    BY <2>2 DEF MarkAway, MarkReturned, ContinueCampaign
  <2> QED BY <1>4, <2>1, <2>2 DEF Player, HeroMoves, HeroActs, HeroDodges, HeroEndsTurn, PauseCampaign
<1> QED BY <1>1, <1>2, <1>3, <1>4 DEF Next

LEMMA StraysToWinds == ASSUME Inv, ~astray, astray', [Next]_vars PROVE Winds'
<1> USE DEF tableVars, creatureVars, turnVars, flightVars, diceVars, timerVars
<1>1. CondTyped /\ "index" \in DOMAIN turn /\ turn.index \in 0 .. Len(order) /\ OrderFits
  BY DEF Inv, Typed, CreaturesTyped, CondTyped, TurnTyped, Turns
<1>2. TurnTimerExpired \/ \E h \in Heroes : RecordTrigger(h)
  BY OthersLeaveNothing
<1>3. CASE TurnTimerExpired
  <2>1. call' = Call("endTurn")
    BY <1>3, Zenon DEF TurnTimerExpired
  <2>2. call = Done /\ Done # Call("endTurn")
    BY <1>3 DEF TurnTimerExpired, dueNow, Free, Idle, Done, Call
  <2>3. phase = "active" /\ UNCHANGED <<fight, cond, phase, order, turn>>
    BY <1>3, <2>1, <2>2 DEF TurnTimerExpired
  <2> QED BY <1>1, <2>1, <2>3 DEF Winds, CondTyped, OrderFits, Leads, Call
<1>4. ASSUME NEW h \in Heroes, RecordTrigger(h) PROVE Winds'
  <2>1. CondTyped' /\ call' = unlessDecided(Call("continueTurn")) /\ UNCHANGED <<fight, phase, order, turn>>
    BY <1>1, <1>4, RecordTriggerSpares DEF RecordTrigger
  <2>2. Waits /\ <<"trigger", h>> \in pendingRolls
    BY <1>4, IdleWaits DEF RecordTrigger, arrives, Free
  <2>3. phase # "initiative"
    BY <2>2 DEF Waits, RollsInitiative, IsOver, IsDeferred, Begun
  <2> QED BY <1>1, <2>1, <2>3 DEF Winds, OrderFits, Leads, Goes, unlessDecided, Call
<1> QED BY <1>2, <1>3, <1>4

\* TurnsGoRound: the turns of every fight go round the order the dice gave,
\* passing over nobody but the dead and the fled (endTurn, nextPresentIndex),
\* also in a decision that leaves a roll behind.
THEOREM FightsImplementTurnOrder == Spec => TurnsGoRound
<1>1. Init => Order!Init
  BY DEF Init, Order!Init, isPresent
<1> DEFINE Round == (~astray => Inv) /\ (astray => Winds)
<1>2. Init => Round
  BY InitIsInPlace DEF Init
<1>3. Round /\ [Next]_vars => Round' /\ [Order!Next]_(Order!vars)
  <2> SUFFICES ASSUME Round, [Next]_vars PROVE Round' /\ [Order!Next]_(Order!vars)
    OBVIOUS
  <2>1. CASE ~astray
    BY <2>1, NextKeeps, StraysToWinds, InPlaceInOrder
  <2>2. CASE astray /\ Step
    BY <2>2, WindsOn, StepsDoNotStray
  <2>3. CASE astray /\ UNCHANGED vars
    <3>1. UNCHANGED <<fight, cond, phase, order, turn, call, astray>>
      BY <2>3 DEF vars, tableVars, creatureVars, turnVars
    <3>2. Winds'
      BY <2>3, <3>1 DEF Winds, CondTyped, OrderFits, heroesStanding, isActive, following
    <3>3. UNCHANGED Order!vars
      BY <3>1 DEF Order!vars, isPresent
    <3> QED BY <2>3, <3>1, <3>2, <3>3
  <2> QED BY <2>1, <2>2, <2>3, DecisionsAreFollowed DEF Next
<1> HIDE DEF Round
<1> QED BY <1>1, <1>2, <1>3, PTL DEF Spec, TurnsGoRound, Order!Spec

=============================================================================
