--------------------------- MODULE CampaignEngine ---------------------------
(***************************************************************************)
(* The exploration rules of src/domain/campaign/engine as pure operators:  *)
(* what decide() does to the campaign when one command is handled while no *)
(* fight is on.  A decision is a record                                    *)
(*                                                                         *)
(*   [state, timers, outbox]                                               *)
(*                                                                         *)
(* threaded through the steps of a handler the way the Decision class      *)
(* threads its state: every step sees what the earlier steps emitted.      *)
(*                                                                         *)
(* Data is abstracted: a text, a roll's value, a deadline or a delivery    *)
(* does not appear.  Time is abstracted too: a pending timer may be due at *)
(* any moment, so closesAt and deadline are the presence of a timer.       *)
(***************************************************************************)
EXTENDS Naturals, FiniteSets

CONSTANTS
  Users,            \* Discord users who may take part
  Organizer,        \* the user who runs the campaign
  Heroes,           \* character ids
  NoHero,           \* "no character"
  Scenes,           \* scene ids of the adventure
  NoScene,          \* "no scene"
  AwayAfterMisses,  \* pacing.awayAfterMisses
  RoundTimed,       \* pacing.roundSeconds # null
  RollTimed         \* pacing.rollSeconds # null

ASSUME UsersAssumption == Organizer \in Users /\ IsFiniteSet(Users)
ASSUME NoHeroAssumption == NoHero \notin Heroes
ASSUME NoSceneAssumption == NoScene \notin Scenes
ASSUME PacingAssumption ==
  /\ AwayAfterMisses \in Nat \ {0}
  /\ RoundTimed \in BOOLEAN
  /\ RollTimed \in BOOLEAN

-----------------------------------------------------------------------------
(* The campaign state.                                                     *)

Submissions == {"none", "action", "pass", "excused", "missed"}
CheckStatus == {"none", "pending", "rolling", "lucky", "resolved"}
Pausers == {"nobody", "organizer", "recovery", "safety"}
Rests == {"none", "short", "long"}

\* pendingMove of the code; `to = NoScene` stands for "undefined".
Moves == [to : Scenes \cup {NoScene}, round : Nat,
          objectors : SUBSET Users, supporters : SUBSET Users]
NoPendingMove == [to |-> NoScene, round |-> 0, objectors |-> {}, supporters |-> {}]

\* The scene change among a plan's effects, if any; forced ones are the story's own.
PlannedMoves == [to : Scenes \cup {NoScene}, forced : BOOLEAN]
NoPlannedMove == [to |-> NoScene, forced |-> FALSE]

NoSubmissions == [h \in Heroes |-> "none"]
NoChecks == [h \in Heroes |-> "none"]

CampaignStates ==
  [status       : {"active", "waitingForPlayers"},
   pausedBy     : Pausers,
   hero         : [Users -> Heroes \cup {NoHero}], \* members and their characters
   away         : SUBSET Users,
   misses       : [Users -> Nat],
   phase        : {"none", "collecting", "planning", "resolving"}, \* round.status
   participants : SUBSET Heroes,
   submissions  : [Heroes -> Submissions],
   planned      : PlannedMoves,
   plannerFailed : BOOLEAN,      \* the round's last word from the planner is a failure
   lastRound    : Nat,           \* lastRoundNumber, and the open round's number
   lastNarrated : Nat,
   checks       : [Heroes -> CheckStatus],
   scene        : Scenes,
   pendingMove  : Moves,
   declined     : Scenes \cup {NoScene},
   pendingRest  : Rests,
   resting      : Rests,
   opening      : {"undefined", "pending", "waiting", "done"},
   ready        : SUBSET Users]

\* The state buildStartingState makes for these seats, in this scene.
StartingState(seats, scene) ==
  [status |-> "active", pausedBy |-> "nobody", hero |-> seats, away |-> {},
   misses |-> [u \in Users |-> 0], phase |-> "none", participants |-> {},
   submissions |-> NoSubmissions, planned |-> NoPlannedMove,
   plannerFailed |-> FALSE, lastRound |-> 0, lastNarrated |-> 0,
   checks |-> NoChecks, scene |-> scene, pendingMove |-> NoPendingMove,
   declined |-> NoScene, pendingRest |-> "none", resting |-> "none",
   opening |-> "undefined", ready |-> {}]

\* The timer and outbox rows the engine asks for, named like ids.ts names them.
Timers == [kind : {"round"}, round : Nat, hero : {NoHero}]
            \cup [kind : {"roll"}, round : Nat, hero : Heroes]
RoundTimer(n) == [kind |-> "round", round |-> n, hero |-> NoHero]
RollTimer(n, h) == [kind |-> "roll", round |-> n, hero |-> h]

Jobs == [kind : {"plan", "narrate", "narrateOpening"}, round : Nat,
         hero : {NoHero}, lucky : {FALSE}]
          \cup [kind : {"roll"}, round : Nat, hero : Heroes, lucky : BOOLEAN]
JobFor(kind, n) == [kind |-> kind, round |-> n, hero |-> NoHero, lucky |-> FALSE]
RollJob(n, h, lucky) == [kind |-> "roll", round |-> n, hero |-> h, lucky |-> lucky]

Decisions == [state : CampaignStates, timers : SUBSET Timers, outbox : SUBSET Jobs]

Members(c) == {u \in Users : c.hero[u] # NoHero}
Present(c) == Members(c) \ c.away
Owns(c, u, h) == h \in Heroes /\ c.hero[u] = h
\* Mutant: the round also asks the members who are away.
HeroesOfMembers(c) == {c.hero[u] : u \in Members(c)}

\* Present members' heroes: no hero is fallen while no fight is on.
ParticipantsFor(c) == {c.hero[u] : u \in Present(c)}

Request(d, job) == [d EXCEPT !.outbox = @ \cup {job}]

-----------------------------------------------------------------------------
(* Pause and waiting.                                                      *)

\* The timers of the window the table is in: the open round's, the open checks'.
HeldTimers(c) ==
  (IF c.phase = "collecting" THEN {RoundTimer(c.lastRound)} ELSE {})
    \cup {RollTimer(c.lastRound, h) : h \in {g \in Heroes : c.checks[g] = "pending"}}

EnterWaiting(d) ==
  IF d.state.status = "waitingForPlayers" THEN d
  ELSE [d EXCEPT !.timers = @ \ HeldTimers(d.state),
                 !.state.status = "waitingForPlayers",
                 !.state.pausedBy = "nobody"]

PauseCampaign(d, reason) ==
  [d EXCEPT !.timers = @ \ HeldTimers(d.state),
            !.state.status = "waitingForPlayers",
            !.state.pausedBy = reason]

-----------------------------------------------------------------------------
(* Opening a round.                                                        *)

RestTaken(c, rest) == [c EXCEPT !.pendingRest = "none", !.resting = rest]

\* takeQueuedRest: a long rest that has become too soon is dropped instead.
TakeQueuedRest(c, tooSoon) ==
  IF c.pendingRest = "none" \/ c.status # "active" THEN c
  ELSE IF c.pendingRest = "long" /\ tooSoon THEN [c EXCEPT !.pendingRest = "none"]
  ELSE RestTaken(c, c.pendingRest)

RoundOpened(c) ==
  [c EXCEPT !.phase = "collecting", !.participants = ParticipantsFor(c),
            !.submissions = NoSubmissions, !.planned = NoPlannedMove,
            !.plannerFailed = FALSE, !.lastRound = @ + 1, !.checks = NoChecks]

BeginRound(d) ==
  [d EXCEPT !.state = RoundOpened(@),
            !.timers = IF RoundTimed THEN @ \cup {RoundTimer(d.state.lastRound + 1)} ELSE @]

\* The reasons openRound gives a user who is at the table.
OpenRoundRefused(c, tooSoon) ==
  \/ c.status = "waitingForPlayers"
  \/ c.phase # "none"
  \/ TakeQueuedRest(c, tooSoon).resting # "none"
  \/ c.opening \notin {"pending", "waiting"} /\ ParticipantsFor(c) = {}

\* What openRound leaves behind, refused or not: some callers ignore a refusal.
OpenRound(d, bySystem, tooSoon) ==
  LET rested == [d EXCEPT !.state = TakeQueuedRest(@, tooSoon)]
      c == rested.state
  IN IF d.state.status = "waitingForPlayers" \/ d.state.phase # "none" THEN d
     ELSE IF c.resting # "none" \/ c.opening \in {"pending", "waiting"} THEN rested
     ELSE IF ParticipantsFor(c) # {} THEN BeginRound(rested)
     ELSE IF bySystem THEN EnterWaiting(rested)
     ELSE rested

FinishReadyCheck(d, bySystem, tooSoon) ==
  IF d.state.opening = "waiting" /\ d.state.status = "active"
       /\ Present(d.state) \subseteq d.state.ready
  THEN OpenRound([d EXCEPT !.state.opening = "done"], bySystem, tooSoon)
  ELSE d

-----------------------------------------------------------------------------
(* Scene moves: a move nobody forces waits for the table's vote.           *)

\* Mutant: a tie goes.
StaysByMajority(present, objectors) ==
  Cardinality(objectors \cap present) * 2 > Cardinality(present)

\* Staying wins a tie, but silence is not a vote for staying.
Stays(present, objectors) ==
  LET against == Cardinality(objectors \cap present)
  IN against > 0 /\ against * 2 >= Cardinality(present)

SceneTransitioned(c, scene) == [c EXCEPT !.scene = scene, !.declined = NoScene]

Settle(c, outcome) ==
  IF outcome = "stay"
  THEN [c EXCEPT !.pendingMove = NoPendingMove, !.declined = c.pendingMove.to]
  ELSE SceneTransitioned([c EXCEPT !.pendingMove = NoPendingMove], c.pendingMove.to)

SettleDueMove(c) ==
  IF c.pendingMove.to # NoScene /\ c.pendingMove.round < c.lastRound
  THEN Settle(c, IF Stays(Present(c), c.pendingMove.objectors) THEN "stay" ELSE "go")
  ELSE c

MoveProposed(c, scene, round) ==
  [c EXCEPT !.pendingMove = [to |-> scene, round |-> round, objectors |-> {}, supporters |-> {}]]

\* The planner's move; the ones already waiting or already refused are dropped.
ProposeMove(c, scene) ==
  IF scene \in {c.pendingMove.to, c.declined} THEN c
  ELSE MoveProposed(c, scene, c.lastRound)

-----------------------------------------------------------------------------
(* Closing, planning and resolving a round.                                *)

RoundResolved(c) ==
  [c EXCEPT !.phase = "none", !.participants = {}, !.submissions = NoSubmissions,
            !.planned = NoPlannedMove]

MissedDuringVote(c) == {h \in c.participants : c.submissions[h] = "none"}

\* The heroes the closing round marks as missed: nobody, while a move is voted on.
Missed(c) ==
  IF c.pendingMove.to # NoScene THEN {}
  ELSE {h \in c.participants : c.submissions[h] = "none"}

RoundClosed(c, byTimer) ==
  [c EXCEPT
    !.phase = "planning",
    !.submissions = [h \in Heroes |-> IF h \in Missed(c) THEN "missed" ELSE @[h]],
    !.misses = [u \in Users |->
                  IF byTimer /\ c.hero[u] \in Missed(c) THEN @[u] + 1 ELSE @[u]]]

\* Present members who have missed too many windows in a row leave the table.
MarkIdleAway(c) ==
  LET idle == {u \in Present(c) : c.misses[u] >= AwayAfterMisses}
  IN [c EXCEPT !.away = @ \cup idle,
               !.misses = [u \in Users |-> IF u \in idle THEN 0 ELSE @[u]]]

HasActions(c) == \E h \in Heroes : c.submissions[h] = "action"

CloseRound(d, byTimer) ==
  LET n == d.state.lastRound
      closed == [d EXCEPT
        !.timers = IF byTimer THEN @ ELSE @ \ {RoundTimer(n)},
        !.state = MarkIdleAway(SettleDueMove(RoundClosed(@, byTimer)))]
      quiet == [closed EXCEPT !.state = RoundResolved(@)]
  IN IF HasActions(d.state)
     THEN IF Present(closed.state) = {} THEN EnterWaiting(closed)
          ELSE Request(closed, JobFor("plan", n))
     ELSE IF Present(closed.state) = {} THEN EnterWaiting(quiet)
          ELSE IF d.state.pausedBy = "nobody" THEN BeginRound(quiet)
          ELSE quiet

\* Mutant: any round in progress is closed again.
CloseWheneverEveryoneResponded(d) ==
  IF d.state.phase # "none"
       /\ \A h \in d.state.participants : d.state.submissions[h] # "none"
  THEN CloseRound(d, FALSE)
  ELSE d

CloseIfEveryoneResponded(d) ==
  IF d.state.phase = "collecting"
       /\ \A h \in d.state.participants : d.state.submissions[h] # "none"
  THEN CloseRound(d, FALSE)
  ELSE d

\* All of the round's checks are resolved: its effects apply and the Narrator
\* is asked.  fired says whether the condition of the planned move held and
\* enough of the acting heroes wanted it.
FinishRoundIfResolved(d, fired) ==
  LET c == d.state
      move == c.planned
      moved == IF move.to = NoScene \/ ~fired THEN c
               ELSE IF move.forced THEN SceneTransitioned(c, move.to)
               ELSE ProposeMove(c, move.to)
  IN IF c.status = "active" /\ c.phase = "resolving"
          /\ \A h \in Heroes : c.checks[h] \in {"none", "resolved"}
     THEN Request([d EXCEPT !.state = RoundResolved(moved)], JobFor("narrate", c.lastRound))
     ELSE d

\* The plan of the closed round asks these acting heroes for a check.
ApplyRoundPlan(d, called, move, fired) ==
  LET n == d.state.lastRound
      planned == [d EXCEPT
        !.state.phase = "resolving",
        !.state.planned = move,
        !.state.checks = [h \in Heroes |-> IF h \in called THEN "pending" ELSE @[h]],
        !.timers = IF RollTimed THEN @ \cup {RollTimer(n, h) : h \in called} ELSE @]
  IN FinishRoundIfResolved(planned, fired)

\* Mutant: a click on Roll leaves the roll's timer running.
StartRollsKeepTimers(d, rollers, byTimer) ==
  [d EXCEPT
    !.state.checks = [h \in Heroes |-> IF h \in rollers THEN "rolling" ELSE @[h]],
    !.outbox = @ \cup {RollJob(d.state.lastRound, h, FALSE) : h \in rollers}]

\* startRoll: only a timer that fired is left for the worker to mark.
StartRolls(d, rollers, byTimer) ==
  LET n == d.state.lastRound IN
  [d EXCEPT
    !.state.checks = [h \in Heroes |-> IF h \in rollers THEN "rolling" ELSE @[h]],
    !.timers = IF byTimer THEN @ ELSE @ \ {RollTimer(n, h) : h \in rollers},
    !.outbox = @ \cup {RollJob(n, h, FALSE) : h \in rollers}]

\* recordCheckRoll: a halfling's natural 1 is rolled once more before it stands.
RecordCheckRoll(d, h, rerolled, fired) ==
  LET n == d.state.lastRound IN
  IF rerolled
  THEN Request([d EXCEPT !.state.checks[h] = "lucky"], RollJob(n, h, TRUE))
  ELSE FinishRoundIfResolved([d EXCEPT !.state.checks[h] = "resolved"], fired)

-----------------------------------------------------------------------------
(* Members.                                                                *)

Responded(c, u, h, submission) ==
  [c EXCEPT !.submissions[h] = submission, !.misses[u] = 0]

MemberMarkedAway(c, u) == [c EXCEPT !.away = @ \cup {u}, !.misses[u] = 0]
MemberReturned(c, u) == [c EXCEPT !.away = @ \ {u}, !.misses[u] = 0]

MarkAway(d, u, tooSoon) ==
  LET h == d.state.hero[u]
      rollers == {g \in Heroes : g = h /\ d.state.checks[g] = "pending"}
      left == StartRolls([d EXCEPT !.state = MemberMarkedAway(@, u)], rollers, FALSE)
      excused ==
        IF /\ d.state.phase = "collecting"
           /\ h \in d.state.participants
           /\ d.state.submissions[h] = "none"
        THEN CloseIfEveryoneResponded([left EXCEPT !.state.submissions[h] = "excused"])
        ELSE left
  IN IF excused.state.status = "active" /\ Present(excused.state) = {}
     THEN EnterWaiting(excused)
     ELSE FinishReadyCheck(excused, FALSE, tooSoon)

\* memberRetired: the seat and everything counted for it, but not its checks.
MemberRetired(c, u) ==
  LET h == c.hero[u] IN
  [c EXCEPT !.hero[u] = NoHero, !.away = @ \ {u}, !.misses[u] = 0,
            !.participants = @ \ {h},
            !.submissions = [g \in Heroes |-> IF g = h THEN "none" ELSE @[g]],
            !.pendingMove.objectors = @ \ {u},
            !.pendingMove.supporters = @ \ {u},
            !.ready = @ \ {u}]

RetireMember(d, u) ==
  LET left == CloseIfEveryoneResponded([d EXCEPT !.state = MemberRetired(@, u)])
  IN IF left.state.status = "active" /\ Present(left.state) = {}
     THEN EnterWaiting(left)
     ELSE left

\* Mutant: the windows are not armed again.
ResumedWithoutWindows(d, u) ==
  LET back == IF u \in d.state.away THEN MemberReturned(d.state, u) ELSE d.state
  IN [d EXCEPT !.state = [back EXCEPT !.status = "active", !.pausedBy = "nobody"]]

\* "resumed": whoever continues is back, and every open window starts afresh.
Resumed(d, u) ==
  LET back == IF u \in d.state.away THEN MemberReturned(d.state, u) ELSE d.state
      rearmed == {t \in HeldTimers(back) : IF t.kind = "round" THEN RoundTimed ELSE RollTimed}
  IN [d EXCEPT !.state = [back EXCEPT !.status = "active", !.pausedBy = "nobody"],
               !.timers = @ \cup rearmed]

\* continueCampaign after "resumed": the held work is picked up again.
PickUpHeldWork(d, tooSoon, fired) ==
  LET c == d.state IN
  CASE c.phase = "none" /\ c.resting # "none" -> d
    [] c.phase = "none" /\ c.resting = "none" -> OpenRound(d, FALSE, tooSoon)
    [] c.phase = "planning" -> Request(d, JobFor("plan", c.lastRound))
    [] c.phase = "resolving" -> FinishRoundIfResolved(d, fired)
    [] OTHER -> d

-----------------------------------------------------------------------------
(* A table in order: what every handler finds and leaves behind.           *)

OpenSlots(c) == {h \in c.participants : c.submissions[h] = "none"}

\* What holds even between the steps of a handler: a hero has one player, dice
\* wait only while a round resolves, a round in progress has a number, a timer
\* belongs to an open window, and a table that waits has no timer at all.
Consistent(c, pending) ==
  /\ \A u, v \in Users : c.hero[u] = c.hero[v] /\ c.hero[u] # NoHero => u = v
  /\ \A h \in Heroes : c.checks[h] = "pending" => c.phase = "resolving"
  /\ c.phase # "none" => c.lastRound > 0
  /\ pending \subseteq HeldTimers(c)
  /\ c.pausedBy # "nobody" => c.status = "waitingForPlayers"
  /\ c.status = "waitingForPlayers" => pending = {}

\* A round collecting answers misses one, from somebody present.
SlotsOpen(c) ==
  c.phase = "collecting" =>
    /\ OpenSlots(c) # {}
    /\ OpenSlots(c) \subseteq ParticipantsFor(c)

\* Only a pause holds a round that collects answers.
OnlyPausesHoldRounds(c) ==
  c.status = "waitingForPlayers" /\ c.phase = "collecting" => c.pausedBy # "nobody"

InOrder(c, pending) ==
  /\ Consistent(c, pending)
  /\ SlotsOpen(c)
  /\ OnlyPausesHoldRounds(c)
  /\ c.status = "active" => Present(c) # {}

=============================================================================
