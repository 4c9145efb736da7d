------------------------------- MODULE Lobby -------------------------------
(***************************************************************************)
(* application/campaign/campaign-lobby-service.ts with the lobby rules of  *)
(* domain/campaign/lobby/lobby.ts: who has a seat in one game, before it   *)
(* starts and while it is played.  Two documents say who plays, the record *)
(* of the lobby and the campaign of the engine, and no transaction spans a *)
(* change of both: an operation that needs both has several steps.  The    *)
(* operations run one after the other (KeyedSerialQueue); the engine plays *)
(* on between their steps, requests run out, a save may be lost to another *)
(* writer of the record, and the process may die.                          *)
(*                                                                         *)
(* A player who left before the start ("withdrawn") is one without a seat  *)
(* whose hero is remembered; "creating" and "ready" are a seat without and *)
(* with a hero.  Which hero somebody plays once the game runs, the texts,  *)
(* the house rules and saved characters are left out: the engine may turn  *)
(* any hero down.                                                          *)
(***************************************************************************)
EXTENDS Naturals, FiniteSets

CONSTANTS
  Users,              \* the people who may take a seat
  Organizer,          \* the organizer, who may be one of them or not
  Heroes, NoHero,     \* the heroes of the adventure; none chosen
  Sizes,              \* bound: the party sizes anyone asks for
  Applicants,         \* bound: the users who ask to join or are invited
  MinPlayers,
  Visibilities,       \* bound: {FALSE} open games, {TRUE} private ones
  Timed,              \* the pacing has a deadline
  MaxFaults,          \* bound: faults and lost saves
  CutOff              \* bound: the operations they may cut off

ASSUME LobbyUsersAssumption == IsFiniteSet(Users)
ASSUME LobbyHeroesAssumption == NoHero \notin Heroes
ASSUME LobbySizesAssumption ==
  /\ MinPlayers \in Nat \ {0} /\ Sizes \subseteq {n \in Nat : n >= MinPlayers}
  /\ Applicants \subseteq Users /\ Visibilities \subseteq BOOLEAN /\ Timed \in BOOLEAN /\ MaxFaults \in Nat

VARIABLES
  record,    \* the campaign record of the lobby
  game,      \* what the engine's campaign says of the players
  op,        \* the operation whose turn it is in the queue, and its next step
  listed,    \* the users the pass of the queued joins has still to look at
  ended,     \* the bus has an outcome for the command id "end:<campaign>"
  booting,   \* the process has started and not recovered its games
  faults,    \* faults and lost saves so far
  torn       \* history: the users whose operation was cut off between the two documents

vars == <<record, game, op, listed, ended, booting, faults, torn>>
rest == <<listed, ended, booting, faults, torn>>

-----------------------------------------------------------------------------
(* The record.                                                             *)

Requests == {"none", "requested", "invited", "approved", "queued"}
Records ==
  [lifecycle : {"lobby", "active", "archived"}, membersOnly : BOOLEAN,
   maxPlayers : Nat, seats : SUBSET Users, hero : [Users -> Heroes \cup {NoHero}],
   request : [Users -> Requests],
   live : SUBSET Users]            \* requests that have not run out

\* "waiting": nobody is present; "paused": waiting with a pausedBy, when the engine
\* refuses every player.  "resting" is active, in a rest that was taken before the
\* game began; of a game that has begun rests are left out.
GameStatuses == {"active", "resting", "waiting", "paused"}

Games ==
  [made : BOOLEAN, begun : BOOLEAN, status : GameStatuses,
   member : [Users -> {"none", "alive", "fallen"}],
   fight : {"none", "near", "on", "telling", "untold"}]

Idle == [kind |-> "none", user |-> Organizer, at |-> "none"]
Steps(kind, u, at) == [kind |-> kind, user |-> u, at |-> at]

Holds(r, u) == r.request[u] \in {"invited", "approved", "queued"} /\ u \in r.live

\* MUTANT of reservedSeats: a queued join holds no seat.
reservedSeatsWithoutQueued(r) ==
    Cardinality(r.seats \cup {u \in Users : Holds(r, u) /\ r.request[u] # "queued"})

\* Seats that are taken or promised.
reservedSeats(r) == Cardinality(r.seats \cup {u \in Users : Holds(r, u)})

HasRoom(r) == reservedSeats(r) < r.maxPlayers

\* A request that is made, or made anew with a fresh date.
Asks(r, u, status) == [r EXCEPT !.request[u] = status, !.live = @ \cup {u}]

\* The whole request goes.
Forgets(r, u) == [r EXCEPT !.request[u] = "none", !.live = @ \ {u}]

heroTaken(r, h, except) == \E u \in r.seats \ {except} : r.hero[u] = h

\* Returning: the earlier hero, if nobody else took it.
KeptHero(r, u) == IF heroTaken(r, r.hero[u], u) THEN NoHero ELSE r.hero[u]

Seated(r, u) == [r EXCEPT !.seats = @ \cup {u}, !.hero[u] = KeptHero(r, u)]
Unseated(r, u) == [r EXCEPT !.seats = @ \ {u}]

Members(g) == {u \in Users : g.member[u] # "none"}

SeatedCount(r, g) ==
    IF reservedSeats(r) >= Cardinality(Members(g)) THEN reservedSeats(r)
    ELSE Cardinality(Members(g))

\* MUTANT of mustWaitForFight: a closing narration is waited for for ever.
mustWaitForAnyNarration(g) == g.fight # "none"

\* A hero joins at a safe break; a narration that was given up on is not
\* waited for.
mustWaitForFight(g) == g.fight \in {"near", "on", "telling"}

-----------------------------------------------------------------------------
(* Before the start.  Refusals change nothing and are left out; so is an   *)
(* actor who is refused because he is not the organizer.                   *)

InTurn == op = Idle
InLobby == record.lifecycle = "lobby"
Playing == record.lifecycle = "active"

Saves(r) == record' = r /\ UNCHANGED <<game, op, rest>>

Init ==
  /\ \E size \in Sizes, private \in Visibilities :
       record = [lifecycle |-> "lobby", membersOnly |-> private, maxPlayers |-> size,
                 seats |-> {}, hero |-> [u \in Users |-> NoHero],
                 request |-> [u \in Users |-> "none"], live |-> {}]
  /\ game = [made |-> FALSE, begun |-> FALSE, status |-> "active",
             member |-> [u \in Users |-> "none"], fight |-> "none"]
  /\ op = Idle /\ listed = {} /\ ended = FALSE /\ booting = FALSE
  /\ faults = 0 /\ torn = {}

\* The button of the card in Discord: a request stays on the record.
Join(u) ==
  /\ InTurn /\ InLobby /\ u \notin record.seats
  /\ Holds(record, u) \/ HasRoom(record)
  /\ Cardinality(record.seats) < record.maxPlayers
  /\ Saves(Seated(record, u))

\* The Activity: a private game asks for an invitation, which is used up.
JoinFromActivity(u) ==
  /\ InTurn /\ InLobby
  /\ LET invited == record.request[u] \in {"invited", "approved"} /\ u \in record.live
     IN /\ record.membersOnly => u = Organizer \/ u \in record.seats \/ invited
        /\ u \in record.seats \/ invited \/ HasRoom(record)
  /\ u \in record.seats \/ Cardinality(record.seats) < record.maxPlayers
  /\ Saves(Forgets(IF u \in record.seats THEN record ELSE Seated(record, u), u))

InviteLobby(u) ==
  /\ InTurn /\ InLobby /\ u \notin record.seats
  /\ (record.request[u] = "invited" /\ u \in record.live) \/ HasRoom(record)
  /\ Saves(Asks(record, u, "invited"))

Leave(u) == InTurn /\ InLobby /\ u \in record.seats /\ Saves(Unseated(record, u))

\* The invitation of a removed player goes with the seat.
RemoveMember(u) ==
  /\ InTurn /\ InLobby /\ u \in record.seats \ {Organizer}
  /\ Saves(Forgets(Unseated(record, u), u))

ChooseHero(u) ==
  /\ InTurn /\ InLobby /\ u \in record.seats
  /\ \E h \in Heroes : ~heroTaken(record, h, u) /\ Saves([record EXCEPT !.hero[u] = h])

\* The lobby's own cancelled or the end of a game that never began.
Cancel == InTurn /\ InLobby /\ Saves([record EXCEPT !.lifecycle = "archived"])

SetPartySize ==
  /\ InTurn /\ record.lifecycle # "archived"
  /\ \E size \in Sizes : /\ size >= SeatedCount(record, game)
                         /\ Saves([record EXCEPT !.maxPlayers = size])

\* The engine's campaign and the record are written in one transaction; the
\* opening is asked for in the next step.
Start ==
  /\ InTurn /\ InLobby
  /\ Cardinality(record.seats) >= MinPlayers
  /\ \A u \in record.seats : record.hero[u] # NoHero
  /\ record' = [record EXCEPT !.lifecycle = "active", !.hero = [u \in Users |-> NoHero]]
  /\ game' = [game EXCEPT !.made = TRUE,
                          !.member = [u \in Users |-> IF u \in record.seats THEN "alive" ELSE "none"]]
  /\ op' = Steps("start", Organizer, "begin")
  /\ UNCHANGED rest

\* The engine begins whatever its status is.
Begun(g) == [g EXCEPT !.begun = TRUE, !.status = IF @ = "resting" THEN "active" ELSE @]

StartBegins ==
  /\ op.at = "begin" /\ op' = Idle
  /\ game' = Begun(game)
  /\ UNCHANGED <<record, rest>>
-----------------------------------------------------------------------------
(* Requests to join a game that is being played: one transaction each.     *)

\* A request that still counts is answered as it is.
RequestOngoing(u) ==
  /\ InTurn /\ Playing
  /\ record.membersOnly => record.request[u] # "none"
  /\ game.member[u] = "none" /\ u \notin record.live /\ HasRoom(record)
  /\ Saves(Asks(record, u, "requested"))

\* A request is taken back; a queued join becomes an approval again.
WithdrawOngoing(u) ==
  /\ InTurn /\ Playing
  /\ \/ record.request[u] = "requested" /\ Saves(Forgets(record, u))
     \/ record.request[u] = "queued" /\ Saves([record EXCEPT !.request[u] = "approved"])

InviteOngoing(u) ==
  /\ InTurn /\ Playing /\ game.member[u] = "none"
  /\ Holds(record, u) \/ HasRoom(record)
  /\ Saves(Asks(record, u, "invited"))

DecideOngoing(u) ==
  /\ InTurn /\ Playing /\ game.member[u] = "none"
  /\ record.request[u] = "requested" /\ u \in record.live
  /\ \/ Saves(Forgets(record, u))
     \/ HasRoom(record) /\ Saves(Asks(record, u, "approved"))

AcceptInvite(u) ==
  /\ InTurn /\ Playing
  /\ record.request[u] = "invited" /\ u \in record.live
  /\ Saves([record EXCEPT !.request[u] = "approved"])

RevokeJoin(u) == InTurn /\ record.request[u] # "none" /\ Saves(Forgets(record, u))

\* Seven days are over.
RequestRunsOut(u) ==
  /\ u \in record.live
  /\ record' = [record EXCEPT !.live = @ \ {u}]
  /\ UNCHANGED <<game, op, rest>>

-----------------------------------------------------------------------------
(* A hero joins: load and decide, tell the engine, finish the record.      *)

Begins(kind, u, at) == op' = Steps(kind, u, at) /\ UNCHANGED <<record, game, ended, booting, faults, torn>>

\* A player with an approval chooses a hero: seated now, or after the fight.
JoinOngoing(u) ==
  /\ InTurn /\ Playing /\ UNCHANGED listed
  /\ record.request[u] \in {"approved", "queued"} /\ u \in record.live
  /\ IF game.member[u] # "none" THEN Begins("join", u, "finish")
     ELSE /\ Cardinality(Members(game)) < record.maxPlayers
          /\ Begins("join", u, IF mustWaitForFight(game) THEN "queue" ELSE "engine")

JoinIsQueued ==
  /\ op.at = "queue" /\ op' = Idle
  /\ record' = [record EXCEPT !.request[op.user] = "queued"]
  /\ UNCHANGED <<game, rest>>

\* A player takes a new hero for the one that fell.
ReplaceFallen(u) ==
  /\ InTurn /\ Playing /\ UNCHANGED listed
  /\ game.member[u] = "fallen" /\ Begins("replace", u, "engine")

\* The worker reads the records of the games being played, then takes its
\* turn in the queue for one user after the other.
ListQueuedJoins ==
  /\ ~booting /\ listed = {} /\ op.kind # "queued" /\ Playing
  /\ listed' = {u \in record.live : record.request[u] = "queued"}
  /\ listed' # {}
  /\ UNCHANGED <<record, game, op, ended, booting, faults, torn>>

\* The request is looked up again, the life of the game is not.
ProcessQueuedJoin(u) ==
  /\ InTurn /\ u \in listed /\ listed' = listed \ {u}
  /\ IF record.request[u] # "queued" \/ u \notin record.live
     THEN UNCHANGED <<record, game, op, ended, booting, faults, torn>>
     ELSE IF game.member[u] # "none" THEN Begins("queued", u, "finish")
     ELSE IF mustWaitForFight(game)
     THEN UNCHANGED <<record, game, op, ended, booting, faults, torn>>
     ELSE Begins("queued", u, IF Cardinality(Members(game)) >= record.maxPlayers
                              THEN "return" ELSE "engine")

\* A party that has fallen waits for somebody to play on: the new hero takes the
\* table up again, unless a round is still open.
PlaysOn(g) ==
  IF g.begun /\ g.status = "waiting" /\ \A u \in Users : g.member[u] # "alive"
  THEN {"waiting", "active"} ELSE {g.status}

\* joinHero: the engine takes the hero or finds a problem with it.
HeroJoins ==
  /\ op.at = "engine" /\ op.kind \in {"join", "replace", "queued"}
  /\ \/ /\ game.status # "paused"
        /\ \E s \in PlaysOn(game) :
             game' = [game EXCEPT !.member[op.user] = "alive", !.status = s]
        /\ op' = [op EXCEPT !.at = "finish"]
     \/ /\ op' = IF op.kind = "queued" THEN [op EXCEPT !.at = "return"] ELSE Idle
        /\ UNCHANGED game
  /\ UNCHANGED <<record, rest>>

FinishOngoingJoin ==
  /\ op.at = "finish" /\ op' = Idle
  /\ record' = Forgets([record EXCEPT !.seats = @ \cup {op.user}], op.user)
  /\ torn' = torn \ {op.user}
  /\ UNCHANGED <<game, listed, ended, booting, faults>>

ReturnQueuedJoin ==
  /\ op.at = "return" /\ op' = Idle
  /\ record' = [record EXCEPT !.request[op.user] = IF @ = "queued" THEN "approved" ELSE @]
  /\ UNCHANGED <<game, rest>>

-----------------------------------------------------------------------------
(* A seat is freed; a game ends and is opened again.                       *)

RetireSeat(u) ==
  /\ InTurn /\ Playing /\ u # Organizer /\ UNCHANGED listed
  /\ Begins("retire", u, "engine")

\* The table waits once nobody is present: those who are left may all be away.
AfterLeaving(g) ==
  IF g.status \notin {"active", "resting"} THEN {g.status}
  ELSE IF Members(g) = {} THEN {"waiting"} ELSE {g.status, "waiting"}

MemberRetires ==
  /\ op.kind = "retire" /\ op.at = "engine"
  /\ IF game.member[op.user] # "none" /\ game.fight # "on" /\ game.status # "paused"
     THEN /\ LET without == [game EXCEPT !.member[op.user] = "none"]
             IN \E s \in AfterLeaving(without) : game' = [without EXCEPT !.status = s]
          /\ op' = [op EXCEPT !.at = "record"]
     ELSE op' = Idle /\ UNCHANGED game
  /\ UNCHANGED <<record, rest>>

\* MUTANT of SeatIsFreed: the request goes, the seat stays.
SeatIsKept ==
  /\ op.at = "record" /\ op' = Idle
  /\ record' = Forgets(record, op.user)
  /\ UNCHANGED <<game, rest>>

SeatIsFreed ==
  /\ op.at = "record" /\ op' = Idle
  /\ record' = Forgets(Unseated(record, op.user), op.user)
  /\ UNCHANGED <<game, rest>>

\* Ending an ended game stops the engine again.
End ==
  /\ InTurn
  /\ record' = [record EXCEPT !.lifecycle = "archived"]
  /\ op' = Steps("end", Organizer, "pause")
  /\ UNCHANGED <<game, rest>>

\* One command id for every end of a campaign: the bus answers a second one
\* with the first outcome.
EndPauses ==
  /\ op.at = "pause" /\ op' = Idle
  /\ game' = [game EXCEPT !.status = IF game.made /\ ~ended THEN "paused" ELSE @]
  /\ ended' = (ended \/ game.made)
  /\ UNCHANGED <<record, listed, booting, faults, torn>>

Reopen ==
  /\ InTurn /\ record.lifecycle = "archived" /\ game.made
  /\ Saves([record EXCEPT !.lifecycle = "active"])

-----------------------------------------------------------------------------
(* The table plays on, as far as a join waits for it, and the process.     *)

Plays(g) == game' = g /\ UNCHANGED <<record, op, rest>>
Runs == game.begun /\ game.status = "active"
FightGoesOn == game.fight = "on" /\ game.status # "paused"

FightComesNear == Runs /\ game.fight \in {"none", "untold"} /\ Plays([game EXCEPT !.fight = "near"])
FightStarts == Runs /\ game.fight = "near" /\ Plays([game EXCEPT !.fight = "on"])
HeroFalls(u) == FightGoesOn /\ game.member[u] = "alive"
                /\ Plays([game EXCEPT !.member[u] = "fallen"])
FightEnds == FightGoesOn /\ Plays([game EXCEPT !.fight = "telling"])
ClosingIsTold == game.fight = "telling" /\ Plays([game EXCEPT !.fight = "none"])
ClosingIsGivenUp == game.fight = "telling" /\ Plays([game EXCEPT !.fight = "untold"])
ClosingIsRetried == game.fight = "untold" /\ Plays([game EXCEPT !.fight = "telling"])

\* The last player who was present goes away, or the party falls.
NobodyIsPresent ==
  /\ game.made /\ (Playing \/ Runs)
  /\ game.status \in {"active", "resting"} /\ Plays([game EXCEPT !.status = "waiting"])

\* The organizer's buttons ask whether the game is being played.
Pause == Playing /\ game.status # "paused" /\ Plays([game EXCEPT !.status = "paused"])

\* The first round opens, unless the table has taken a rest while it waited: that
\* ends with the next continue.
Continue ==
  /\ Playing /\ game.status # "active" /\ Members(game) # {}
  /\ \/ Plays([game EXCEPT !.status = "active", !.begun = TRUE])
     \/ /\ ~game.begun /\ game.status # "resting"
        /\ Plays([game EXCEPT !.status = "resting"])

Table ==
  \/ FightComesNear \/ FightStarts \/ FightEnds
  \/ ClosingIsTold \/ ClosingIsGivenUp \/ ClosingIsRetried
  \/ NobodyIsPresent \/ Pause \/ Continue
  \/ \E u \in Users : HeroFalls(u)

\* What the two documents say of this user differs.
Differs(u) == u \in Users /\ game.made /\ (u \in record.seats) # (game.member[u] # "none")

CutsOff ==
  /\ faults < MaxFaults /\ op.kind \in CutOff
  /\ op' = Idle /\ faults' = faults + 1
  /\ torn' = IF Differs(op.user) THEN torn \cup {op.user} ELSE torn
  /\ UNCHANGED <<record, game, ended>>

\* The process dies and is started again.
Crash == CutsOff /\ booting' = TRUE /\ listed' = {}

\* Another writer, the one that draws the cards, has moved the record on: the
\* save fails and with it the rest of the operation.
SaveConflicts ==
  /\ op.at \in {"queue", "finish", "return", "record"}
  /\ CutsOff /\ UNCHANGED <<booting, listed>>

\* MUTANT of NotBegun: only a game that has no player yet.
NotBegunWithoutPlayers(g) == ~g.begun /\ g.status \in {"active", "resting"} /\ Members(g) = {}

\* A game that waits or is paused is left alone: the continue begins it.
NotBegun(g) == ~g.begun /\ g.status \in {"active", "resting"}

\* A game that never began gets its opening; then deadlines are stopped.
Recover ==
  /\ booting /\ booting' = FALSE
  /\ LET opened == IF NotBegun(game) THEN Begun(game) ELSE game
     IN game' = IF ~Playing THEN game
                ELSE [opened EXCEPT !.status = IF Timed THEN "paused" ELSE @]
  /\ UNCHANGED <<record, op, listed, ended, faults, torn>>

LobbyOperation ==
  \/ Cancel \/ SetPartySize \/ Start
  \/ \E u \in Users : \/ Join(u) \/ JoinFromActivity(u)
                      \/ Leave(u) \/ RemoveMember(u) \/ ChooseHero(u)
  \/ \E u \in Applicants : InviteLobby(u)

RequestOperation ==
  \E u \in Applicants : \/ RequestOngoing(u) \/ WithdrawOngoing(u) \/ InviteOngoing(u)
                        \/ DecideOngoing(u) \/ AcceptInvite(u) \/ RevokeJoin(u)
                        \/ RequestRunsOut(u)

SeatOperation ==
  \/ End \/ Reopen
  \/ \E u \in Users : JoinOngoing(u) \/ ReplaceFallen(u) \/ RetireSeat(u)

\* The rest of an operation that has begun.
OperationStep ==
  \/ StartBegins \/ JoinIsQueued \/ HeroJoins \/ FinishOngoingJoin \/ ReturnQueuedJoin
  \/ MemberRetires \/ SeatIsFreed \/ EndPauses

Next ==
  \/ LobbyOperation \/ RequestOperation \/ SeatOperation \/ OperationStep
  \/ ListQueuedJoins \/ (\E u \in Users : ProcessQueuedJoin(u))
  \/ Table \/ Crash \/ SaveConflicts \/ Recover

\* An operation that has its turn goes on; the worker polls; its place in the
\* queue of operations, first in first out, comes up whoever else lines up.
Fairness ==
  /\ WF_vars(OperationStep) /\ WF_vars(Recover) /\ WF_vars(ListQueuedJoins)
  /\ \A u \in Users : SF_vars(ProcessQueuedJoin(u))

Spec == Init /\ [][Next]_vars
LiveSpec == Spec /\ Fairness

-----------------------------------------------------------------------------
(* Correctness.                                                            *)

\* TypeOK: the two documents and the operation under way are well formed.
TypeOK ==
  /\ record \in Records /\ game \in Games
  /\ \A u \in record.live : record.request[u] # "none"
  /\ op \in [kind : {"none", "start", "join", "replace", "queued", "retire", "end"},
             user : Users \cup {Organizer},
             at : {"none", "begin", "queue", "engine", "finish", "return", "record", "pause"}]
  /\ listed \subseteq Users /\ ended \in BOOLEAN /\ booting \in BOOLEAN
  /\ faults \in Nat /\ torn \subseteq Users

\* NoSeatIsSoldTwice: players with a seat and players who were promised one
\* never outnumber the seats (campaign-lobby-service.ts:583), whatever the
\* order of invitations, approvals, fights, resizing and expiry; only an
\* operation that was cut off between the two documents can bring one too many.
NoSeatIsSoldTwice == faults = 0 => reservedSeats(record) <= record.maxPlayers

\* PartyFits: the table never has more players than the game takes, operations
\* that were cut off included (campaign-lobby-service.ts:429 and 728).
PartyFits == game.made => Cardinality(Members(game)) <= record.maxPlayers

\* HeroesAreUnique: no two seats of a lobby hold the same hero, whoever left,
\* came back or changed their mind (lobby.ts:73 and 132).
HeroesAreUnique ==
  \A u, v \in record.seats : u # v /\ record.hero[u] # NoHero => record.hero[u] # record.hero[v]

\* SeatsInOrder: seats and promises stay within the size of the game, and every
\* seat has a hero of its own.
SeatsInOrder == TypeOK /\ NoSeatIsSoldTwice /\ PartyFits /\ HeroesAreUnique

\* SeatsMatchTheTable: the lobby and the engine name the same players, except
\* one whose operation is under way or was cut off by a crash or a lost save.
SeatsMatchTheTable ==
  game.made => \A u \in Users \ (torn \cup {op.user}) :
                 u \in record.seats <=> game.member[u] # "none"

\* QueuedJoinsAreMade: once the fights are over for good, a hero who waits in
\* the queue of a game being played joins, or is sent back to choose, or the
\* request runs out or is withdrawn; a restart does not lose the place
\* (campaign-lobby-service.ts:476).
SafeBreak == Playing /\ game.fight \in {"none", "untold"}
QueuedJoinsAreMade ==
  \A u \in Users :
    <>[]SafeBreak => (record.request[u] = "queued" /\ u \in record.live
                        ~> record.request[u] # "queued" \/ u \notin record.live)

\* StartedGamesBegin: a game that was started gets its opening, also when the
\* process died between the two steps (campaign-lobby-service.ts:787), unless
\* it is ended, or waits for a continue, which begins it: the recovery leaves a
\* table that nobody is at, or that is paused, alone (campaign-runtime.ts:115).
\* Two faults can lose it: the process dies in the start, the game is ended, the
\* process dies in the end, and the recovery leaves an ended game alone; opened
\* again it is not paused, and nothing begins it.
StartedGamesBegin ==
  (Playing /\ ~game.begun) ~> (game.begun \/ game.status # "active" \/ ~Playing \/ faults > 1)

\* EndedGamesAreStopped: "if it was being played, the engine is paused so no
\* timer or DM job runs on it" (campaign-lobby-service.ts:657).
EndedGamesAreStopped ==
  record.lifecycle = "archived" /\ op = Idle /\ game.made => game.status = "paused"

=============================================================================
