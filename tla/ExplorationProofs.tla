------------------------- MODULE ExplorationProofs -------------------------
(***************************************************************************)
(* Proofs about Exploration for every table: any users, heroes, scenes,    *)
(* pacing and slice of commands.                                           *)
(*                                                                         *)
(* The first part is about the engine's operators.  Setting one field of a *)
(* campaign to a value of its type keeps the campaign's shape (the Set     *)
(* lemmas); every operator is a chain of such steps (the Type lemmas); and *)
(* every operator leaves a table that is in order in order (the rest).     *)
(* The second part is about the table's actions: the inductive invariant   *)
(* is TypeOK and TableInOrder, and each action commits a decision the      *)
(* first part shows to be sound.                                           *)
(* The third part is about single steps: what no step of a table ever does *)
(* to its rounds, its answers and its players' misses.                     *)
(* The fourth part is about what wakes a table: every operator and every   *)
(* action leaves behind, under way, what ends the wait it starts.          *)
(* The fifth part is about votes on scene moves: no operator and no action *)
(* but a player's own Go and the organizer's word moves a table that half  *)
(* of those present keep where it is.                                      *)
(***************************************************************************)
EXTENDS Exploration, FiniteSetTheorems, TLAPS

-----------------------------------------------------------------------------
(* The fields of a campaign.                                               *)

\* A campaign's fields have their types.
LEMMA FieldTypes ==
  ASSUME NEW c \in CampaignStates
  PROVE  /\ c.status \in {"active", "waitingForPlayers"}
         /\ c.pausedBy \in Pausers
         /\ c.hero \in [Users -> Heroes \cup {NoHero}]
         /\ c.away \in SUBSET Users
         /\ c.misses \in [Users -> Nat]
         /\ c.phase \in {"none", "collecting", "planning", "resolving"}
         /\ c.participants \in SUBSET Heroes
         /\ c.submissions \in [Heroes -> Submissions]
         /\ c.planned \in PlannedMoves
         /\ c.plannerFailed \in BOOLEAN
         /\ c.lastRound \in Nat
         /\ c.lastNarrated \in Nat
         /\ c.checks \in [Heroes -> CheckStatus]
         /\ c.scene \in Scenes
         /\ c.pendingMove \in Moves
         /\ c.declined \in Scenes \cup {NoScene}
         /\ c.pendingRest \in Rests
         /\ c.resting \in Rests
         /\ c.opening \in {"undefined", "pending", "waiting", "done"}
         /\ c.ready \in SUBSET Users
BY DEF CampaignStates

\* A campaign with another status is a campaign.
LEMMA SetStatus ==
  ASSUME NEW c \in CampaignStates, NEW x \in {"active", "waitingForPlayers"}
  PROVE  [c EXCEPT !.status = x] \in CampaignStates
BY DEF CampaignStates

\* A campaign with another pausedBy is a campaign.
LEMMA SetPausedBy ==
  ASSUME NEW c \in CampaignStates, NEW x \in Pausers
  PROVE  [c EXCEPT !.pausedBy = x] \in CampaignStates
BY DEF CampaignStates

\* A campaign with another hero is a campaign.
LEMMA SetHero ==
  ASSUME NEW c \in CampaignStates, NEW x \in [Users -> Heroes \cup {NoHero}]
  PROVE  [c EXCEPT !.hero = x] \in CampaignStates
BY DEF CampaignStates

\* A campaign with another away is a campaign.
LEMMA SetAway ==
  ASSUME NEW c \in CampaignStates, NEW x, x \subseteq Users
  PROVE  [c EXCEPT !.away = x] \in CampaignStates
BY DEF CampaignStates

\* A campaign with another misses is a campaign.
LEMMA SetMisses ==
  ASSUME NEW c \in CampaignStates, NEW x \in [Users -> Nat]
  PROVE  [c EXCEPT !.misses = x] \in CampaignStates
BY DEF CampaignStates

\* A campaign with another phase is a campaign.
LEMMA SetPhase ==
  ASSUME NEW c \in CampaignStates, NEW x \in {"none", "collecting", "planning", "resolving"}
  PROVE  [c EXCEPT !.phase = x] \in CampaignStates
BY DEF CampaignStates

\* A campaign with another participants is a campaign.
LEMMA SetParticipants ==
  ASSUME NEW c \in CampaignStates, NEW x, x \subseteq Heroes
  PROVE  [c EXCEPT !.participants = x] \in CampaignStates
BY DEF CampaignStates

\* A campaign with another submissions is a campaign.
LEMMA SetSubmissions ==
  ASSUME NEW c \in CampaignStates, NEW x \in [Heroes -> Submissions]
  PROVE  [c EXCEPT !.submissions = x] \in CampaignStates
BY DEF CampaignStates

\* A campaign with another planned is a campaign.
LEMMA SetPlanned ==
  ASSUME NEW c \in CampaignStates, NEW x \in PlannedMoves
  PROVE  [c EXCEPT !.planned = x] \in CampaignStates
BY DEF CampaignStates

\* A campaign with another plannerFailed is a campaign.
LEMMA SetPlannerFailed ==
  ASSUME NEW c \in CampaignStates, NEW x \in BOOLEAN
  PROVE  [c EXCEPT !.plannerFailed = x] \in CampaignStates
BY DEF CampaignStates

\* A campaign with another lastRound is a campaign.
LEMMA SetLastRound ==
  ASSUME NEW c \in CampaignStates, NEW x \in Nat
  PROVE  [c EXCEPT !.lastRound = x] \in CampaignStates
BY DEF CampaignStates

\* A campaign with another lastNarrated is a campaign.
LEMMA SetLastNarrated ==
  ASSUME NEW c \in CampaignStates, NEW x \in Nat
  PROVE  [c EXCEPT !.lastNarrated = x] \in CampaignStates
BY DEF CampaignStates

\* A campaign with another checks is a campaign.
LEMMA SetChecks ==
  ASSUME NEW c \in CampaignStates, NEW x \in [Heroes -> CheckStatus]
  PROVE  [c EXCEPT !.checks = x] \in CampaignStates
BY DEF CampaignStates

\* A campaign with another scene is a campaign.
LEMMA SetScene ==
  ASSUME NEW c \in CampaignStates, NEW x \in Scenes
  PROVE  [c EXCEPT !.scene = x] \in CampaignStates
BY DEF CampaignStates

\* A campaign with another pendingMove is a campaign.
LEMMA SetPendingMove ==
  ASSUME NEW c \in CampaignStates, NEW x \in Moves
  PROVE  [c EXCEPT !.pendingMove = x] \in CampaignStates
BY DEF CampaignStates

\* A campaign with another declined is a campaign.
LEMMA SetDeclined ==
  ASSUME NEW c \in CampaignStates, NEW x \in Scenes \cup {NoScene}
  PROVE  [c EXCEPT !.declined = x] \in CampaignStates
BY DEF CampaignStates

\* A campaign with another pendingRest is a campaign.
LEMMA SetPendingRest ==
  ASSUME NEW c \in CampaignStates, NEW x \in Rests
  PROVE  [c EXCEPT !.pendingRest = x] \in CampaignStates
BY DEF CampaignStates

\* A campaign with another resting is a campaign.
LEMMA SetResting ==
  ASSUME NEW c \in CampaignStates, NEW x \in Rests
  PROVE  [c EXCEPT !.resting = x] \in CampaignStates
BY DEF CampaignStates

\* A campaign with another opening is a campaign.
LEMMA SetOpening ==
  ASSUME NEW c \in CampaignStates, NEW x \in {"undefined", "pending", "waiting", "done"}
  PROVE  [c EXCEPT !.opening = x] \in CampaignStates
BY DEF CampaignStates

\* A campaign with another ready is a campaign.
LEMMA SetReady ==
  ASSUME NEW c \in CampaignStates, NEW x, x \subseteq Users
  PROVE  [c EXCEPT !.ready = x] \in CampaignStates
BY DEF CampaignStates

\* One user's hero may change.
LEMMA SetHeroAt ==
  ASSUME NEW c \in CampaignStates, NEW u \in Users, NEW h \in Heroes \cup {NoHero}
  PROVE  [c EXCEPT !.hero[u] = h] \in CampaignStates
BY DEF CampaignStates

\* One user's misses may change.
LEMMA SetMissesAt ==
  ASSUME NEW c \in CampaignStates, NEW u \in Users, NEW n \in Nat
  PROVE  [c EXCEPT !.misses[u] = n] \in CampaignStates
BY DEF CampaignStates

\* One hero's answer may change.
LEMMA SetSubmissionsAt ==
  ASSUME NEW c \in CampaignStates, NEW h \in Heroes, NEW s \in Submissions
  PROVE  [c EXCEPT !.submissions[h] = s] \in CampaignStates
BY DEF CampaignStates

\* One hero's check may change.
LEMMA SetChecksAt ==
  ASSUME NEW c \in CampaignStates, NEW h \in Heroes, NEW s \in CheckStatus
  PROVE  [c EXCEPT !.checks[h] = s] \in CampaignStates
BY DEF CampaignStates

\* The objectors of a pending move may change.
LEMMA SetObjectors ==
  ASSUME NEW c \in CampaignStates, NEW x, x \subseteq Users
  PROVE  [c EXCEPT !.pendingMove.objectors = x] \in CampaignStates
BY DEF CampaignStates, Moves

\* The supporters of a pending move may change.
LEMMA SetSupporters ==
  ASSUME NEW c \in CampaignStates, NEW x, x \subseteq Users
  PROVE  [c EXCEPT !.pendingMove.supporters = x] \in CampaignStates
BY DEF CampaignStates, Moves

\* A decision's parts have their types, and keep them one by one.
LEMMA DecisionTypes ==
  ASSUME NEW d \in Decisions
  PROVE  d.state \in CampaignStates /\ d.timers \subseteq Timers /\ d.outbox \subseteq Jobs
BY DEF Decisions

\* A decision may change the campaign.
LEMMA SetState ==
  ASSUME NEW d \in Decisions, NEW c \in CampaignStates
  PROVE  [d EXCEPT !.state = c] \in Decisions
BY DEF Decisions

\* A decision may change the timers.
LEMMA SetTimers ==
  ASSUME NEW d \in Decisions, NEW x, x \subseteq Timers
  PROVE  [d EXCEPT !.timers = x] \in Decisions
BY DEF Decisions

\* A decision may change the outbox.
LEMMA SetOutbox ==
  ASSUME NEW d \in Decisions, NEW x, x \subseteq Jobs
  PROVE  [d EXCEPT !.outbox = x] \in Decisions
BY DEF Decisions

-----------------------------------------------------------------------------
(* Constants of a type.                                                    *)

\* What roundTimerId and rollTimerId name are timers.
LEMMA TimerTypes ==
  ASSUME NEW n \in Nat, NEW h \in Heroes
  PROVE  RoundTimer(n) \in Timers /\ RollTimer(n, h) \in Timers
BY DEF RoundTimer, RollTimer, Timers

\* The jobs the engine requests are jobs.
LEMMA JobTypes ==
  ASSUME NEW n \in Nat
  PROVE  /\ \A kind \in {"plan", "narrate", "narrateOpening"} : JobFor(kind, n) \in Jobs
         /\ \A h \in Heroes, lucky \in BOOLEAN : RollJob(n, h, lucky) \in Jobs
BY DEF JobFor, RollJob, Jobs

\* The empty values of a round and of a move have their types.
LEMMA EmptyTypes ==
  /\ NoSubmissions \in [Heroes -> Submissions]
  /\ NoChecks \in [Heroes -> CheckStatus]
  /\ NoPlannedMove \in PlannedMoves
  /\ NoPendingMove \in Moves
BY DEF NoSubmissions, Submissions, NoChecks, CheckStatus, NoPlannedMove, PlannedMoves,
       NoPendingMove, Moves

\* Present members are users with a hero, and their heroes participate.
LEMMA PresentTypes ==
  ASSUME NEW c \in CampaignStates
  PROVE  /\ Present(c) \subseteq Users
         /\ \A u \in Present(c) : c.hero[u] \in Heroes
         /\ ParticipantsFor(c) \subseteq Heroes
BY FieldTypes DEF ParticipantsFor, Present, Members

-----------------------------------------------------------------------------
(* Every operator keeps the campaign's shape.                              *)

\* Requesting a job keeps a decision's shape.
LEMMA RequestType ==
  ASSUME NEW d \in Decisions, NEW job \in Jobs
  PROVE  Request(d, job) \in Decisions
BY DEF Request, Decisions

\* takeRest keeps the shape.
LEMMA RestTakenType ==
  ASSUME NEW c \in CampaignStates, NEW rest \in Rests
  PROVE  RestTaken(c, rest) \in CampaignStates
<1>1. "none" \in Rests BY DEF Rests
<1> QED BY <1>1, SetPendingRest, SetResting, Zenon DEF RestTaken

\* takeQueuedRest keeps the shape.
LEMMA TakeQueuedRestType ==
  ASSUME NEW c \in CampaignStates, NEW tooSoon \in BOOLEAN
  PROVE  TakeQueuedRest(c, tooSoon) \in CampaignStates
<1>1. c.pendingRest \in Rests /\ "none" \in Rests BY FieldTypes DEF Rests
<1> QED BY <1>1, RestTakenType, SetPendingRest DEF TakeQueuedRest

\* roundOpened keeps the shape.
LEMMA RoundOpenedType ==
  ASSUME NEW c \in CampaignStates
  PROVE  RoundOpened(c) \in CampaignStates
<1>1. ParticipantsFor(c) \subseteq Heroes BY PresentTypes
<1>2. c.lastRound + 1 \in Nat BY FieldTypes
<1> QED BY <1>1, <1>2, EmptyTypes, SetPhase, SetParticipants, SetSubmissions, SetPlanned,
           SetPlannerFailed, SetLastRound, SetChecks, Zenon DEF RoundOpened

\* sceneTransitioned keeps the shape.
LEMMA SceneTransitionedType ==
  ASSUME NEW c \in CampaignStates, NEW scene \in Scenes
  PROVE  SceneTransitioned(c, scene) \in CampaignStates
BY SetScene, SetDeclined, Zenon DEF SceneTransitioned

\* sceneMoveProposed keeps the shape.
LEMMA MoveProposedType ==
  ASSUME NEW c \in CampaignStates, NEW scene \in Scenes, NEW n \in Nat
  PROVE  MoveProposed(c, scene, n) \in CampaignStates
<1>1. [to |-> scene, round |-> n, objectors |-> {}, supporters |-> {}] \in Moves BY DEF Moves
<1> QED BY <1>1, SetPendingMove, Zenon DEF MoveProposed

\* proposeSceneMove keeps the shape.
LEMMA ProposeMoveType ==
  ASSUME NEW c \in CampaignStates, NEW scene \in Scenes
  PROVE  ProposeMove(c, scene) \in CampaignStates
BY MoveProposedType, FieldTypes DEF ProposeMove

\* Settling a move, either way, keeps the shape.
LEMMA SettleType ==
  ASSUME NEW c \in CampaignStates, NEW outcome, c.pendingMove.to # NoScene
  PROVE  Settle(c, outcome) \in CampaignStates
<1>1. c.pendingMove.to \in Scenes BY FieldTypes DEF Moves
<1>2. [c EXCEPT !.pendingMove = NoPendingMove] \in CampaignStates BY EmptyTypes, SetPendingMove
<1>3. SceneTransitioned([c EXCEPT !.pendingMove = NoPendingMove], c.pendingMove.to) \in CampaignStates
  BY <1>1, <1>2, SceneTransitionedType
<1>4. [c EXCEPT !.pendingMove = NoPendingMove, !.declined = c.pendingMove.to] \in CampaignStates
  BY <1>1, <1>2, SetDeclined, Zenon
<1> QED BY <1>3, <1>4, Zenon DEF Settle

\* settleDueMove keeps the shape.
LEMMA SettleDueMoveType ==
  ASSUME NEW c \in CampaignStates
  PROVE  SettleDueMove(c) \in CampaignStates
BY SettleType DEF SettleDueMove

\* roundResolved keeps the shape.
LEMMA RoundResolvedType ==
  ASSUME NEW c \in CampaignStates
  PROVE  RoundResolved(c) \in CampaignStates
BY EmptyTypes, SetPhase, SetParticipants, SetSubmissions, SetPlanned, Zenon DEF RoundResolved

\* roundClosed keeps the shape.
LEMMA RoundClosedType ==
  ASSUME NEW c \in CampaignStates, NEW byTimer \in BOOLEAN
  PROVE  RoundClosed(c, byTimer) \in CampaignStates
<1> DEFINE submissions == [h \in Heroes |-> IF h \in Missed(c) THEN "missed" ELSE c.submissions[h]]
           misses == [u \in Users |->
                       IF byTimer /\ c.hero[u] \in Missed(c) THEN c.misses[u] + 1 ELSE c.misses[u]]
<1>1. submissions \in [Heroes -> Submissions] BY FieldTypes DEF Submissions
<1>2. misses \in [Users -> Nat] BY FieldTypes
<1> HIDE DEF submissions, misses
<1>3. [c EXCEPT !.phase = "planning", !.submissions = submissions, !.misses = misses] \in CampaignStates
  BY <1>1, <1>2, SetPhase, SetSubmissions, SetMisses, Zenon
<1> QED BY <1>3 DEF RoundClosed, submissions, misses

\* markIdleAway keeps the shape.
LEMMA MarkIdleAwayType ==
  ASSUME NEW c \in CampaignStates
  PROVE  MarkIdleAway(c) \in CampaignStates
<1> DEFINE idle == {u \in Present(c) : c.misses[u] >= AwayAfterMisses}
           misses == [u \in Users |-> IF u \in idle THEN 0 ELSE c.misses[u]]
<1>1. misses \in [Users -> Nat] BY FieldTypes
<1>2. c.away \cup idle \subseteq Users BY FieldTypes, PresentTypes
<1>3. [c EXCEPT !.away = c.away \cup idle, !.misses = misses] \in CampaignStates
  <2> HIDE DEF idle, misses
  <2> QED BY <1>1, <1>2, SetAway, SetMisses, Zenon
<1> QED BY <1>3 DEF MarkIdleAway

\* An answer keeps the shape.
LEMMA RespondedType ==
  ASSUME NEW c \in CampaignStates, NEW u \in Users, NEW h \in Heroes, NEW s \in Submissions
  PROVE  Responded(c, u, h, s) \in CampaignStates
<1>1. 0 \in Nat OBVIOUS
<1> QED BY <1>1, SetSubmissionsAt, SetMissesAt, Zenon DEF Responded

\* memberMarkedAway keeps the shape.
LEMMA MemberMarkedAwayType ==
  ASSUME NEW c \in CampaignStates, NEW u \in Users
  PROVE  MemberMarkedAway(c, u) \in CampaignStates
<1>1. 0 \in Nat /\ c.away \cup {u} \subseteq Users BY FieldTypes
<1> QED BY <1>1, SetAway, SetMissesAt, Zenon DEF MemberMarkedAway

\* memberReturned keeps the shape.
LEMMA MemberReturnedType ==
  ASSUME NEW c \in CampaignStates, NEW u \in Users
  PROVE  MemberReturned(c, u) \in CampaignStates
<1>1. 0 \in Nat /\ c.away \ {u} \subseteq Users BY FieldTypes
<1> QED BY <1>1, SetAway, SetMissesAt, Zenon DEF MemberReturned

\* heroRetired keeps the shape.
LEMMA MemberRetiredType ==
  ASSUME NEW c \in CampaignStates, NEW u \in Users
  PROVE  MemberRetired(c, u) \in CampaignStates
<1> DEFINE h == c.hero[u]
           submissions == [g \in Heroes |-> IF g = h THEN "none" ELSE c.submissions[g]]
<1>1. submissions \in [Heroes -> Submissions] BY FieldTypes DEF Submissions
<1>2. /\ 0 \in Nat /\ NoHero \in Heroes \cup {NoHero}
      /\ c.away \ {u} \subseteq Users /\ c.participants \ {h} \subseteq Heroes
      /\ c.pendingMove.objectors \ {u} \subseteq Users
      /\ c.pendingMove.supporters \ {u} \subseteq Users
      /\ c.ready \ {u} \subseteq Users
  BY FieldTypes DEF Moves
<1>3. [c EXCEPT !.hero[u] = NoHero, !.away = @ \ {u}, !.misses[u] = 0,
                !.participants = @ \ {h}, !.submissions = submissions,
                !.pendingMove.objectors = @ \ {u},
                !.pendingMove.supporters = @ \ {u},
                !.ready = @ \ {u}] \in CampaignStates
  <2> HIDE DEF h, submissions
  <2> QED BY <1>1, <1>2, SetHeroAt, SetAway, SetMissesAt, SetParticipants, SetSubmissions,
             SetObjectors, SetSupporters, SetReady, Zenon
<1> QED BY <1>3, Zenon DEF MemberRetired

-----------------------------------------------------------------------------
(* What the operators change of the part of the table that is in order.    *)

\* Two campaigns that differ in nothing InOrder looks at.
SameTable(c, e) ==
  /\ e.status = c.status /\ e.pausedBy = c.pausedBy
  /\ e.hero = c.hero /\ e.away = c.away
  /\ e.phase = c.phase /\ e.participants = c.participants
  /\ e.submissions = c.submissions /\ e.checks = c.checks /\ e.lastRound = c.lastRound

\* What keeps the table as it is keeps it in order.
LEMMA SameTableInOrder ==
  ASSUME NEW c, NEW e, NEW T, SameTable(c, e)
  PROVE  /\ Consistent(c, T) => Consistent(e, T)
         /\ InOrder(c, T) => InOrder(e, T)
         /\ Present(e) = Present(c)
         /\ ParticipantsFor(e) = ParticipantsFor(c)
         /\ HeldTimers(e) = HeldTimers(c)
<1>1. Present(e) = Present(c) /\ ParticipantsFor(e) = ParticipantsFor(c)
  BY DEF SameTable, Present, Members, ParticipantsFor
<1>2. HeldTimers(e) = HeldTimers(c) BY DEF SameTable, HeldTimers
<1>3. OpenSlots(e) = OpenSlots(c) BY DEF SameTable, OpenSlots
<1>4. Consistent(c, T) => Consistent(e, T) BY <1>2 DEF SameTable, Consistent
<1>5. InOrder(c, T) => InOrder(e, T)
  BY <1>1, <1>3, <1>4 DEF SameTable, InOrder, SlotsOpen, OnlyPausesHoldRounds
<1> QED BY <1>1, <1>2, <1>4, <1>5

\* Two such steps make one.
LEMMA SameTableTransitive ==
  ASSUME NEW c, NEW e, NEW f, SameTable(c, e), SameTable(e, f)
  PROVE  SameTable(c, f)
BY DEF SameTable

\* A queued rest leaves the table as it is.
LEMMA TakeQueuedRestTable ==
  ASSUME NEW c \in CampaignStates, NEW tooSoon \in BOOLEAN
  PROVE  SameTable(c, TakeQueuedRest(c, tooSoon))
<1>1. SameTable(c, [c EXCEPT !.pendingRest = "none"]) BY DEF CampaignStates, SameTable
<1>2. SameTable(c, RestTaken(c, c.pendingRest)) BY DEF CampaignStates, SameTable, RestTaken
<1>3. SameTable(c, c) BY DEF SameTable
<1> QED BY <1>1, <1>2, <1>3, Zenon DEF TakeQueuedRest

\* A new scene leaves the table as it is.
LEMMA SceneTransitionedTable ==
  ASSUME NEW c \in CampaignStates, NEW scene
  PROVE  SameTable(c, SceneTransitioned(c, scene))
BY DEF CampaignStates, SameTable, SceneTransitioned

\* A proposed move leaves the table as it is.
LEMMA MoveProposedTable ==
  ASSUME NEW c \in CampaignStates, NEW scene, NEW n
  PROVE  SameTable(c, MoveProposed(c, scene, n))
BY DEF CampaignStates, SameTable, MoveProposed

\* proposeSceneMove leaves the table as it is.
LEMMA ProposeMoveTable ==
  ASSUME NEW c \in CampaignStates, NEW scene
  PROVE  SameTable(c, ProposeMove(c, scene))
<1>1. SameTable(c, c) BY DEF SameTable
<1> QED BY <1>1, MoveProposedTable, Zenon DEF ProposeMove

\* Settling a move leaves the table as it is.
LEMMA SettleTable ==
  ASSUME NEW c \in CampaignStates, NEW outcome
  PROVE  SameTable(c, Settle(c, outcome))
<1> DEFINE e == [c EXCEPT !.pendingMove = NoPendingMove]
<1>1. SameTable(c, [c EXCEPT !.pendingMove = NoPendingMove, !.declined = c.pendingMove.to])
  BY DEF CampaignStates, SameTable
<1>2. e \in CampaignStates BY EmptyTypes, SetPendingMove
<1>3. SameTable(c, e) BY DEF CampaignStates, SameTable
<1>4. SameTable(c, SceneTransitioned(e, c.pendingMove.to))
  BY <1>2, <1>3, SceneTransitionedTable, SameTableTransitive, Zenon
<1> QED BY <1>1, <1>4, Zenon DEF Settle

\* settleDueMove leaves the table as it is.
LEMMA SettleDueMoveTable ==
  ASSUME NEW c \in CampaignStates
  PROVE  SameTable(c, SettleDueMove(c))
<1>1. SameTable(c, c) BY DEF SameTable
<1> QED BY <1>1, SettleTable, Zenon DEF SettleDueMove

\* A round that opens collects from everybody present, and nothing is rolled.
LEMMA RoundOpenedTable ==
  ASSUME NEW c \in CampaignStates
  PROVE  LET e == RoundOpened(c) IN
         /\ e.status = c.status /\ e.pausedBy = c.pausedBy
         /\ e.hero = c.hero /\ e.away = c.away
         /\ e.phase = "collecting" /\ e.participants = ParticipantsFor(c)
         /\ e.submissions = NoSubmissions /\ e.checks = NoChecks
         /\ e.lastRound = c.lastRound + 1
BY DEF CampaignStates, RoundOpened

\* The end of a round changes the round and no member.
LEMMA RoundResolvedTable ==
  ASSUME NEW c \in CampaignStates
  PROVE  LET e == RoundResolved(c) IN
         /\ e.status = c.status /\ e.pausedBy = c.pausedBy
         /\ e.hero = c.hero /\ e.away = c.away
         /\ e.phase = "none" /\ e.checks = c.checks /\ e.lastRound = c.lastRound
BY DEF CampaignStates, RoundResolved

\* Closing a round changes the round and no member.
LEMMA RoundClosedTable ==
  ASSUME NEW c \in CampaignStates, NEW byTimer
  PROVE  LET e == RoundClosed(c, byTimer) IN
         /\ e.status = c.status /\ e.pausedBy = c.pausedBy
         /\ e.hero = c.hero /\ e.away = c.away
         /\ e.phase = "planning" /\ e.checks = c.checks /\ e.lastRound = c.lastRound
BY DEF CampaignStates, RoundClosed

\* markIdleAway takes present members away and leaves the round.
LEMMA MarkIdleAwayTable ==
  ASSUME NEW c \in CampaignStates
  PROVE  LET e == MarkIdleAway(c) IN
         /\ e.status = c.status /\ e.pausedBy = c.pausedBy /\ e.hero = c.hero
         /\ e.phase = c.phase /\ e.participants = c.participants
         /\ e.submissions = c.submissions /\ e.checks = c.checks /\ e.lastRound = c.lastRound
BY DEF CampaignStates, MarkIdleAway

\* An answer fills one slot and changes nothing else of the table.
LEMMA RespondedTable ==
  ASSUME NEW c \in CampaignStates, NEW u \in Users, NEW h \in Heroes, NEW s
  PROVE  LET e == Responded(c, u, h, s) IN
         /\ e.status = c.status /\ e.pausedBy = c.pausedBy
         /\ e.hero = c.hero /\ e.away = c.away
         /\ e.phase = c.phase /\ e.participants = c.participants
         /\ e.submissions = [c.submissions EXCEPT ![h] = s]
         /\ e.checks = c.checks /\ e.lastRound = c.lastRound
BY DEF CampaignStates, Responded

\* A member marked away is away and nothing else changes.
LEMMA MemberMarkedAwayTable ==
  ASSUME NEW c \in CampaignStates, NEW u \in Users
  PROVE  LET e == MemberMarkedAway(c, u) IN
         /\ e.status = c.status /\ e.pausedBy = c.pausedBy
         /\ e.hero = c.hero /\ e.away = c.away \cup {u}
         /\ e.phase = c.phase /\ e.participants = c.participants
         /\ e.submissions = c.submissions /\ e.checks = c.checks /\ e.lastRound = c.lastRound
BY DEF CampaignStates, MemberMarkedAway

\* A returned member is back and nothing else changes.
LEMMA MemberReturnedTable ==
  ASSUME NEW c \in CampaignStates, NEW u \in Users
  PROVE  LET e == MemberReturned(c, u) IN
         /\ e.status = c.status /\ e.pausedBy = c.pausedBy
         /\ e.hero = c.hero /\ e.away = c.away \ {u}
         /\ e.phase = c.phase /\ e.participants = c.participants
         /\ e.submissions = c.submissions /\ e.checks = c.checks /\ e.lastRound = c.lastRound
BY DEF CampaignStates, MemberReturned

\* A retired member has no hero and no slot.
LEMMA MemberRetiredTable ==
  ASSUME NEW c \in CampaignStates, NEW u \in Users
  PROVE  LET e == MemberRetired(c, u) IN
         /\ e.status = c.status /\ e.pausedBy = c.pausedBy
         /\ e.hero = [c.hero EXCEPT ![u] = NoHero] /\ e.away = c.away \ {u}
         /\ e.phase = c.phase /\ e.participants = c.participants \ {c.hero[u]}
         /\ e.submissions =
              [g \in Heroes |-> IF g = c.hero[u] THEN "none" ELSE c.submissions[g]]
         /\ e.checks = c.checks /\ e.lastRound = c.lastRound
BY DEF CampaignStates, MemberRetired

-----------------------------------------------------------------------------
(* Windows, pause and waiting.                                             *)

\* A decision a handler may start from, and may end in.
Sound(d) == d \in Decisions /\ InOrder(d.state, d.timers)

\* The timers the table's windows hold are timers.
LEMMA HeldTimersType ==
  ASSUME NEW c \in CampaignStates
  PROVE  HeldTimers(c) \subseteq Timers
<1> DEFINE n == c.lastRound
           round == IF c.phase = "collecting" THEN {RoundTimer(n)} ELSE {}
           rolls == {RollTimer(n, h) : h \in {g \in Heroes : c.checks[g] = "pending"}}
<1>1. n \in Nat BY FieldTypes
<1>2. round \subseteq Timers BY <1>1 DEF RoundTimer, Timers
<1>3. rolls \subseteq Timers BY <1>1 DEF RollTimer, Timers
<1> QED BY <1>2, <1>3, Zenon DEF HeldTimers

\* A table between rounds or planning holds no timer.
LEMMA NothingHeld ==
  ASSUME NEW c, NEW T, Consistent(c, T), c.phase \notin {"collecting", "resolving"}
  PROVE  T = {}
BY DEF Consistent, HeldTimers

\* pauseCampaign cancels what the windows hold and keeps the round.
LEMMA PauseCampaignTable ==
  ASSUME NEW d \in Decisions, NEW reason \in Pausers
  PROVE  LET e == PauseCampaign(d, reason) IN
         /\ e \in Decisions
         /\ e.timers = d.timers \ HeldTimers(d.state)
         /\ e.state.status = "waitingForPlayers" /\ e.state.pausedBy = reason
         /\ e.state.hero = d.state.hero /\ e.state.away = d.state.away
         /\ e.state.phase = d.state.phase /\ e.state.participants = d.state.participants
         /\ e.state.submissions = d.state.submissions /\ e.state.checks = d.state.checks
         /\ e.state.lastRound = d.state.lastRound
<1> DEFINE e == PauseCampaign(d, reason)
<1>1. d.state \in CampaignStates /\ d.timers \ HeldTimers(d.state) \subseteq Timers
  BY DecisionTypes
<1>2. e \in Decisions
  <2>1. [d.state EXCEPT !.status = "waitingForPlayers"] \in CampaignStates BY <1>1, SetStatus
  <2>2. [d.state EXCEPT !.status = "waitingForPlayers", !.pausedBy = reason] \in CampaignStates
    BY <2>1, SetPausedBy, Zenon
  <2> QED BY <1>1, <2>2 DEF PauseCampaign, Decisions
<1>3. e.timers = d.timers \ HeldTimers(d.state) BY DEF PauseCampaign, Decisions
<1>4. e.state = [d.state EXCEPT !.status = "waitingForPlayers", !.pausedBy = reason]
  BY DEF PauseCampaign, Decisions
<1> QED BY <1>1, <1>2, <1>3, <1>4 DEF CampaignStates

\* pauseCampaign, from any consistent decision, is sound.
LEMMA PauseCampaignSound ==
  ASSUME NEW d \in Decisions, NEW reason \in Pausers, Consistent(d.state, d.timers),
         SlotsOpen(d.state), d.state.phase = "collecting" => reason # "nobody"
  PROVE  Sound(PauseCampaign(d, reason))
<1> DEFINE e == PauseCampaign(d, reason)
<1>1. /\ e \in Decisions
      /\ e.timers = {}
      /\ e.state.status = "waitingForPlayers" /\ e.state.pausedBy = reason
      /\ e.state.hero = d.state.hero /\ e.state.away = d.state.away
      /\ e.state.phase = d.state.phase /\ e.state.participants = d.state.participants
      /\ e.state.submissions = d.state.submissions /\ e.state.checks = d.state.checks
      /\ e.state.lastRound = d.state.lastRound
  BY PauseCampaignTable DEF Consistent
<1>2. Consistent(e.state, e.timers) BY <1>1 DEF Consistent
<1>3. SlotsOpen(e.state) BY <1>1 DEF SlotsOpen, OpenSlots, ParticipantsFor, Present, Members
<1> HIDE DEF e
<1>4. Sound(e) BY <1>1, <1>2, <1>3 DEF Sound, InOrder, OnlyPausesHoldRounds
<1> QED BY <1>4 DEF e

\* enterWaiting outside a collecting round is sound.
LEMMA EnterWaitingSound ==
  ASSUME NEW d \in Decisions, Consistent(d.state, d.timers), d.state.phase # "collecting"
  PROVE  Sound(EnterWaiting(d))
<1>1. CASE d.state.status = "waitingForPlayers"
  BY <1>1 DEF EnterWaiting, Sound, InOrder, SlotsOpen, OnlyPausesHoldRounds
<1>2. CASE d.state.status # "waitingForPlayers"
  <2>1. EnterWaiting(d) = PauseCampaign(d, "nobody")
    BY <1>2 DEF EnterWaiting, PauseCampaign
  <2> QED BY <2>1, PauseCampaignSound DEF SlotsOpen, Pausers
<1> QED BY <1>1, <1>2

-----------------------------------------------------------------------------
(* Opening and closing rounds.                                             *)

\* beginRound on a still table with somebody present is sound.
LEMMA BeginRoundSound ==
  ASSUME NEW d \in Decisions, Consistent(d.state, d.timers), d.timers = {},
         d.state.status = "active", Present(d.state) # {}
  PROVE  Sound(BeginRound(d))
<1> DEFINE c == d.state
           e == BeginRound(d)
           T == IF RoundTimed THEN {RoundTimer(c.lastRound + 1)} ELSE {}
<1>1. c \in CampaignStates BY DecisionTypes
<1>2. c.lastRound + 1 \in Nat BY <1>1, FieldTypes
<1>3. T \subseteq Timers BY <1>2 DEF RoundTimer, Timers
<1>4. e = [d EXCEPT !.state = RoundOpened(c), !.timers = T] BY DEF BeginRound
<1>5. e \in Decisions /\ e.state = RoundOpened(c) /\ e.timers = T
  <2> HIDE DEF T, e
  <2>1. RoundOpened(c) \in CampaignStates BY <1>1, RoundOpenedType
  <2> QED BY <1>3, <1>4, <2>1 DEF Decisions
<1>6. /\ e.state.status = "active" /\ e.state.pausedBy = c.pausedBy
      /\ e.state.hero = c.hero /\ e.state.away = c.away
      /\ e.state.phase = "collecting" /\ e.state.participants = ParticipantsFor(c)
      /\ e.state.submissions = NoSubmissions /\ e.state.checks = NoChecks
      /\ e.state.lastRound = c.lastRound + 1
  BY <1>1, <1>5, RoundOpenedTable
<1>7. ParticipantsFor(e.state) = ParticipantsFor(c) /\ Present(e.state) = Present(c)
  BY <1>6 DEF ParticipantsFor, Present, Members
<1>8. T \subseteq HeldTimers(e.state) BY <1>6 DEF HeldTimers
<1> HIDE DEF e, T
<1>9. Consistent(e.state, e.timers)
  <2>1. e.state.lastRound > 0 BY <1>1, <1>6, FieldTypes
  <2> QED BY <1>5, <1>6, <1>8, <2>1 DEF Consistent, NoChecks
<1>10. SlotsOpen(e.state)
  <2>1. ParticipantsFor(c) \subseteq Heroes BY <1>1, PresentTypes
  <2>2. OpenSlots(e.state) = ParticipantsFor(c) BY <1>6, <2>1 DEF OpenSlots, NoSubmissions
  <2>3. ParticipantsFor(c) # {} BY DEF ParticipantsFor
  <2> QED BY <1>7, <2>2, <2>3 DEF SlotsOpen
<1>11. Present(e.state) # {} BY <1>7
<1>12. Sound(e)
  BY <1>5, <1>6, <1>9, <1>10, <1>11 DEF Sound, InOrder, OnlyPausesHoldRounds, Consistent
<1> QED BY <1>12 DEF e

\* openRound is sound, whichever way it goes.
LEMMA OpenRoundSound ==
  ASSUME NEW d, NEW bySystem \in BOOLEAN, NEW tooSoon \in BOOLEAN,
         Sound(d)
  PROVE  Sound(OpenRound(d, bySystem, tooSoon))
<1> DEFINE rested == [d EXCEPT !.state = TakeQueuedRest(@, tooSoon)]
           c == rested.state
<1>1. d \in Decisions /\ d.state \in CampaignStates BY DecisionTypes DEF Sound
<1>2. rested \in Decisions /\ c = TakeQueuedRest(d.state, tooSoon) /\ rested.timers = d.timers
  <2>1. TakeQueuedRest(d.state, tooSoon) \in CampaignStates BY <1>1, TakeQueuedRestType
  <2> QED BY <1>1, <2>1 DEF Decisions
<1>3. SameTable(d.state, c) BY <1>1, <1>2, TakeQueuedRestTable
<1> HIDE DEF rested
<1>4. Consistent(c, rested.timers) /\ InOrder(c, rested.timers)
  BY <1>2, <1>3, SameTableInOrder DEF Sound, InOrder
<1>5. CASE d.state.status = "waitingForPlayers" \/ d.state.phase # "none"
  BY <1>5 DEF OpenRound
<1>6. CASE ~(d.state.status = "waitingForPlayers" \/ d.state.phase # "none")
  <2>1. c.status = "active" /\ c.phase = "none"
    BY <1>1, <1>3, <1>6, FieldTypes DEF SameTable
  <2>2. rested.timers = {} BY <1>4, <2>1, NothingHeld
  <2>3. Present(c) # {} BY <1>4, <2>1 DEF InOrder
  <2>4. Sound(BeginRound(rested))
    BY <1>2, <1>4, <2>1, <2>2, <2>3, BeginRoundSound
  <2>5. Sound(EnterWaiting(rested))
    BY <1>2, <1>4, <2>1, EnterWaitingSound
  <2>6. OpenRound(d, bySystem, tooSoon) \in {rested, BeginRound(rested), EnterWaiting(rested)}
    BY <1>6 DEF OpenRound, rested
  <2> QED BY <1>2, <1>4, <2>4, <2>5, <2>6 DEF Sound
<1> QED BY <1>5, <1>6

\* finishReadyCheck is sound.
LEMMA FinishReadyCheckSound ==
  ASSUME NEW d, NEW bySystem \in BOOLEAN, NEW tooSoon \in BOOLEAN,
         Sound(d)
  PROVE  Sound(FinishReadyCheck(d, bySystem, tooSoon))
<1> DEFINE opened == [d EXCEPT !.state.opening = "done"]
<1>1. d \in Decisions /\ d.state \in CampaignStates BY DecisionTypes DEF Sound
<1>2. [d.state EXCEPT !.opening = "done"] \in CampaignStates BY <1>1, SetOpening
<1>3. opened \in Decisions /\ opened.state = [d.state EXCEPT !.opening = "done"]
        /\ opened.timers = d.timers
  BY <1>1, <1>2 DEF Decisions
<1>4. SameTable(d.state, [d.state EXCEPT !.opening = "done"])
  BY <1>1 DEF CampaignStates, SameTable
<1> HIDE DEF opened
<1>5. Sound(opened) BY <1>3, <1>4, SameTableInOrder DEF Sound
<1>6. Sound(OpenRound(opened, bySystem, tooSoon))
  BY <1>5, OpenRoundSound
<1>7. FinishReadyCheck(d, bySystem, tooSoon) \in {d, OpenRound(opened, bySystem, tooSoon)}
  BY DEF FinishReadyCheck, opened
<1> QED BY <1>6, <1>7

\* A round that closes leaves the table in order whichever way it goes: to the
\* Planner, to the next round, or to a table that waits for players.
LEMMA CloseRoundSound ==
  ASSUME NEW d \in Decisions, NEW byTimer \in BOOLEAN, Consistent(d.state, d.timers),
         d.state.phase = "collecting", d.state.status = "active",
         byTimer => RoundTimer(d.state.lastRound) \notin d.timers
  PROVE  Sound(CloseRound(d, byTimer))
<1> DEFINE n == d.state.lastRound
           c1 == RoundClosed(d.state, byTimer)
           c2 == SettleDueMove(c1)
           c3 == MarkIdleAway(c2)
           T == IF byTimer THEN d.timers ELSE d.timers \ {RoundTimer(n)}
           closed == [d EXCEPT
             !.timers = IF byTimer THEN @ ELSE @ \ {RoundTimer(n)},
             !.state = MarkIdleAway(SettleDueMove(RoundClosed(@, byTimer)))]
           quiet == [closed EXCEPT !.state = RoundResolved(@)]
<1>1. d.state \in CampaignStates /\ d.timers \subseteq Timers BY DecisionTypes
<1>2. c1 \in CampaignStates /\ c2 \in CampaignStates /\ c3 \in CampaignStates
  BY <1>1, RoundClosedType, SettleDueMoveType, MarkIdleAwayType
<1>3. RoundResolved(c3) \in CampaignStates BY <1>2, RoundResolvedType
<1>4. /\ closed \in Decisions /\ closed.state = c3 /\ closed.timers = T
      /\ quiet \in Decisions /\ quiet.state = RoundResolved(c3) /\ quiet.timers = T
  <2>1. closed = [d EXCEPT !.timers = T, !.state = c3] OBVIOUS
  <2>2. T \subseteq Timers BY <1>1
  <2> HIDE DEF closed, T, c3
  <2>3. closed \in Decisions /\ closed.state = c3 /\ closed.timers = T
    BY <1>2, <2>1, <2>2 DEF Decisions
  <2> QED BY <1>3, <2>3 DEF Decisions
<1>5. /\ c3.status = "active" /\ c3.pausedBy = d.state.pausedBy /\ c3.hero = d.state.hero
      /\ c3.phase = "planning" /\ c3.checks = d.state.checks /\ c3.lastRound = n
  <2>1. /\ c1.status = "active" /\ c1.pausedBy = d.state.pausedBy /\ c1.hero = d.state.hero
        /\ c1.phase = "planning" /\ c1.checks = d.state.checks /\ c1.lastRound = n
    BY <1>1, RoundClosedTable
  <2>2. SameTable(c1, c2) BY <1>2, SettleDueMoveTable
  <2> HIDE DEF c1, c2, c3
  <2>3. /\ c3.status = c2.status /\ c3.pausedBy = c2.pausedBy /\ c3.hero = c2.hero
        /\ c3.phase = c2.phase /\ c3.checks = c2.checks /\ c3.lastRound = c2.lastRound
    BY <1>2, MarkIdleAwayTable DEF c3
  <2> QED BY <2>1, <2>2, <2>3 DEF SameTable
<1>6. /\ quiet.state.status = "active" /\ quiet.state.pausedBy = d.state.pausedBy
      /\ quiet.state.hero = d.state.hero /\ quiet.state.phase = "none"
      /\ quiet.state.checks = d.state.checks
      /\ Present(quiet.state) = Present(c3)
  <2> HIDE DEF c3
  <2> QED BY <1>2, <1>4, <1>5, RoundResolvedTable DEF Present, Members
\* Nothing is rolled while a round collects, so its timer was the only one.
<1>7. T = {} BY DEF Consistent, HeldTimers
<1> HIDE DEF c1, c2, c3, T, closed, quiet
<1>8. Consistent(closed.state, closed.timers) BY <1>4, <1>5, <1>7 DEF Consistent
<1>9. Consistent(quiet.state, quiet.timers) BY <1>4, <1>6, <1>7 DEF Consistent
<1>10. Sound(EnterWaiting(closed)) BY <1>4, <1>5, <1>8, EnterWaitingSound
<1>11. Sound(EnterWaiting(quiet)) BY <1>4, <1>6, <1>9, EnterWaitingSound
<1>12. ASSUME Present(c3) # {} PROVE Sound(BeginRound(quiet))
  BY <1>4, <1>6, <1>7, <1>9, <1>12, BeginRoundSound
<1>13. ASSUME Present(c3) # {} PROVE Sound(quiet)
  BY <1>4, <1>6, <1>9, <1>13 DEF Sound, InOrder, SlotsOpen, OnlyPausesHoldRounds
<1>14. ASSUME Present(c3) # {} PROVE Sound(Request(closed, JobFor("plan", n)))
  <2> DEFINE e == Request(closed, JobFor("plan", n))
  <2>1. JobFor("plan", n) \in Jobs BY <1>1, FieldTypes, JobTypes
  <2>2. e \in Decisions BY <1>4, <2>1, RequestType
  <2>3. e.state = closed.state /\ e.timers = closed.timers BY <1>4 DEF Request, Decisions
  <2> HIDE DEF e
  <2>4. Sound(e)
    BY <1>4, <1>5, <1>8, <1>14, <2>2, <2>3 DEF Sound, InOrder, SlotsOpen, OnlyPausesHoldRounds
  <2> QED BY <2>4 DEF e
<1>15. CloseRound(d, byTimer) =
         IF HasActions(d.state)
         THEN IF Present(closed.state) = {} THEN EnterWaiting(closed)
              ELSE Request(closed, JobFor("plan", n))
         ELSE IF Present(closed.state) = {} THEN EnterWaiting(quiet)
              ELSE IF d.state.pausedBy = "nobody" THEN BeginRound(quiet)
              ELSE quiet
  BY DEF CloseRound, closed, quiet
<1> QED BY <1>4, <1>10, <1>11, <1>12, <1>13, <1>14, <1>15

\* closeIfEveryoneResponded is sound when only present players are waited for.
LEMMA CloseIfEveryoneRespondedSound ==
  ASSUME NEW d \in Decisions, Consistent(d.state, d.timers),
         d.state.phase = "collecting" =>
           d.state.status = "active" /\ OpenSlots(d.state) \subseteq ParticipantsFor(d.state)
  PROVE  LET e == CloseIfEveryoneResponded(d) IN
         \/ Sound(e)
         \/ e = d /\ SlotsOpen(d.state) /\ OnlyPausesHoldRounds(d.state)
<1>1. CASE /\ d.state.phase = "collecting"
           /\ \A h \in d.state.participants : d.state.submissions[h] # "none"
  <2>1. Sound(CloseRound(d, FALSE)) BY <1>1, CloseRoundSound
  <2> QED BY <1>1, <2>1 DEF CloseIfEveryoneResponded
<1>2. CASE ~ /\ d.state.phase = "collecting"
             /\ \A h \in d.state.participants : d.state.submissions[h] # "none"
  <2>1. CloseIfEveryoneResponded(d) = d BY <1>2 DEF CloseIfEveryoneResponded
  <2>2. SlotsOpen(d.state) BY <1>2 DEF SlotsOpen, OpenSlots
  <2>3. OnlyPausesHoldRounds(d.state) BY DEF OnlyPausesHoldRounds
  <2> QED BY <2>1, <2>2, <2>3
<1> QED BY <1>1, <1>2

-----------------------------------------------------------------------------
(* The plan and the dice.                                                  *)

\* Requesting a job is sound.
LEMMA RequestSound ==
  ASSUME NEW d, NEW job \in Jobs, Sound(d)
  PROVE  Sound(Request(d, job))
<1> DEFINE e == Request(d, job)
<1>1. d \in Decisions BY DEF Sound
<1>2. e \in Decisions BY <1>1, RequestType
<1>3. e.state = d.state /\ e.timers = d.timers BY <1>1 DEF Request, Decisions
<1> HIDE DEF e
<1>4. Sound(e) BY <1>2, <1>3 DEF Sound
<1> QED BY <1>4 DEF e

\* A change of the state nobody at the table notices.
LEMMA SameTableSound ==
  ASSUME NEW d, NEW c \in CampaignStates, Sound(d), SameTable(d.state, c)
  PROVE  Sound([d EXCEPT !.state = c])
<1> DEFINE e == [d EXCEPT !.state = c]
<1>1. d \in Decisions BY DEF Sound
<1>2. e \in Decisions BY <1>1, SetState
<1>3. e.state = c /\ e.timers = d.timers BY <1>1 DEF Decisions
<1> HIDE DEF e
<1>4. Sound(e) BY <1>2, <1>3, SameTableInOrder DEF Sound
<1> QED BY <1>4 DEF e

\* finishRoundIfResolved is sound.
LEMMA FinishRoundIfResolvedSound ==
  ASSUME NEW d, NEW fired \in BOOLEAN, Sound(d)
  PROVE  Sound(FinishRoundIfResolved(d, fired))
<1> DEFINE c == d.state
           move == c.planned
           moved == IF move.to = NoScene \/ ~fired THEN c
                    ELSE IF move.forced THEN SceneTransitioned(c, move.to)
                    ELSE ProposeMove(c, move.to)
           done == /\ c.status = "active" /\ c.phase = "resolving"
                   /\ \A h \in Heroes : c.checks[h] \in {"none", "resolved"}
           e == [d EXCEPT !.state = RoundResolved(moved)]
<1>1. d \in Decisions /\ c \in CampaignStates /\ d.timers \subseteq Timers
  BY DecisionTypes DEF Sound
<1>2. move.to = NoScene \/ move.to \in Scenes BY <1>1, FieldTypes DEF PlannedMoves
<1>3. moved \in CampaignStates BY <1>1, <1>2, SceneTransitionedType, ProposeMoveType
<1>4. SameTable(c, moved)
  <2>1. SameTable(c, c) BY DEF SameTable
  <2> QED BY <1>1, <2>1, SceneTransitionedTable, ProposeMoveTable, Zenon
<1> HIDE DEF moved
<1>5. ASSUME done PROVE Sound(e)
  <2>1. RoundResolved(moved) \in CampaignStates BY <1>3, RoundResolvedType
  <2>2. e \in Decisions /\ e.state = RoundResolved(moved) /\ e.timers = d.timers
    BY <1>1, <2>1 DEF Decisions
  <2>3. d.timers = {} BY <1>5 DEF Sound, InOrder, Consistent, HeldTimers
  <2>4. /\ e.state.status = c.status /\ e.state.pausedBy = c.pausedBy
        /\ e.state.hero = c.hero /\ e.state.away = c.away
        /\ e.state.phase = "none" /\ e.state.checks = c.checks
    BY <1>3, <1>4, <2>2, RoundResolvedTable DEF SameTable
  <2> HIDE DEF e
  <2>5. Consistent(e.state, e.timers)
    BY <1>5, <2>2, <2>3, <2>4 DEF Consistent, Sound, InOrder
  <2>6. Present(e.state) # {} BY <1>5, <2>4 DEF Sound, InOrder, Present, Members
  <2> QED BY <2>2, <2>4, <2>5, <2>6 DEF Sound, InOrder, SlotsOpen, OnlyPausesHoldRounds
<1>6. ASSUME done PROVE Sound(Request(e, JobFor("narrate", c.lastRound)))
  <2>1. JobFor("narrate", c.lastRound) \in Jobs BY <1>1, FieldTypes, JobTypes
  <2> QED BY <1>5, <1>6, <2>1, RequestSound
<1>7. FinishRoundIfResolved(d, fired) =
        IF done THEN Request(e, JobFor("narrate", c.lastRound)) ELSE d
  BY DEF FinishRoundIfResolved, moved
<1> QED BY <1>6, <1>7

\* applyRoundPlan on the round it was made for is sound.
LEMMA ApplyRoundPlanSound ==
  ASSUME NEW d, NEW called \in SUBSET Heroes, NEW move \in PlannedMoves, NEW fired \in BOOLEAN,
         Sound(d), d.state.phase = "planning", d.state.status = "active"
  PROVE  Sound(ApplyRoundPlan(d, called, move, fired))
<1> DEFINE n == d.state.lastRound
           checks == [h \in Heroes |-> IF h \in called THEN "pending" ELSE d.state.checks[h]]
           armed == IF RollTimed THEN d.timers \cup {RollTimer(n, h) : h \in called} ELSE d.timers
           c == [d.state EXCEPT !.phase = "resolving", !.planned = move, !.checks = checks]
           planned == [d EXCEPT !.state = c, !.timers = armed]
<1>1. d \in Decisions /\ d.state \in CampaignStates /\ d.timers \subseteq Timers
  BY DecisionTypes DEF Sound
<1>2. c \in CampaignStates
  <2>1. checks \in [Heroes -> CheckStatus] BY <1>1, FieldTypes DEF CheckStatus
  <2> HIDE DEF checks
  <2> QED BY <1>1, <2>1, SetPhase, SetPlanned, SetChecks, Zenon
<1>3. armed \subseteq Timers
  <2>1. n \in Nat BY <1>1, FieldTypes
  <2> QED BY <1>1, <2>1 DEF RollTimer, Timers
<1>4. /\ c.status = "active" /\ c.pausedBy = d.state.pausedBy
      /\ c.hero = d.state.hero /\ c.away = d.state.away
      /\ c.phase = "resolving" /\ c.checks = checks /\ c.lastRound = n
  <2> HIDE DEF checks
  <2> QED BY <1>1 DEF CampaignStates
<1>5. planned \in Decisions /\ planned.state = c /\ planned.timers = armed
  <2> HIDE DEF c, armed
  <2> QED BY <1>1, <1>2, <1>3 DEF Decisions
<1>6. d.timers = {} BY NothingHeld DEF Sound, InOrder
<1>7. armed \subseteq HeldTimers(c)
  <2> HIDE DEF c
  <2> QED BY <1>4, <1>6 DEF HeldTimers
<1> HIDE DEF c, armed, checks
<1>8. Consistent(c, armed) BY <1>4, <1>7 DEF Consistent, Sound, InOrder
<1>9. Present(c) # {} BY <1>4 DEF Sound, InOrder, Present, Members
<1>10. Sound(planned)
  BY <1>4, <1>5, <1>8, <1>9 DEF Sound, InOrder, SlotsOpen, OnlyPausesHoldRounds
<1>11. ApplyRoundPlan(d, called, move, fired) = FinishRoundIfResolved(planned, fired)
  BY <1>1 DEF ApplyRoundPlan, planned, c, armed, checks
<1> QED BY <1>10, <1>11, FinishRoundIfResolvedSound

\* Rolling takes a check's timer with it, unless that timer is what fired.
LEMMA StartRollsTable ==
  ASSUME NEW d \in Decisions, NEW rollers \in SUBSET Heroes, NEW byTimer \in BOOLEAN,
         Consistent(d.state, d.timers),
         byTimer => \A h \in rollers : RollTimer(d.state.lastRound, h) \notin d.timers
  PROVE  LET e == StartRolls(d, rollers, byTimer) IN
         /\ e \in Decisions
         /\ Consistent(e.state, e.timers)
         /\ e.state.status = d.state.status /\ e.state.pausedBy = d.state.pausedBy
         /\ e.state.hero = d.state.hero /\ e.state.away = d.state.away
         /\ e.state.phase = d.state.phase /\ e.state.participants = d.state.participants
         /\ e.state.submissions = d.state.submissions /\ e.state.lastRound = d.state.lastRound
<1> DEFINE n == d.state.lastRound
           checks == [h \in Heroes |-> IF h \in rollers THEN "rolling" ELSE d.state.checks[h]]
           T == IF byTimer THEN d.timers ELSE d.timers \ {RollTimer(n, h) : h \in rollers}
           jobs == d.outbox \cup {RollJob(n, h, FALSE) : h \in rollers}
           c == [d.state EXCEPT !.checks = checks]
           e == StartRolls(d, rollers, byTimer)
<1>1. d.state \in CampaignStates /\ d.timers \subseteq Timers /\ d.outbox \subseteq Jobs
  BY DecisionTypes
<1>2. c \in CampaignStates
  <2>1. checks \in [Heroes -> CheckStatus] BY <1>1, FieldTypes DEF CheckStatus
  <2> HIDE DEF checks
  <2> QED BY <1>1, <2>1, SetChecks
<1>3. T \subseteq Timers BY <1>1
<1>4. jobs \subseteq Jobs
  <2>1. n \in Nat BY <1>1, FieldTypes
  <2>2. \A h \in rollers : RollJob(n, h, FALSE) \in Jobs BY <2>1, JobTypes
  <2> QED BY <1>1, <2>2
<1>5. /\ c.status = d.state.status /\ c.pausedBy = d.state.pausedBy
      /\ c.hero = d.state.hero /\ c.away = d.state.away
      /\ c.phase = d.state.phase /\ c.participants = d.state.participants
      /\ c.submissions = d.state.submissions /\ c.checks = checks /\ c.lastRound = n
  <2> HIDE DEF checks
  <2> QED BY <1>1 DEF CampaignStates
<1>6. e = [d EXCEPT !.state = c, !.timers = T, !.outbox = jobs] BY DEF StartRolls
<1>7. e \in Decisions /\ e.state = c /\ e.timers = T
  <2> HIDE DEF c, T, jobs, e
  <2> QED BY <1>2, <1>3, <1>4, <1>6 DEF Decisions
<1>8. T \subseteq HeldTimers(c)
  <2> SUFFICES ASSUME NEW t \in T PROVE t \in HeldTimers(c) OBVIOUS
  <2>1. t \in d.timers /\ t \in HeldTimers(d.state) BY DEF Consistent
  <2>2. CASE d.state.phase = "collecting" /\ t = RoundTimer(n)
    <3> HIDE DEF c
    <3> QED BY <1>5, <2>2 DEF HeldTimers
  <2>3. CASE \E h \in Heroes : d.state.checks[h] = "pending" /\ t = RollTimer(n, h)
    <3>1. PICK h \in Heroes : d.state.checks[h] = "pending" /\ t = RollTimer(n, h) BY <2>3
    <3>2. h \notin rollers BY <2>1, <3>1
    <3>3. c.checks[h] = "pending" BY <1>5, <3>1, <3>2
    <3> HIDE DEF c
    <3> QED BY <1>5, <3>1, <3>3 DEF HeldTimers
  <2> QED BY <2>1, <2>2, <2>3 DEF HeldTimers
<1>9. \A h \in Heroes : c.checks[h] = "pending" => c.phase = "resolving"
  BY <1>5 DEF Consistent
<1> HIDE DEF c, T, e
<1>10. Consistent(c, T) BY <1>5, <1>8, <1>9 DEF Consistent, T
<1>11. /\ e \in Decisions
       /\ Consistent(e.state, e.timers)
       /\ e.state.status = d.state.status /\ e.state.pausedBy = d.state.pausedBy
       /\ e.state.hero = d.state.hero /\ e.state.away = d.state.away
       /\ e.state.phase = d.state.phase /\ e.state.participants = d.state.participants
       /\ e.state.submissions = d.state.submissions /\ e.state.lastRound = d.state.lastRound
  BY <1>5, <1>7, <1>10
<1> QED BY <1>11 DEF e

\* Starting rolls is sound.
LEMMA StartRollsSound ==
  ASSUME NEW d, NEW rollers \in SUBSET Heroes, NEW byTimer \in BOOLEAN, Sound(d),
         byTimer => \A h \in rollers : RollTimer(d.state.lastRound, h) \notin d.timers
  PROVE  Sound(StartRolls(d, rollers, byTimer))
<1> DEFINE e == StartRolls(d, rollers, byTimer)
<1>1. d \in Decisions /\ Consistent(d.state, d.timers) BY DEF Sound, InOrder
<1>2. /\ e \in Decisions
      /\ Consistent(e.state, e.timers)
      /\ e.state.status = d.state.status /\ e.state.pausedBy = d.state.pausedBy
      /\ e.state.hero = d.state.hero /\ e.state.away = d.state.away
      /\ e.state.phase = d.state.phase /\ e.state.participants = d.state.participants
      /\ e.state.submissions = d.state.submissions
  BY <1>1, StartRollsTable
<1> HIDE DEF e
<1>3. SlotsOpen(e.state)
  BY <1>2 DEF Sound, InOrder, SlotsOpen, OpenSlots, ParticipantsFor, Present, Members
<1>4. OnlyPausesHoldRounds(e.state) BY <1>2 DEF Sound, InOrder, OnlyPausesHoldRounds
<1>5. e.state.status = "active" => Present(e.state) # {}
  BY <1>2 DEF Sound, InOrder, Present, Members
<1>6. Sound(e) BY <1>2, <1>3, <1>4, <1>5 DEF Sound, InOrder
<1> QED BY <1>6 DEF e

\* recordCheckRoll is sound.
LEMMA RecordCheckRollSound ==
  ASSUME NEW d, NEW h \in Heroes, NEW rerolled \in BOOLEAN, NEW fired \in BOOLEAN,
         Sound(d), d.state.checks[h] # "pending"
  PROVE  Sound(RecordCheckRoll(d, h, rerolled, fired))
<1> DEFINE After(s) == [d EXCEPT !.state.checks[h] = s]
<1>1. d \in Decisions /\ d.state \in CampaignStates BY DecisionTypes DEF Sound
<1>2. ASSUME NEW s \in CheckStatus, s # "pending" PROVE Sound(After(s))
  <2> DEFINE c == [d.state EXCEPT !.checks[h] = s]
             e == After(s)
  <2>1. c \in CampaignStates BY <1>1, SetChecksAt
  <2>2. e \in Decisions /\ e.state = c /\ e.timers = d.timers
    <3>1. e = [d EXCEPT !.state = c] OBVIOUS
    <3> HIDE DEF c, e
    <3> QED BY <1>1, <2>1, <3>1 DEF Decisions
  <2>3. /\ c.status = d.state.status /\ c.pausedBy = d.state.pausedBy
        /\ c.hero = d.state.hero /\ c.away = d.state.away
        /\ c.phase = d.state.phase /\ c.participants = d.state.participants
        /\ c.submissions = d.state.submissions /\ c.lastRound = d.state.lastRound
        /\ c.checks = [d.state.checks EXCEPT ![h] = s]
    BY <1>1 DEF CampaignStates
  <2>4. \A g \in Heroes : c.checks[g] = "pending" <=> d.state.checks[g] = "pending"
    <3>1. d.state.checks \in [Heroes -> CheckStatus] BY <1>1, FieldTypes
    <3> HIDE DEF c
    <3> QED BY <1>2, <2>3, <3>1
  <2> HIDE DEF c, e
  <2>5. HeldTimers(c) = HeldTimers(d.state) BY <2>3, <2>4 DEF HeldTimers
  <2>6. Consistent(c, d.timers) BY <2>3, <2>4, <2>5 DEF Sound, InOrder, Consistent
  <2>7. SlotsOpen(c)
    BY <2>3 DEF Sound, InOrder, SlotsOpen, OpenSlots, ParticipantsFor, Present, Members
  <2>8. OnlyPausesHoldRounds(c) /\ (c.status = "active" => Present(c) # {})
    BY <2>3 DEF Sound, InOrder, OnlyPausesHoldRounds, Present, Members
  <2>9. Sound(e) BY <2>2, <2>6, <2>7, <2>8 DEF Sound, InOrder
  <2> QED BY <2>9 DEF e
<1>3. Sound(After("lucky")) /\ Sound(After("resolved")) BY <1>2 DEF CheckStatus
<1> HIDE DEF After
<1>4. RollJob(d.state.lastRound, h, TRUE) \in Jobs BY <1>1, FieldTypes, JobTypes
<1>5. Sound(Request(After("lucky"), RollJob(d.state.lastRound, h, TRUE)))
  BY <1>3, <1>4, RequestSound
<1>6. Sound(FinishRoundIfResolved(After("resolved"), fired))
  BY <1>3, FinishRoundIfResolvedSound
<1> QED BY <1>5, <1>6 DEF RecordCheckRoll, After

-----------------------------------------------------------------------------
(* Members, and continuing after a pause.                                  *)

\* The last steps of markAway and retireMember: whoever is left plays on, and a
\* table nobody is left at waits.
LEMMA WaitWhenEmptySound ==
  ASSUME NEW d \in Decisions, Consistent(d.state, d.timers), SlotsOpen(d.state),
         OnlyPausesHoldRounds(d.state)
  PROVE  /\ d.state.status = "active" /\ Present(d.state) = {} => Sound(EnterWaiting(d))
         /\ ~(d.state.status = "active" /\ Present(d.state) = {}) => Sound(d)
<1>1. ASSUME Present(d.state) = {} PROVE d.state.phase # "collecting"
  BY <1>1 DEF SlotsOpen, ParticipantsFor
<1>2. d.state.status = "active" /\ Present(d.state) = {} => Sound(EnterWaiting(d))
  BY <1>1, EnterWaitingSound
<1>3. ~(d.state.status = "active" /\ Present(d.state) = {}) => Sound(d)
  BY DEF Sound, InOrder
<1> QED BY <1>2, <1>3

\* markAway is sound for a present member of a table nobody paused.
LEMMA MarkAwaySound ==
  ASSUME NEW d, NEW u \in Present(d.state), NEW tooSoon \in BOOLEAN,
         Sound(d), d.state.pausedBy = "nobody"
  PROVE  Sound(MarkAway(d, u, tooSoon))
<1> DEFINE c == d.state
           h == c.hero[u]
           gone == [d EXCEPT !.state = MemberMarkedAway(@, u)]
           rollers == {g \in Heroes : g = h /\ c.checks[g] = "pending"}
           left == StartRolls(gone, rollers, FALSE)
           asked == /\ c.phase = "collecting"
                    /\ h \in c.participants
                    /\ c.submissions[h] = "none"
           freed == [left EXCEPT !.state.submissions[h] = "excused"]
           excused == IF asked THEN CloseIfEveryoneResponded(freed) ELSE left
<1>1. d \in Decisions /\ c \in CampaignStates BY DecisionTypes DEF Sound
<1>2. u \in Users /\ h \in Heroes BY <1>1, PresentTypes
<1>3. /\ gone \in Decisions /\ gone.state = MemberMarkedAway(c, u) /\ gone.timers = d.timers
  <2>1. MemberMarkedAway(c, u) \in CampaignStates BY <1>1, <1>2, MemberMarkedAwayType
  <2> QED BY <1>1, <2>1 DEF Decisions
<1>4. /\ gone.state.status = c.status /\ gone.state.pausedBy = c.pausedBy
      /\ gone.state.hero = c.hero /\ gone.state.away = c.away \cup {u}
      /\ gone.state.phase = c.phase /\ gone.state.participants = c.participants
      /\ gone.state.submissions = c.submissions /\ gone.state.checks = c.checks
      /\ gone.state.lastRound = c.lastRound
  BY <1>1, <1>2, <1>3, MemberMarkedAwayTable
<1> HIDE DEF gone
<1>5. Consistent(gone.state, gone.timers)
  BY <1>3, <1>4 DEF Sound, InOrder, Consistent, HeldTimers
<1>6. /\ left \in Decisions
      /\ Consistent(left.state, left.timers)
      /\ left.state.status = c.status /\ left.state.pausedBy = c.pausedBy
      /\ left.state.hero = c.hero /\ left.state.away = c.away \cup {u}
      /\ left.state.phase = c.phase /\ left.state.participants = c.participants
      /\ left.state.submissions = c.submissions /\ left.state.lastRound = c.lastRound
  <2>1. rollers \in SUBSET Heroes OBVIOUS
  <2> HIDE DEF rollers
  <2> QED BY <1>3, <1>4, <1>5, <2>1, StartRollsTable
<1> HIDE DEF left, rollers
<1>7. Present(left.state) = Present(c) \ {u} BY <1>6 DEF Present, Members
<1>8. \A v \in Present(c) : c.hero[v] = h => v = u
  BY <1>1, <1>2, PresentTypes, NoHeroAssumption DEF Sound, InOrder, Consistent
<1>9. c.phase = "collecting" => c.status = "active"
  BY <1>1, FieldTypes DEF Sound, InOrder, OnlyPausesHoldRounds
\* The slots that stay open belong to the others.
<1>10. c.phase = "collecting" =>
         OpenSlots(c) \ {h} \subseteq ParticipantsFor(left.state)
  BY <1>6, <1>7, <1>8 DEF Sound, InOrder, SlotsOpen, ParticipantsFor
<1>11. ASSUME asked
       PROVE  /\ excused \in Decisions /\ Consistent(excused.state, excused.timers)
              /\ SlotsOpen(excused.state) /\ OnlyPausesHoldRounds(excused.state)
  <2> DEFINE e == [left.state EXCEPT !.submissions[h] = "excused"]
  <2>1. left.state \in CampaignStates BY <1>6, DecisionTypes
  <2>2. e \in CampaignStates BY <1>2, <2>1, SetSubmissionsAt DEF Submissions
  <2>3. freed \in Decisions /\ freed.state = e /\ freed.timers = left.timers
    <3>1. freed = [left EXCEPT !.state = e] OBVIOUS
    <3> HIDE DEF e, freed
    <3> QED BY <1>6, <2>2, <3>1 DEF Decisions
  <2>4. /\ e.status = left.state.status /\ e.pausedBy = left.state.pausedBy
        /\ e.hero = left.state.hero /\ e.away = left.state.away
        /\ e.phase = left.state.phase /\ e.participants = left.state.participants
        /\ e.submissions = [left.state.submissions EXCEPT ![h] = "excused"]
        /\ e.checks = left.state.checks /\ e.lastRound = left.state.lastRound
    BY <2>1 DEF CampaignStates
  <2> HIDE DEF e, freed
  <2>5. Consistent(freed.state, freed.timers)
    BY <1>6, <2>3, <2>4 DEF Consistent, HeldTimers
  <2>6. OpenSlots(freed.state) \subseteq OpenSlots(c) \ {h}
    <3>1. c.submissions \in [Heroes -> Submissions] /\ c.participants \subseteq Heroes
      BY <1>1, FieldTypes
    <3> QED BY <1>6, <2>3, <2>4, <3>1 DEF OpenSlots
  <2>7. ParticipantsFor(freed.state) = ParticipantsFor(left.state)
    BY <2>3, <2>4 DEF ParticipantsFor, Present, Members
  <2>8. freed.state.status = "active" BY <1>6, <1>9, <1>11, <2>3, <2>4
  <2>9. \/ Sound(CloseIfEveryoneResponded(freed))
        \/ /\ CloseIfEveryoneResponded(freed) = freed
           /\ SlotsOpen(freed.state) /\ OnlyPausesHoldRounds(freed.state)
    BY <1>10, <1>11, <2>3, <2>5, <2>6, <2>7, <2>8, CloseIfEveryoneRespondedSound
  <2>10. excused = CloseIfEveryoneResponded(freed) BY <1>11
  <2> QED BY <2>3, <2>5, <2>9, <2>10 DEF Sound, InOrder
<1>12. ASSUME ~asked
       PROVE  SlotsOpen(left.state) /\ OnlyPausesHoldRounds(left.state)
  <2>1. OpenSlots(left.state) = OpenSlots(c) BY <1>6 DEF OpenSlots
  <2>2. c.phase = "collecting" => h \notin OpenSlots(c) BY <1>12 DEF OpenSlots
  <2>3. SlotsOpen(left.state)
    BY <1>6, <1>10, <2>1, <2>2 DEF SlotsOpen, Sound, InOrder
  <2>4. OnlyPausesHoldRounds(left.state) BY <1>6, <1>9 DEF OnlyPausesHoldRounds
  <2> QED BY <2>3, <2>4
<1>13. /\ excused \in Decisions /\ Consistent(excused.state, excused.timers)
       /\ SlotsOpen(excused.state) /\ OnlyPausesHoldRounds(excused.state)
  <2> HIDE DEF asked, freed
  <2>1. CASE asked BY <1>11, <2>1
  <2>2. CASE ~asked BY <1>6, <1>12, <2>2
  <2> QED BY <2>1, <2>2
<1>14. MarkAway(d, u, tooSoon) =
         IF excused.state.status = "active" /\ Present(excused.state) = {}
         THEN EnterWaiting(excused)
         ELSE FinishReadyCheck(excused, FALSE, tooSoon)
  BY DEF MarkAway, left, gone, rollers
<1> HIDE DEF excused
<1> QED BY <1>13, <1>14, WaitWhenEmptySound, FinishReadyCheckSound

\* retireMember is sound for a member of a table nobody paused.
LEMMA RetireMemberSound ==
  ASSUME NEW d, NEW u \in Members(d.state), Sound(d), d.state.pausedBy = "nobody"
  PROVE  Sound(RetireMember(d, u))
<1> DEFINE c == d.state
           h == c.hero[u]
           gone == [d EXCEPT !.state = MemberRetired(@, u)]
           left == CloseIfEveryoneResponded(gone)
<1>1. d \in Decisions /\ c \in CampaignStates BY DecisionTypes DEF Sound
<1>2. u \in Users /\ h \in Heroes BY <1>1, FieldTypes DEF Members
<1>3. /\ gone \in Decisions /\ gone.state = MemberRetired(c, u) /\ gone.timers = d.timers
  <2>1. MemberRetired(c, u) \in CampaignStates BY <1>1, <1>2, MemberRetiredType
  <2> QED BY <1>1, <2>1 DEF Decisions
<1>4. /\ gone.state.status = c.status /\ gone.state.pausedBy = c.pausedBy
      /\ gone.state.hero = [c.hero EXCEPT ![u] = NoHero] /\ gone.state.away = c.away \ {u}
      /\ gone.state.phase = c.phase /\ gone.state.participants = c.participants \ {h}
      /\ gone.state.submissions =
           [g \in Heroes |-> IF g = h THEN "none" ELSE c.submissions[g]]
      /\ gone.state.checks = c.checks /\ gone.state.lastRound = c.lastRound
  BY <1>1, <1>2, <1>3, MemberRetiredTable
<1> HIDE DEF gone
<1>5. c.hero \in [Users -> Heroes \cup {NoHero}] /\ c.participants \subseteq Heroes
  BY <1>1, FieldTypes
<1>6. Consistent(gone.state, gone.timers)
  <2>1. HeldTimers(gone.state) = HeldTimers(c) BY <1>4 DEF HeldTimers
  <2>2. \A v, w \in Users : gone.state.hero[v] = gone.state.hero[w]
                              /\ gone.state.hero[v] # NoHero => v = w
    BY <1>2, <1>4, <1>5 DEF Sound, InOrder, Consistent
  <2> QED BY <1>3, <1>4, <2>1, <2>2 DEF Sound, InOrder, Consistent
<1>7. c.phase = "collecting" => c.status = "active"
  BY <1>1, FieldTypes DEF Sound, InOrder, OnlyPausesHoldRounds
<1>8. c.phase = "collecting" => OpenSlots(gone.state) \subseteq ParticipantsFor(gone.state)
  <2>1. OpenSlots(gone.state) \subseteq OpenSlots(c) \ {h} BY <1>4, <1>5 DEF OpenSlots
  <2>2. \A v \in Present(c) \ {u} : v \in Present(gone.state) /\ gone.state.hero[v] = c.hero[v]
    BY <1>2, <1>4, <1>5 DEF Present, Members
  <2>3. c.phase = "collecting" => OpenSlots(c) \ {h} \subseteq ParticipantsFor(gone.state)
    BY <2>2 DEF Sound, InOrder, SlotsOpen, ParticipantsFor
  <2> QED BY <2>1, <2>3
<1>9. /\ left \in Decisions /\ Consistent(left.state, left.timers)
      /\ SlotsOpen(left.state) /\ OnlyPausesHoldRounds(left.state)
  <2>1. \/ Sound(CloseIfEveryoneResponded(gone))
        \/ /\ CloseIfEveryoneResponded(gone) = gone
           /\ SlotsOpen(gone.state) /\ OnlyPausesHoldRounds(gone.state)
    BY <1>3, <1>4, <1>6, <1>7, <1>8, CloseIfEveryoneRespondedSound
  <2> QED BY <1>3, <1>6, <2>1 DEF Sound, InOrder
<1>10. RetireMember(d, u) = IF left.state.status = "active" /\ Present(left.state) = {}
                            THEN EnterWaiting(left) ELSE left
  BY DEF RetireMember, gone
<1> HIDE DEF left
<1> QED BY <1>9, <1>10, WaitWhenEmptySound

\* Whoever may continue finds the table with exactly the timers of its windows.
LEMMA ResumedSound ==
  ASSUME NEW d, NEW u \in Users, Sound(d), d.state.status = "waitingForPlayers",
         Present(Resumed(d, u).state) # {}
  PROVE  Sound(Resumed(d, u))
<1> DEFINE back == IF u \in d.state.away THEN MemberReturned(d.state, u) ELSE d.state
           rearmed == {t \in HeldTimers(back) : IF t.kind = "round" THEN RoundTimed ELSE RollTimed}
           c == [back EXCEPT !.status = "active", !.pausedBy = "nobody"]
           T == d.timers \cup rearmed
           e == Resumed(d, u)
<1>1. d \in Decisions /\ d.state \in CampaignStates /\ d.timers \subseteq Timers
  BY DecisionTypes DEF Sound
<1>2. back \in CampaignStates BY <1>1, MemberReturnedType
<1>3. /\ back.hero = d.state.hero /\ back.away \subseteq d.state.away
      /\ back.phase = d.state.phase /\ back.participants = d.state.participants
      /\ back.submissions = d.state.submissions /\ back.checks = d.state.checks
      /\ back.lastRound = d.state.lastRound
  BY <1>1, MemberReturnedTable
<1> HIDE DEF back
<1>4. c \in CampaignStates
  <2>1. "nobody" \in Pausers BY DEF Pausers
  <2> QED BY <1>2, <2>1, SetStatus, SetPausedBy, Zenon
<1>5. /\ c.status = "active" /\ c.pausedBy = "nobody" /\ c.hero = d.state.hero
      /\ c.away \subseteq d.state.away
      /\ c.phase = d.state.phase /\ c.participants = d.state.participants
      /\ c.submissions = d.state.submissions /\ c.checks = d.state.checks
      /\ c.lastRound = d.state.lastRound
  BY <1>2, <1>3 DEF CampaignStates
<1>6. T \subseteq Timers BY <1>1, <1>2, HeldTimersType
<1>7. e = [d EXCEPT !.state = c, !.timers = T] BY DEF Resumed, back
<1>8. e \in Decisions /\ e.state = c /\ e.timers = T
  <2> HIDE DEF c, T, e
  <2> QED BY <1>1, <1>4, <1>6, <1>7 DEF Decisions
<1> HIDE DEF c, e
<1>9. HeldTimers(c) = HeldTimers(back) BY <1>3, <1>5 DEF HeldTimers
<1>10. T \subseteq HeldTimers(c) BY <1>9 DEF Sound, InOrder, Consistent
<1>11. Consistent(c, T) BY <1>5, <1>10 DEF Sound, InOrder, Consistent
<1>12. SlotsOpen(c)
  <2>1. OpenSlots(c) = OpenSlots(d.state) BY <1>5 DEF OpenSlots
  <2>2. ParticipantsFor(d.state) \subseteq ParticipantsFor(c)
    BY <1>5 DEF ParticipantsFor, Present, Members
  <2> QED BY <1>5, <2>1, <2>2 DEF Sound, InOrder, SlotsOpen
<1>13. Present(c) # {} BY <1>8 DEF e
<1>14. Sound(e)
  BY <1>5, <1>8, <1>11, <1>12, <1>13 DEF Sound, InOrder, OnlyPausesHoldRounds
<1> QED BY <1>14 DEF e

\* Picking up held work after a pause is sound.
LEMMA PickUpHeldWorkSound ==
  ASSUME NEW d, NEW tooSoon \in BOOLEAN, NEW fired \in BOOLEAN, Sound(d)
  PROVE  Sound(PickUpHeldWork(d, tooSoon, fired))
<1>1. d \in Decisions /\ d.state \in CampaignStates BY DecisionTypes DEF Sound
<1>2. JobFor("plan", d.state.lastRound) \in Jobs BY <1>1, FieldTypes, JobTypes
<1>3. Sound(OpenRound(d, FALSE, tooSoon)) BY OpenRoundSound
<1>4. Sound(Request(d, JobFor("plan", d.state.lastRound))) BY <1>2, RequestSound
<1>5. Sound(FinishRoundIfResolved(d, fired)) BY FinishRoundIfResolvedSound
<1>6. CASE d.state.phase = "none" /\ d.state.resting # "none"
  BY <1>6 DEF PickUpHeldWork
<1>7. CASE d.state.phase = "none" /\ d.state.resting = "none"
  BY <1>3, <1>7 DEF PickUpHeldWork
<1>8. CASE d.state.phase = "planning" BY <1>4, <1>8 DEF PickUpHeldWork
<1>9. CASE d.state.phase = "resolving" BY <1>5, <1>9 DEF PickUpHeldWork
<1>10. CASE d.state.phase = "collecting" BY <1>10 DEF PickUpHeldWork
<1> QED BY <1>1, <1>6, <1>7, <1>8, <1>9, <1>10, FieldTypes

-----------------------------------------------------------------------------
(* What a worker does before the handler runs, and the smaller commands.   *)

\* A timer that fired is no longer pending.
LEMMA FewerTimersSound ==
  ASSUME NEW d, NEW T, Sound(d), T \subseteq d.timers
  PROVE  Sound([d EXCEPT !.timers = T])
<1> DEFINE e == [d EXCEPT !.timers = T]
<1>1. d \in Decisions /\ T \subseteq Timers BY DecisionTypes DEF Sound
<1>2. e \in Decisions BY <1>1, SetTimers
<1>3. e.state = d.state /\ e.timers = T BY <1>1 DEF Decisions
<1> HIDE DEF e
<1>4. Sound(e) BY <1>2, <1>3 DEF Sound, InOrder, Consistent
<1> QED BY <1>4 DEF e

\* The outbox is no part of the table.
LEMMA OutboxSound ==
  ASSUME NEW d, NEW x, Sound(d), x \subseteq Jobs
  PROVE  Sound([d EXCEPT !.outbox = x])
<1> DEFINE e == [d EXCEPT !.outbox = x]
<1>1. d \in Decisions BY DEF Sound
<1>2. e \in Decisions BY <1>1, SetOutbox
<1>3. e.state = d.state /\ e.timers = d.timers BY <1>1 DEF Decisions
<1> HIDE DEF e
<1>4. Sound(e) BY <1>2, <1>3 DEF Sound
<1> QED BY <1>4 DEF e

\* An answer, and the closing of the round when it was the last.
LEMMA RespondSound ==
  ASSUME NEW d, NEW u \in Users, NEW h \in Heroes, NEW s \in Submissions \ {"none"},
         Sound(d), d.state.status = "active"
  PROVE  Sound(CloseIfEveryoneResponded([d EXCEPT !.state = Responded(d.state, u, h, s)]))
<1> DEFINE c == Responded(d.state, u, h, s)
           e == [d EXCEPT !.state = c]
<1>1. d \in Decisions /\ d.state \in CampaignStates BY DecisionTypes DEF Sound
<1>2. c \in CampaignStates BY <1>1, RespondedType
<1>3. e \in Decisions /\ e.state = c /\ e.timers = d.timers
  <2> HIDE DEF c
  <2> QED BY <1>1, <1>2 DEF Decisions
<1>4. /\ c.status = "active" /\ c.pausedBy = d.state.pausedBy
      /\ c.hero = d.state.hero /\ c.away = d.state.away
      /\ c.phase = d.state.phase /\ c.participants = d.state.participants
      /\ c.submissions = [d.state.submissions EXCEPT ![h] = s]
      /\ c.checks = d.state.checks /\ c.lastRound = d.state.lastRound
  BY <1>1, RespondedTable
<1> HIDE DEF c, e
<1>5. Consistent(e.state, e.timers)
  BY <1>3, <1>4 DEF Sound, InOrder, Consistent, HeldTimers
<1>6. Present(c) # {} /\ ParticipantsFor(c) = ParticipantsFor(d.state)
  BY <1>4 DEF Sound, InOrder, Present, Members, ParticipantsFor
<1>7. OpenSlots(c) \subseteq OpenSlots(d.state)
  <2>1. d.state.submissions \in [Heroes -> Submissions] /\ d.state.participants \subseteq Heroes
    BY <1>1, FieldTypes
  <2> QED BY <1>4, <2>1 DEF OpenSlots
<1>8. c.phase = "collecting" => OpenSlots(c) \subseteq ParticipantsFor(c)
  BY <1>4, <1>6, <1>7 DEF Sound, InOrder, SlotsOpen
<1>9. \/ Sound(CloseIfEveryoneResponded(e))
      \/ /\ CloseIfEveryoneResponded(e) = e
         /\ SlotsOpen(e.state) /\ OnlyPausesHoldRounds(e.state)
  BY <1>3, <1>4, <1>5, <1>8, CloseIfEveryoneRespondedSound
<1>10. Sound(CloseIfEveryoneResponded(e)) BY <1>3, <1>5, <1>6, <1>9 DEF Sound, InOrder
<1> QED BY <1>10 DEF e, c

\* A free hero takes a seat nobody else's hero has.
LEMMA JoinSound ==
  ASSUME NEW d, NEW u \in Users, NEW h \in Heroes, Sound(d),
         d.state.hero[u] = NoHero, \A v \in Users : d.state.hero[v] # h
  PROVE  Sound([d EXCEPT !.state.hero[u] = h])
<1> DEFINE c == [d.state EXCEPT !.hero[u] = h]
           e == [d EXCEPT !.state.hero[u] = h]
<1>1. d \in Decisions /\ d.state \in CampaignStates BY DecisionTypes DEF Sound
<1>2. c \in CampaignStates BY <1>1, SetHeroAt
<1>3. e \in Decisions /\ e.state = c /\ e.timers = d.timers
  <2>1. e = [d EXCEPT !.state = c] OBVIOUS
  <2> HIDE DEF c, e
  <2> QED BY <1>1, <1>2, <2>1 DEF Decisions
<1>4. /\ c.status = d.state.status /\ c.pausedBy = d.state.pausedBy
      /\ c.hero = [d.state.hero EXCEPT ![u] = h] /\ c.away = d.state.away
      /\ c.phase = d.state.phase /\ c.participants = d.state.participants
      /\ c.submissions = d.state.submissions
      /\ c.checks = d.state.checks /\ c.lastRound = d.state.lastRound
  BY <1>1 DEF CampaignStates
<1>5. d.state.hero \in [Users -> Heroes \cup {NoHero}] BY <1>1, FieldTypes
<1> HIDE DEF c, e
<1>6. \A v \in Present(d.state) : v \in Present(c) /\ c.hero[v] = d.state.hero[v]
  BY <1>4, <1>5, NoHeroAssumption DEF Present, Members
<1>7. Consistent(c, d.timers)
  <2>1. HeldTimers(c) = HeldTimers(d.state) BY <1>4 DEF HeldTimers
  <2>2. \A v, w \in Users : c.hero[v] = c.hero[w] /\ c.hero[v] # NoHero => v = w
    BY <1>4, <1>5 DEF Sound, InOrder, Consistent
  <2> QED BY <1>4, <2>1, <2>2 DEF Sound, InOrder, Consistent
<1>8. SlotsOpen(c)
  <2>1. OpenSlots(c) = OpenSlots(d.state) BY <1>4 DEF OpenSlots
  <2>2. ParticipantsFor(d.state) \subseteq ParticipantsFor(c)
    BY <1>6 DEF ParticipantsFor
  <2> QED BY <1>4, <2>1, <2>2 DEF Sound, InOrder, SlotsOpen
<1>9. Sound(e)
  BY <1>3, <1>4, <1>6, <1>7, <1>8 DEF Sound, InOrder, OnlyPausesHoldRounds
<1> QED BY <1>9 DEF e

-----------------------------------------------------------------------------
(* The table.                                                              *)

Inv == TypeOK /\ TableInOrder

-----------------------------------------------------------------------------
(* The store and the bus.                                                  *)

\* What the store holds is a sound decision.
LEMMA StoredSound ==
  ASSUME Inv
  PROVE  /\ Sound(Stored) /\ Stored \in Decisions
         /\ Stored.state = campaign /\ Stored.timers = timers /\ Stored.outbox = outbox
         /\ campaign \in CampaignStates /\ outbox \subseteq Jobs
<1>1. Stored.state = campaign /\ Stored.timers = timers /\ Stored.outbox = outbox
  BY DEF Stored
<1>2. Stored \in Decisions BY DEF Stored, Decisions, Inv, TypeOK
<1> QED BY <1>1, <1>2 DEF Sound, Inv, TypeOK, TableInOrder

\* What the worker at work holds has its shape.
HandTyped == draft \in Drafts /\ due \subseteq Timers /\ handled \subseteq Timers

\* A sound decision the bus commits keeps the invariant.
LEMMA CommitInv ==
  ASSUME Inv, NEW d, Sound(d), Commit(d), HandTyped'
  PROVE  Inv'
<1>1. d.state \in CampaignStates /\ d.timers \subseteq Timers /\ d.outbox \subseteq Jobs
  BY DecisionTypes DEF Sound
<1>2. StillLost(d) \subseteq Timers BY DEF StillLost, Inv, TypeOK
<1>3. TypeOK' BY <1>1, <1>2 DEF Commit, TypeOK, HandTyped
<1>4. TableInOrder' BY DEF Commit, Sound, TableInOrder
<1> QED BY <1>3, <1>4 DEF Inv

\* A step that leaves what the worker holds keeps it typed.
LEMMA HandKept ==
  ASSUME Inv, UNCHANGED hand
  PROVE  HandTyped'
BY DEF Inv, TypeOK, HandTyped, hand

\* No draft is a draft.
LEMMA NoDraftType == NoDraft \in Drafts
BY EmptyTypes DEF NoDraft, Drafts

\* A command that changes nothing of the table.
LEMMA QuietCommand ==
  ASSUME Inv, NEW c \in CampaignStates, SameTable(campaign, c)
  PROVE  Sound([Stored EXCEPT !.state = c])
BY StoredSound, SameTableSound

-----------------------------------------------------------------------------
(* The users' commands.                                                    *)

\* Respond keeps the table in order.
LEMMA RespondInv ==
  ASSUME Inv, NEW u \in Users, NEW h \in Heroes, NEW s \in {"action", "pass"}, Respond(u, h, s)
  PROVE  Inv'
<1>1. s \in Submissions \ {"none"} BY DEF Submissions
<1>2. Sound(Stored) /\ Stored.state = campaign BY StoredSound
<1>3. campaign.status = "active" BY DEF Respond, MayRespond, Active
<1>4. Sound(CloseIfEveryoneResponded([Stored EXCEPT !.state = Responded(Stored.state, u, h, s)]))
  BY <1>1, <1>2, <1>3, RespondSound
<1> QED BY <1>4, CommitInv, HandKept DEF Respond

\* CloseRoundByOrganizer keeps the table in order.
LEMMA CloseRoundByOrganizerInv ==
  ASSUME Inv, CloseRoundByOrganizer
  PROVE  Inv'
<1>1. Sound(CloseRound(Stored, FALSE))
  <2>1. Stored.state.phase = "collecting" /\ Stored.state.status = "active"
    BY StoredSound DEF CloseRoundByOrganizer, Active
  <2>2. Stored \in Decisions /\ Consistent(Stored.state, Stored.timers)
    BY StoredSound DEF Sound, InOrder
  <2> QED BY <2>1, <2>2, CloseRoundSound
<1> QED BY <1>1, CommitInv, HandKept DEF CloseRoundByOrganizer

\* RequestRoll keeps the table in order.
LEMMA RequestRollInv ==
  ASSUME Inv, NEW u \in Users, NEW h \in Heroes, RequestRoll(u, h)
  PROVE  Inv'
<1>1. Sound(StartRolls(Stored, {h}, FALSE)) BY StoredSound, StartRollsSound
<1> QED BY <1>1, CommitInv, HandKept DEF RequestRoll

\* RetryPlan keeps the table in order.
LEMMA RetryPlanInv ==
  ASSUME Inv, RetryPlan
  PROVE  Inv'
<1> DEFINE c == [campaign EXCEPT !.plannerFailed = FALSE]
<1>1. campaign \in CampaignStates /\ Stored.state = campaign BY StoredSound
<1>2. c \in CampaignStates BY <1>1, SetPlannerFailed
<1>3. SameTable(campaign, c) BY <1>1 DEF CampaignStates, SameTable
<1>4. Sound([Stored EXCEPT !.state = c])
  <2> HIDE DEF c
  <2> QED BY <1>2, <1>3, QuietCommand
<1>5. JobFor("plan", campaign.lastRound) \in Jobs BY <1>1, FieldTypes, JobTypes
<1>6. Sound(Request([Stored EXCEPT !.state = c], JobFor("plan", campaign.lastRound)))
  <2> HIDE DEF c
  <2> QED BY <1>4, <1>5, RequestSound
<1>7. Sound(Request([Stored EXCEPT !.state.plannerFailed = FALSE],
                    JobFor("plan", campaign.lastRound)))
  BY <1>1, <1>6, Zenon
<1> QED BY <1>7, CommitInv, HandKept DEF RetryPlan

\* MarkMemberAway keeps the table in order.
LEMMA MarkMemberAwayInv ==
  ASSUME Inv, NEW u \in Users, NEW tooSoon \in BOOLEAN, MarkMemberAway(u, tooSoon)
  PROVE  Inv'
<1>1. Sound(MarkAway(Stored, u, tooSoon))
  BY StoredSound, MarkAwaySound DEF MarkMemberAway, UserMay
<1> QED BY <1>1, CommitInv, HandKept DEF MarkMemberAway

\* MarkMemberReturned keeps the table in order.
LEMMA MarkMemberReturnedInv ==
  ASSUME Inv, NEW u \in Users, MarkMemberReturned(u)
  PROVE  Inv'
<1> DEFINE c == MemberReturned(campaign, u)
           e == [Stored EXCEPT !.state = c]
<1>1. campaign \in CampaignStates /\ Stored \in Decisions /\ Sound(Stored)
        /\ Stored.state = campaign
  BY StoredSound
<1>2. c \in CampaignStates BY <1>1, MemberReturnedType
<1>3. e \in Decisions /\ e.state = c /\ e.timers = Stored.timers
  <2> HIDE DEF c
  <2> QED BY <1>1, <1>2 DEF Decisions
<1>4. /\ c.status = campaign.status /\ c.pausedBy = campaign.pausedBy
      /\ c.hero = campaign.hero /\ c.away = campaign.away \ {u}
      /\ c.phase = campaign.phase /\ c.participants = campaign.participants
      /\ c.submissions = campaign.submissions
      /\ c.checks = campaign.checks /\ c.lastRound = campaign.lastRound
  BY <1>1, MemberReturnedTable
<1> HIDE DEF c, e
<1>5. Consistent(c, Stored.timers)
  BY <1>1, <1>4 DEF Sound, InOrder, Consistent, HeldTimers
<1>6. SlotsOpen(c)
  <2>1. OpenSlots(c) = OpenSlots(campaign) BY <1>4 DEF OpenSlots
  <2>2. ParticipantsFor(campaign) \subseteq ParticipantsFor(c)
    BY <1>4 DEF ParticipantsFor, Present, Members
  <2> QED BY <1>1, <1>4, <2>1, <2>2 DEF Sound, InOrder, SlotsOpen
<1>7. c.status = "active" => Present(c) # {}
  BY <1>1, <1>4 DEF Sound, InOrder, Present, Members
<1>8. Sound(e)
  BY <1>1, <1>3, <1>4, <1>5, <1>6, <1>7 DEF Sound, InOrder, OnlyPausesHoldRounds
<1>9. Commit(e) BY <1>1 DEF MarkMemberReturned, e, c
<1> QED BY <1>8, <1>9, CommitInv, HandKept DEF MarkMemberReturned

\* Retire keeps the table in order.
LEMMA RetireInv ==
  ASSUME Inv, NEW u \in Users, Retire(u)
  PROVE  Inv'
<1>1. Sound(RetireMember(Stored, u))
  BY StoredSound, RetireMemberSound DEF Retire, UserMay
<1> QED BY <1>1, CommitInv, HandKept DEF Retire

\* JoinHero keeps the table in order.
LEMMA JoinHeroInv ==
  ASSUME Inv, NEW u \in Users, NEW h \in Heroes, JoinHero(u, h)
  PROVE  Inv'
<1>1. Sound([Stored EXCEPT !.state.hero[u] = h])
  BY StoredSound, JoinSound DEF JoinHero
<1> QED BY <1>1, CommitInv, HandKept DEF JoinHero

\* EndRest keeps the table in order.
LEMMA EndRestInv ==
  ASSUME Inv, NEW tooSoon \in BOOLEAN, EndRest(tooSoon)
  PROVE  Inv'
<1> DEFINE c == [campaign EXCEPT !.resting = "none"]
           ended == [Stored EXCEPT !.state.resting = "none"]
<1>1. campaign \in CampaignStates /\ Stored.state = campaign BY StoredSound
<1>2. c \in CampaignStates BY <1>1, SetResting DEF Rests
<1>3. SameTable(campaign, c) BY <1>1 DEF CampaignStates, SameTable
<1>4. ended = [Stored EXCEPT !.state = c] BY <1>1
<1> HIDE DEF c, ended
<1>5. Sound(ended) BY <1>2, <1>3, <1>4, QuietCommand
<1>6. Sound(OpenRound(ended, FALSE, tooSoon)) BY <1>5, OpenRoundSound
<1>7. Commit(OpenRound(ended, FALSE, tooSoon)) BY DEF EndRest, ended
<1> QED BY <1>6, <1>7, CommitInv, HandKept DEF EndRest

\* Continue keeps the table in order.
LEMMA ContinueInv ==
  ASSUME Inv, NEW u \in Users, NEW tooSoon \in BOOLEAN, NEW fired \in BOOLEAN,
         Continue(u, tooSoon, fired)
  PROVE  Inv'
<1>1. Sound(Stored) /\ Stored.state.status = "waitingForPlayers"
  BY StoredSound DEF Continue
<1>2. Present(Resumed(Stored, u).state) # {} BY DEF Continue, ContinueRefused
<1>3. Sound(Resumed(Stored, u)) BY <1>1, <1>2, ResumedSound
<1>4. Sound(PickUpHeldWork(Resumed(Stored, u), tooSoon, fired)) BY <1>3, PickUpHeldWorkSound
<1> QED BY <1>4, CommitInv, HandKept DEF Continue

\* Pause keeps the table in order.
LEMMA PauseInv ==
  ASSUME Inv, NEW reason \in {"organizer", "safety"}, Pause(reason)
  PROVE  Inv'
<1>1. Sound(PauseCampaign(Stored, reason))
  BY StoredSound, PauseCampaignSound DEF Pausers, Sound, InOrder
<1> QED BY <1>1, CommitInv, HandKept DEF Pause

\* The commands about scene moves touch the votes and the scene only.
LEMMA MoveCommandsInv ==
  ASSUME Inv,
         \/ \E u \in Users, scene \in Scenes : ProposeMoveByPlayer(u, scene)
         \/ \E u \in Users : \/ ObjectToMove(u) \/ SupportMove(u)
                             \/ WithdrawMoveSupport(u) \/ WithdrawObjection(u)
         \/ \E outcome \in {"go", "stay"} : SettleMoveByOrganizer(outcome)
  PROVE  Inv'
<1>1. campaign \in CampaignStates /\ Stored.state = campaign BY StoredSound
<1>2. ASSUME NEW c \in CampaignStates, SameTable(campaign, c),
             Commit([Stored EXCEPT !.state = c]), UNCHANGED hand
      PROVE  Inv'
  BY <1>2, QuietCommand, CommitInv, HandKept
<1>3. ASSUME NEW c \in CampaignStates, SameTable(campaign, c), c.pendingMove.to # NoScene,
             NEW outcome
      PROVE  Settle(c, outcome) \in CampaignStates /\ SameTable(campaign, Settle(c, outcome))
  BY <1>1, <1>3, SettleType, SettleTable, SameTableTransitive
<1>4. ASSUME NEW x, x \subseteq Users
      PROVE  /\ [campaign EXCEPT !.pendingMove.objectors = x] \in CampaignStates
             /\ SameTable(campaign, [campaign EXCEPT !.pendingMove.objectors = x])
             /\ [campaign EXCEPT !.pendingMove.supporters = x] \in CampaignStates
             /\ SameTable(campaign, [campaign EXCEPT !.pendingMove.supporters = x])
  <2>1. [campaign EXCEPT !.pendingMove.objectors = x] \in CampaignStates
    BY <1>1, <1>4, SetObjectors
  <2>2. [campaign EXCEPT !.pendingMove.supporters = x] \in CampaignStates
    BY <1>1, <1>4, SetSupporters
  <2>3. SameTable(campaign, [campaign EXCEPT !.pendingMove.objectors = x])
    BY <1>1 DEF CampaignStates, SameTable
  <2>4. SameTable(campaign, [campaign EXCEPT !.pendingMove.supporters = x])
    BY <1>1 DEF CampaignStates, SameTable
  <2> QED BY <2>1, <2>2, <2>3, <2>4
<1>5. campaign.pendingMove.objectors \subseteq Users /\ campaign.pendingMove.supporters \subseteq Users
  BY <1>1, FieldTypes DEF Moves
<1>6. ASSUME NEW u \in Users
      PROVE  /\ Objected(campaign, u) \in CampaignStates
             /\ SameTable(campaign, Objected(campaign, u))
             /\ Objected(campaign, u).pendingMove.to = campaign.pendingMove.to
             /\ Supported(campaign, u) \in CampaignStates
             /\ SameTable(campaign, Supported(campaign, u))
             /\ Supported(campaign, u).pendingMove.to = campaign.pendingMove.to
  <2>1. /\ campaign.pendingMove.objectors \cup {u} \subseteq Users
        /\ campaign.pendingMove.objectors \ {u} \subseteq Users
        /\ campaign.pendingMove.supporters \cup {u} \subseteq Users
        /\ campaign.pendingMove.supporters \ {u} \subseteq Users
    BY <1>5
  <2>2. Objected(campaign, u) \in CampaignStates /\ Supported(campaign, u) \in CampaignStates
    BY <1>1, <2>1, SetObjectors, SetSupporters, Zenon DEF Objected, Supported
  <2>3. SameTable(campaign, Objected(campaign, u))
    BY <1>1 DEF CampaignStates, SameTable, Objected
  <2>4. SameTable(campaign, Supported(campaign, u))
    BY <1>1 DEF CampaignStates, SameTable, Supported
  <2>5. /\ Objected(campaign, u).pendingMove.to = campaign.pendingMove.to
        /\ Supported(campaign, u).pendingMove.to = campaign.pendingMove.to
    BY <1>1 DEF CampaignStates, Moves, Objected, Supported
  <2> QED BY <2>2, <2>3, <2>4, <2>5
<1>7. ASSUME NEW u \in Users, NEW scene \in Scenes, ProposeMoveByPlayer(u, scene)
      PROVE  Inv'
  <2> DEFINE c == MoveProposed(campaign, scene, ProposalRound(campaign))
  <2>1. campaign.lastRound \in Nat /\ (campaign.phase # "none" => campaign.lastRound > 0)
    BY <1>1, FieldTypes DEF Inv, TableInOrder, InOrder, Consistent
  <2>2. ProposalRound(campaign) \in Nat BY <2>1 DEF ProposalRound
  <2>3. c \in CampaignStates /\ SameTable(campaign, c)
    BY <1>1, <2>2, MoveProposedType, MoveProposedTable
  <2>4. Commit([Stored EXCEPT !.state = c]) /\ UNCHANGED hand
    BY <1>1, <1>7 DEF ProposeMoveByPlayer
  <2> HIDE DEF c
  <2> QED BY <1>2, <2>3, <2>4
<1>8. ASSUME NEW u \in Users, ObjectToMove(u)
      PROVE  Inv'
  <2> DEFINE c == Objected(campaign, u)
             e == IF Stays(Present(c), c.pendingMove.objectors) THEN Settle(c, "stay") ELSE c
  <2>1. c.pendingMove.to # NoScene BY <1>6, <1>8 DEF ObjectToMove, MayVote
  <2>2. e \in CampaignStates /\ SameTable(campaign, e) BY <1>3, <1>6, <2>1
  <2>3. Commit([Stored EXCEPT !.state = e]) /\ UNCHANGED hand
    BY <1>1, <1>8 DEF ObjectToMove
  <2> HIDE DEF e
  <2> QED BY <1>2, <2>2, <2>3
<1>9. ASSUME NEW u \in Users, SupportMove(u)
      PROVE  Inv'
  <2> DEFINE c == Supported(campaign, u)
             e == IF Present(c) \subseteq c.pendingMove.supporters THEN Settle(c, "go") ELSE c
  <2>1. c.pendingMove.to # NoScene BY <1>6, <1>9 DEF SupportMove, MayVote
  <2>2. e \in CampaignStates /\ SameTable(campaign, e) BY <1>3, <1>6, <2>1
  <2>3. Commit([Stored EXCEPT !.state = e]) /\ UNCHANGED hand
    BY <1>1, <1>9 DEF SupportMove
  <2> HIDE DEF e
  <2> QED BY <1>2, <2>2, <2>3
<1>10. ASSUME NEW u \in Users, WithdrawMoveSupport(u)
       PROVE  Inv'
  <2> DEFINE c == [campaign EXCEPT !.pendingMove.supporters = @ \ {u}]
  <2>1. c \in CampaignStates /\ SameTable(campaign, c) BY <1>4, <1>5
  <2>2. Commit([Stored EXCEPT !.state = c]) /\ UNCHANGED hand
    BY <1>1, <1>10 DEF WithdrawMoveSupport
  <2> HIDE DEF c
  <2> QED BY <1>2, <2>1, <2>2
<1>11. ASSUME NEW u \in Users, WithdrawObjection(u)
       PROVE  Inv'
  <2> DEFINE c == [campaign EXCEPT !.pendingMove.objectors = @ \ {u}]
  <2>1. c \in CampaignStates /\ SameTable(campaign, c) BY <1>4, <1>5
  <2>2. Commit([Stored EXCEPT !.state = c]) /\ UNCHANGED hand
    BY <1>1, <1>11 DEF WithdrawObjection
  <2> HIDE DEF c
  <2> QED BY <1>2, <2>1, <2>2
<1>12. ASSUME NEW outcome, SettleMoveByOrganizer(outcome)
       PROVE  Inv'
  <2>1. SameTable(campaign, campaign) BY DEF SameTable
  <2>2. /\ Settle(campaign, outcome) \in CampaignStates
        /\ SameTable(campaign, Settle(campaign, outcome))
    BY <1>1, <1>3, <1>12, <2>1 DEF SettleMoveByOrganizer
  <2>3. Commit([Stored EXCEPT !.state = Settle(campaign, outcome)]) /\ UNCHANGED hand
    BY <1>1, <1>12 DEF SettleMoveByOrganizer
  <2> QED BY <1>2, <2>2, <2>3
<1> QED BY <1>7, <1>8, <1>9, <1>10, <1>11, <1>12

\* So do the commands about rests, which take or queue one.
LEMMA RestCommandsInv ==
  ASSUME Inv,
         \/ \E rest \in {"short", "long"} : QueueRest(rest) \/ TakeRest(rest)
         \/ CancelQueuedRest
  PROVE  Inv'
<1>1. campaign \in CampaignStates /\ Stored.state = campaign BY StoredSound
<1>2. ASSUME NEW c \in CampaignStates, SameTable(campaign, c),
             Commit([Stored EXCEPT !.state = c]), UNCHANGED hand
      PROVE  Inv'
  BY <1>2, QuietCommand, CommitInv, HandKept
<1>3. ASSUME NEW rest \in Rests
      PROVE  /\ RestTaken(campaign, rest) \in CampaignStates
             /\ SameTable(campaign, RestTaken(campaign, rest))
             /\ [campaign EXCEPT !.pendingRest = rest] \in CampaignStates
             /\ SameTable(campaign, [campaign EXCEPT !.pendingRest = rest])
  <2>1. SameTable(campaign, RestTaken(campaign, rest))
    BY <1>1 DEF CampaignStates, SameTable, RestTaken
  <2>2. SameTable(campaign, [campaign EXCEPT !.pendingRest = rest])
    BY <1>1 DEF CampaignStates, SameTable
  <2> QED BY <1>1, <2>1, <2>2, RestTakenType, SetPendingRest
<1>4. ASSUME NEW rest \in {"short", "long"}, QueueRest(rest)
      PROVE  Inv'
  <2> DEFINE c == IF campaign.phase = "none" THEN RestTaken(campaign, rest)
                  ELSE [campaign EXCEPT !.pendingRest = rest]
  <2>1. rest \in Rests BY DEF Rests
  <2>2. c \in CampaignStates /\ SameTable(campaign, c) BY <1>3, <2>1
  <2>3. Commit([Stored EXCEPT !.state = c]) /\ UNCHANGED hand BY <1>1, <1>4 DEF QueueRest
  <2> HIDE DEF c
  <2> QED BY <1>2, <2>2, <2>3
<1>5. ASSUME NEW rest \in {"short", "long"}, TakeRest(rest)
      PROVE  Inv'
  <2>1. rest \in Rests BY DEF Rests
  <2>2. Commit([Stored EXCEPT !.state = RestTaken(campaign, rest)]) /\ UNCHANGED hand
    BY <1>1, <1>5 DEF TakeRest
  <2> QED BY <1>2, <1>3, <2>1, <2>2
<1>6. ASSUME CancelQueuedRest
      PROVE  Inv'
  <2> DEFINE c == [campaign EXCEPT !.pendingRest = "none"]
  <2>1. "none" \in Rests BY DEF Rests
  <2>2. c \in CampaignStates /\ SameTable(campaign, c) BY <1>3, <2>1
  <2>3. Commit([Stored EXCEPT !.state = c]) /\ UNCHANGED hand BY <1>1, <1>6 DEF CancelQueuedRest
  <2> HIDE DEF c
  <2> QED BY <1>2, <2>2, <2>3
<1> QED BY <1>4, <1>5, <1>6

\* MarkReady keeps the table in order.
LEMMA MarkReadyInv ==
  ASSUME Inv, NEW u \in Users, NEW tooSoon \in BOOLEAN, MarkReady(u, tooSoon)
  PROVE  Inv'
<1> DEFINE c == [campaign EXCEPT !.ready = @ \cup {u}]
           e == [Stored EXCEPT !.state.ready = @ \cup {u}]
<1>1. campaign \in CampaignStates /\ Stored.state = campaign BY StoredSound
<1>2. c \in CampaignStates
  <2>1. campaign.ready \cup {u} \subseteq Users BY <1>1, FieldTypes
  <2> QED BY <1>1, <2>1, SetReady
<1>3. SameTable(campaign, c) BY <1>1 DEF CampaignStates, SameTable
<1>4. e = [Stored EXCEPT !.state = c] BY <1>1
<1> HIDE DEF c, e
<1>5. Sound(e) BY <1>2, <1>3, <1>4, QuietCommand
<1>6. Sound(FinishReadyCheck(e, FALSE, tooSoon)) BY <1>5, FinishReadyCheckSound
<1>7. Commit(FinishReadyCheck(e, FALSE, tooSoon)) BY DEF MarkReady, e
<1> QED BY <1>6, <1>7, CommitInv, HandKept DEF MarkReady

\* BeginPlay keeps the table in order.
LEMMA BeginPlayInv ==
  ASSUME Inv, NEW tooSoon \in BOOLEAN, BeginPlay(tooSoon)
  PROVE  Inv'
<1> DEFINE c == [campaign EXCEPT !.opening = "done"]
           e == [Stored EXCEPT !.state.opening = "done"]
<1>1. campaign \in CampaignStates /\ Stored.state = campaign BY StoredSound
<1>2. c \in CampaignStates BY <1>1, SetOpening
<1>3. SameTable(campaign, c) BY <1>1 DEF CampaignStates, SameTable
<1>4. e = [Stored EXCEPT !.state = c] BY <1>1
<1> HIDE DEF c, e
<1>5. Sound(e) BY <1>2, <1>3, <1>4, QuietCommand
<1>6. Sound(OpenRound(e, FALSE, tooSoon)) BY <1>5, OpenRoundSound
<1>7. Commit(OpenRound(e, FALSE, tooSoon)) BY DEF BeginPlay, e
<1> QED BY <1>6, <1>7, CommitInv, HandKept DEF BeginPlay

-----------------------------------------------------------------------------
(* Timers, dice and the DM's model calls.                                  *)

\* A row the TimerWorker loaded is a timer of its kind.
LEMMA LoadedTimer ==
  ASSUME Inv, NEW t \in due
  PROVE  /\ t.kind = "round" => t = RoundTimer(t.round)
         /\ t.kind = "roll" => t.hero \in Heroes /\ t = RollTimer(t.round, t.hero)
BY DEF Inv, TypeOK, Timers, RoundTimer, RollTimer

\* While a row's command runs the worker's list stays a list of timers.
LEMMA TakesUpTyped ==
  ASSUME Inv, NEW t \in due, TakesUp(t)
  PROVE  HandTyped'
BY DEF Inv, TypeOK, TakesUp, HandTyped

\* RoundTimerFires keeps the table in order.
LEMMA RoundTimerFiresInv ==
  ASSUME Inv, NEW t \in due, RoundTimerFires(t)
  PROVE  Inv'
<1> DEFINE e == [Stored EXCEPT !.timers = @ \ {t}]
           closes == Active /\ campaign.phase = "collecting" /\ campaign.lastRound = t.round
<1>1. Stored \in Decisions /\ Stored.state = campaign /\ Stored.timers = timers /\ Sound(Stored)
  BY StoredSound
<1>2. Sound(e) BY <1>1, FewerTimersSound
<1>3. e.state = campaign /\ e.timers = timers \ {t} BY <1>1 DEF Decisions
<1>4. t = RoundTimer(t.round) BY LoadedTimer DEF RoundTimerFires
<1> HIDE DEF e
<1>5. ASSUME closes PROVE Sound(CloseRound(e, TRUE))
  BY <1>2, <1>3, <1>4, <1>5, CloseRoundSound DEF Sound, InOrder, Active
<1>6. Commit(IF closes THEN CloseRound(e, TRUE) ELSE e) BY DEF RoundTimerFires, e
<1>7. Sound(IF closes THEN CloseRound(e, TRUE) ELSE e) BY <1>2, <1>5
<1>8. HandTyped' BY TakesUpTyped DEF RoundTimerFires
<1> QED BY <1>6, <1>7, <1>8, CommitInv

\* RollTimerFires keeps the table in order.
LEMMA RollTimerFiresInv ==
  ASSUME Inv, NEW t \in due, RollTimerFires(t)
  PROVE  Inv'
<1> DEFINE e == [Stored EXCEPT !.timers = @ \ {t}]
           rolls == Active /\ campaign.lastRound = t.round /\ campaign.checks[t.hero] = "pending"
<1>1. Stored \in Decisions /\ Stored.state = campaign /\ Stored.timers = timers /\ Sound(Stored)
  BY StoredSound
<1>2. Sound(e) BY <1>1, FewerTimersSound
<1>3. e.state = campaign /\ e.timers = timers \ {t} BY <1>1 DEF Decisions
<1>4. t.hero \in Heroes /\ t = RollTimer(t.round, t.hero)
  BY LoadedTimer DEF RollTimerFires
<1> HIDE DEF e
<1>5. ASSUME rolls PROVE Sound(StartRolls(e, {t.hero}, TRUE))
  BY <1>2, <1>3, <1>4, <1>5, StartRollsSound
<1>6. Commit(IF rolls THEN StartRolls(e, {t.hero}, TRUE) ELSE e) BY DEF RollTimerFires, e
<1>7. Sound(IF rolls THEN StartRolls(e, {t.hero}, TRUE) ELSE e) BY <1>2, <1>5
<1>8. HandTyped' BY TakesUpTyped DEF RollTimerFires
<1> QED BY <1>6, <1>7, <1>8, CommitInv

\* Loading the due rows changes no table, and marking one only takes timers away.
LEMMA TimerListInv ==
  ASSUME Inv, LoadTimers \/ MarkTimerFired
  PROVE  Inv'
<1>1. CASE LoadTimers
  BY <1>1 DEF LoadTimers, Inv, TypeOK, TableInOrder
<1>2. CASE MarkTimerFired
  <2>1. TypeOK' BY <1>2 DEF MarkTimerFired, Inv, TypeOK
  <2>2. Consistent(campaign, timers \ handled)
    BY DEF Inv, TableInOrder, InOrder, Consistent
  <2>3. TableInOrder'
    BY <1>2, <2>2 DEF MarkTimerFired, Inv, TableInOrder, InOrder
  <2> QED BY <2>1, <2>3 DEF Inv
<1> QED BY <1>1, <1>2

\* Finishing a job leaves a table in order as it was.
LEMMA JobDone ==
  ASSUME Inv, NEW job
  PROVE  LET done == [Stored EXCEPT !.outbox = @ \ {job}] IN
         /\ Sound(done) /\ done \in Decisions
         /\ done.state = campaign /\ done.timers = timers /\ done.outbox = outbox \ {job}
<1>1. /\ Stored \in Decisions /\ Stored.state = campaign /\ Stored.timers = timers
      /\ Stored.outbox = outbox /\ outbox \subseteq Jobs /\ Sound(Stored)
  BY StoredSound
<1>2. Sound([Stored EXCEPT !.outbox = @ \ {job}]) BY <1>1, OutboxSound
<1> QED BY <1>1, <1>2 DEF Decisions

\* RunRoll keeps the table in order.
LEMMA RunRollInv ==
  ASSUME Inv, NEW job \in outbox, NEW rerolled \in BOOLEAN, NEW fired \in BOOLEAN,
         RunRoll(job, rerolled, fired)
  PROVE  Inv'
<1> DEFINE done == [Stored EXCEPT !.outbox = @ \ {job}]
<1>1. Sound(done) /\ done.state = campaign BY JobDone
<1>2. job.hero \in Heroes /\ campaign.checks[job.hero] # "pending"
  <2>1. campaign.checks[job.hero] \in {"lucky", "rolling"} BY DEF RunRoll
  <2>2. job \in Jobs /\ job.kind = "roll" BY StoredSound DEF RunRoll
  <2>3. job.hero \in Heroes BY <2>2 DEF Jobs
  <2> QED BY <2>1, <2>3
<1> HIDE DEF done
<1>3. Sound(RecordCheckRoll(done, job.hero, rerolled, fired))
  BY <1>1, <1>2, RecordCheckRollSound
<1>4. Commit(RecordCheckRoll(done, job.hero, rerolled, fired)) BY DEF RunRoll, done
<1> QED BY <1>3, <1>4, CommitInv, HandKept DEF RunRoll

\* DraftPlan keeps the table in order.
LEMMA DraftPlanInv ==
  ASSUME Inv, NEW job \in outbox, NEW called \in SUBSET Heroes, NEW move \in PlannedMoves,
         DraftPlan(job, called, move)
  PROVE  Inv'
<1>1. job \in Jobs BY StoredSound
<1>2. job.round \in Nat BY <1>1 DEF Jobs
<1>3. Acting(campaign) \in SUBSET Heroes BY DEF Acting
<1>4. draft' \in Drafts BY <1>2, <1>3 DEF DraftPlan, Drafts
<1> QED BY <1>4 DEF DraftPlan, Inv, TypeOK, TableInOrder

\* ApplyDraft keeps the table in order.
LEMMA ApplyDraftInv ==
  ASSUME Inv, NEW fired \in BOOLEAN, ApplyDraft(fired)
  PROVE  Inv'
<1> DEFINE done == [Stored EXCEPT !.outbox = @ \ {JobFor("plan", draft.round)}]
           fresh == Active /\ campaign.phase = "planning" /\ campaign.lastRound = draft.round
           next == IF ~fresh THEN done
                   ELSE IF draft.acting # Acting(campaign) THEN Stored
                   ELSE ApplyRoundPlan(done, draft.called, draft.move, fired)
<1>1. Sound(Stored) /\ Stored.state = campaign BY StoredSound
<1>2. Sound(done) /\ done.state = campaign BY JobDone
<1>3. draft.called \in SUBSET Heroes /\ draft.move \in PlannedMoves
  BY DEF Inv, TypeOK, Drafts
<1>4. HandTyped' BY NoDraftType DEF ApplyDraft, HandTyped, Inv, TypeOK
<1>5. Commit(next) BY DEF ApplyDraft
<1> HIDE DEF done
<1>6. ASSUME fresh PROVE Sound(ApplyRoundPlan(done, draft.called, draft.move, fired))
  BY <1>2, <1>3, <1>6, ApplyRoundPlanSound DEF Active
<1>7. Sound(next) BY <1>1, <1>2, <1>6
<1> HIDE DEF next
<1> QED BY <1>4, <1>5, <1>7, CommitInv

\* ReportPlannerFailure keeps the table in order.
LEMMA ReportPlannerFailureInv ==
  ASSUME Inv, ReportPlannerFailure
  PROVE  Inv'
<1> DEFINE done == [Stored EXCEPT !.outbox = @ \ {JobFor("plan", draft.round)}]
           held == campaign.phase = "planning" /\ campaign.lastRound = draft.round
           c == [campaign EXCEPT !.plannerFailed = TRUE]
           told == [done EXCEPT !.state.plannerFailed = TRUE]
<1>1. campaign \in CampaignStates BY StoredSound
<1>2. Sound(done) /\ done.state = campaign BY JobDone
<1>3. c \in CampaignStates BY <1>1, SetPlannerFailed
<1>4. SameTable(campaign, c) BY <1>1 DEF CampaignStates, SameTable
<1>5. Commit(IF held THEN told ELSE done) BY DEF ReportPlannerFailure
<1>6. HandTyped' BY NoDraftType DEF ReportPlannerFailure, HandTyped, Inv, TypeOK
<1> HIDE DEF done
<1>7. told = [done EXCEPT !.state = c] BY <1>2
<1> HIDE DEF c, told
<1>8. Sound(told) BY <1>2, <1>3, <1>4, <1>7, SameTableSound
<1> QED BY <1>2, <1>5, <1>6, <1>8, CommitInv

\* RunNarrate keeps the table in order.
LEMMA RunNarrateInv ==
  ASSUME Inv, NEW job \in outbox, NEW tooSoon \in BOOLEAN, RunNarrate(job, tooSoon)
  PROVE  Inv'
<1> DEFINE done == [Stored EXCEPT !.outbox = @ \ {job}]
           c == [campaign EXCEPT !.lastNarrated = job.round]
           kept == [done EXCEPT !.state.lastNarrated = job.round]
           next == IF ~NarrationWanted(job.round) THEN done
                   ELSE IF Active THEN OpenRound(kept, TRUE, tooSoon) ELSE kept
<1>1. campaign \in CampaignStates /\ job \in Jobs BY StoredSound
<1>2. Sound(done) /\ done.state = campaign BY JobDone
<1>3. c \in CampaignStates
  <2>1. job.round \in Nat BY <1>1 DEF Jobs
  <2> QED BY <1>1, <2>1, SetLastNarrated
<1>4. SameTable(campaign, c) BY <1>1 DEF CampaignStates, SameTable
<1>5. Commit(next) BY DEF RunNarrate
<1> HIDE DEF done
<1>6. kept = [done EXCEPT !.state = c] BY <1>2
<1> HIDE DEF c, kept
<1>7. Sound(kept) BY <1>2, <1>3, <1>4, <1>6, SameTableSound
<1>8. Sound(OpenRound(kept, TRUE, tooSoon)) BY <1>7, OpenRoundSound
<1>9. Sound(next) BY <1>2, <1>7, <1>8
<1> HIDE DEF next
<1> QED BY <1>5, <1>9, CommitInv, HandKept DEF RunNarrate

\* The campaign the adventure begins with is sound.
LEMMA BegunSound ==
  ASSUME Inv
  PROVE  Sound(Begun)
<1> DEFINE c == [campaign EXCEPT !.opening = "pending"]
           e == [Stored EXCEPT !.state.opening = "pending"]
<1>1. campaign \in CampaignStates /\ Stored.state = campaign BY StoredSound
<1>2. c \in CampaignStates BY <1>1, SetOpening
<1>3. SameTable(campaign, c) BY <1>1 DEF CampaignStates, SameTable
<1>4. e = [Stored EXCEPT !.state = c] BY <1>1
<1> HIDE DEF c, e
<1>5. Sound(e) BY <1>2, <1>3, <1>4, QuietCommand
<1>6. JobFor("narrateOpening", 0) \in Jobs BY JobTypes
<1> QED BY <1>5, <1>6, RequestSound DEF Begun, e

\* BeginAdventure keeps the table in order.
LEMMA BeginAdventureInv ==
  ASSUME Inv, BeginAdventure
  PROVE  Inv'
BY BegunSound, CommitInv, HandKept DEF BeginAdventure

\* RunOpening keeps the table in order.
LEMMA RunOpeningInv ==
  ASSUME Inv, NEW job \in outbox, NEW tooSoon \in BOOLEAN, RunOpening(job, tooSoon)
  PROVE  Inv'
<1> DEFINE done == [Stored EXCEPT !.outbox = @ \ {job}]
           c == [campaign EXCEPT !.opening = "waiting", !.ready = {}]
           told == [Stored EXCEPT !.outbox = @ \ {job}, !.state.opening = "waiting",
                                  !.state.ready = {}]
<1>1. campaign \in CampaignStates /\ Stored.state = campaign /\ Stored \in Decisions
  BY StoredSound
<1>2. Sound(done) /\ done.state = campaign /\ done \in Decisions BY JobDone
<1>3. c \in CampaignStates BY <1>1, SetOpening, SetReady, Zenon
<1>4. SameTable(campaign, c) BY <1>1 DEF CampaignStates, SameTable
<1>5. Commit(FinishReadyCheck(told, TRUE, tooSoon)) BY DEF RunOpening
<1>6. told = [done EXCEPT !.state = c] BY <1>1 DEF Decisions
<1> HIDE DEF done, c, told
<1>7. Sound(told) BY <1>2, <1>3, <1>4, <1>6, SameTableSound
<1>8. Sound(FinishReadyCheck(told, TRUE, tooSoon)) BY <1>7, FinishReadyCheckSound
<1> QED BY <1>5, <1>8, CommitInv, HandKept DEF RunOpening

\* CrashAndRecover keeps the table in order.
LEMMA CrashAndRecoverInv ==
  ASSUME Inv, CrashAndRecover
  PROVE  Inv'
<1> DEFINE begun == IF MayBegin THEN Begun ELSE Stored
           next == IF (RoundTimed \/ RollTimed) /\ campaign.pausedBy = "nobody"
                   THEN PauseCampaign(begun, "recovery") ELSE begun
<1>1. Sound(begun) BY BegunSound, StoredSound
<1>2. Commit(next) /\ HandTyped' BY NoDraftType DEF CrashAndRecover, HandTyped
<1> HIDE DEF begun
<1>3. Sound(PauseCampaign(begun, "recovery"))
  BY <1>1, PauseCampaignSound DEF Pausers, Sound, InOrder
<1>4. Sound(next) BY <1>1, <1>3
<1> HIDE DEF next
<1> QED BY <1>2, <1>4, CommitInv

-----------------------------------------------------------------------------
(* The theorems.                                                           *)

\* A campaign starts in order.
LEMMA InitInv == Init => Inv
<1> SUFFICES ASSUME Init PROVE Inv OBVIOUS
<1> DEFINE c == StartingState(Seats, StartScene)
<1>1. c \in CampaignStates
  BY EmptyTypes, SeatsAssumption DEF StartingState, CampaignStates, Pausers, Rests
<1>2. TypeOK
  <2> HIDE DEF c
  <2>1. c.lastRound = 0 BY DEF c, StartingState
  <2> QED BY <1>1, <2>1, NoDraftType, BoundAssumption DEF TypeOK, Init, c
<1>3. /\ c.status = "active" /\ c.pausedBy = "nobody" /\ c.hero = Seats /\ c.away = {}
      /\ c.phase = "none" /\ c.checks = NoChecks
  BY DEF StartingState
<1>4. InOrder(c, {})
  <2> HIDE DEF c
  <2>1. Consistent(c, {}) BY <1>3, SeatsAssumption DEF Consistent, NoChecks
  <2>2. Present(c) # {} BY <1>3, SeatsAssumption DEF Present, Members
  <2> QED BY <1>3, <2>1, <2>2 DEF InOrder, SlotsOpen, OnlyPausesHoldRounds
<1> QED BY <1>2, <1>4 DEF Inv, TableInOrder, Init

\* Every step keeps the table in order.
LEMMA StepInv == Inv /\ [Next]_vars => Inv'
<1> SUFFICES ASSUME Inv, [Next]_vars PROVE Inv' OBVIOUS
<1>1. CASE UserStep
  <2>1. \A u \in Users, h \in Heroes :
          SubmitAction(u, h) \/ Pass(u, h) \/ RequestRoll(u, h) \/ JoinHero(u, h) => Inv'
    BY RespondInv, RequestRollInv, JoinHeroInv DEF SubmitAction, Pass
  <2>2. CloseRoundByOrganizer \/ RetryPlan => Inv' BY CloseRoundByOrganizerInv, RetryPlanInv
  <2>3. \A u \in Users : MarkMemberReturned(u) \/ Retire(u) => Inv'
    BY MarkMemberReturnedInv, RetireInv
  <2>4. \A u \in Users, tooSoon \in BOOLEAN :
          MarkMemberAway(u, tooSoon) \/ MarkReady(u, tooSoon) => Inv'
    BY MarkMemberAwayInv, MarkReadyInv
  <2>5. \A tooSoon \in BOOLEAN : EndRest(tooSoon) \/ BeginPlay(tooSoon) => Inv'
    BY EndRestInv, BeginPlayInv
  <2>6. \A u \in Users, tooSoon, fired \in BOOLEAN : Continue(u, tooSoon, fired) => Inv'
    BY ContinueInv
  <2>7. \A reason \in {"organizer", "safety"} : Pause(reason) => Inv' BY PauseInv
  <2> QED BY <1>1, <2>1, <2>2, <2>3, <2>4, <2>5, <2>6, <2>7, MoveCommandsInv, RestCommandsInv
          DEF UserStep
<1>2. CASE TimerStep
  BY <1>2, RoundTimerFiresInv, RollTimerFiresInv, TimerListInv DEF TimerStep
<1>3. CASE RollStep BY <1>3, RunRollInv DEF RollStep
<1>4. CASE DraftStep BY <1>4, DraftPlanInv DEF DraftStep
<1>5. CASE AnswerStep BY <1>5, ApplyDraftInv, ReportPlannerFailureInv DEF AnswerStep
<1>6. CASE NarrateStep BY <1>6, RunNarrateInv, RunOpeningInv DEF NarrateStep
<1>7. CASE BeginAdventure BY <1>7, BeginAdventureInv
<1>8. CASE CrashAndRecover BY <1>8, CrashAndRecoverInv
<1>9. CASE UNCHANGED vars BY <1>9 DEF vars, hand, Inv, TypeOK, TableInOrder
<1> QED BY <1>1, <1>2, <1>3, <1>4, <1>5, <1>6, <1>7, <1>8, <1>9 DEF Next

\* Every reachable table has its shape and is in order.
THEOREM Invariance == Spec => []Inv
BY InitInv, StepInv, PTL DEF Spec

\* Every command, timer, roll and model call leaves the table in order.
THEOREM TableStaysInOrder == Spec => []TableInOrder
<1>1. Inv => TableInOrder BY DEF Inv
<1> QED BY <1>1, Invariance, PTL

\* Nothing a command, a timer, a roll or a model call stores is malformed: no
\* round number is negative, no job or timer names a hero that does not exist.
THEOREM TypeCorrect == Spec => []TypeOK
<1>1. Inv => TypeOK BY DEF Inv
<1> QED BY <1>1, Invariance, PTL

\* A table is active only while somebody is at it.
THEOREM NeverPlaysEmpty == Spec => []ActiveMeansSomeonePresent
<1>1. Inv => ActiveMeansSomeonePresent
  BY DEF Inv, TableInOrder, InOrder, ActiveMeansSomeonePresent, Active
<1> QED BY <1>1, Invariance, PTL

\* While a campaign is paused no deadline is running, and no timer outlives the
\* window it was armed for.
THEOREM TimersBelongToWindows == Spec => []TimersInOrder
<1>1. Inv => PausedMeansStill
  BY DEF Inv, TableInOrder, InOrder, Consistent, PausedMeansStill
<1>2. Inv => NoOrphanTimer
  BY DEF Inv, TableInOrder, InOrder, Consistent, HeldTimers, RoundTimer, RollTimer, NoOrphanTimer
<1>3. Inv => TimersInOrder
  BY <1>1, <1>2 DEF TimersInOrder
<1> QED BY <1>3, Invariance, PTL

\* A round that collects answers waits for somebody who is there to give one.
THEOREM NobodyGoneIsWaitedFor == Spec => []SlotsWaitOnThePresent
<1>1. Inv => SlotsWaitOnThePresent
  BY DEF Inv, TableInOrder, InOrder, SlotsOpen, OpenSlots, ParticipantsFor, SlotsWaitOnThePresent
<1> QED BY <1>1, Invariance, PTL

-----------------------------------------------------------------------------
(* What the operators never do to a table's rounds.                        *)

\* A part of a handler that leaves the round where it is, and no member worse off.
Quiet(c, e) ==
  /\ e.status = c.status /\ e.phase = c.phase
  /\ e.submissions = c.submissions /\ e.lastRound = c.lastRound
  /\ \A u \in Users : e.misses[u] <= c.misses[u]

\* What closed keeps its answers, but for heroes nobody plays any more.
AnswersStand(c, e) ==
  c.phase \in {"planning", "resolving"} /\ e.phase = c.phase =>
    \A h \in Heroes :
      e.submissions[h] = c.submissions[h] \/ h \notin {e.hero[u] : u \in Users}

\* What every handler may do but a continue and the round's timer: a table that
\* waits waits on in the same round, and nobody misses anything.
Gentle(c, e) ==
  /\ c.status = "waitingForPlayers" =>
       e.status = "waitingForPlayers" /\ e.lastRound = c.lastRound
  /\ AnswersStand(c, e)
  /\ \A u \in Users : e.misses[u] <= c.misses[u]

\* A quiet part, and then a gentle one.
LEMMA QuietThenGentle ==
  ASSUME NEW c \in CampaignStates, NEW e \in CampaignStates, NEW f \in CampaignStates,
         Quiet(c, e)
  PROVE  /\ Quiet(e, f) => Quiet(c, f)
         /\ Gentle(e, f) => Gentle(c, f)
         /\ Gentle(c, e)
<1>1. \A u \in Users : c.misses[u] \in Nat /\ e.misses[u] \in Nat /\ f.misses[u] \in Nat
  BY FieldTypes
<1>2. ASSUME \A u \in Users : f.misses[u] <= e.misses[u]
      PROVE  \A u \in Users : f.misses[u] <= c.misses[u]
  BY <1>1, <1>2 DEF Quiet
<1> QED BY <1>1, <1>2 DEF Quiet, Gentle, AnswersStand

\* Nothing happens.
LEMMA QuietSelf ==
  ASSUME NEW c \in CampaignStates
  PROVE  Quiet(c, c) /\ Gentle(c, c)
<1>1. \A u \in Users : c.misses[u] \in Nat BY FieldTypes
<1> QED BY <1>1 DEF Quiet, Gentle, AnswersStand

\* A handler that changes nothing of the table and no count.
LEMMA SameTableQuiet ==
  ASSUME NEW c \in CampaignStates, NEW e, SameTable(c, e), e.misses = c.misses
  PROVE  Quiet(c, e)
<1>1. \A u \in Users : c.misses[u] \in Nat BY FieldTypes
<1> QED BY <1>1 DEF Quiet, SameTable

\* The parts of the engine's operators that are quiet.
LEMMA QuietParts ==
  ASSUME NEW c \in CampaignStates
  PROVE  /\ \A tooSoon \in BOOLEAN : Quiet(c, TakeQueuedRest(c, tooSoon))
         /\ \A scene : Quiet(c, SceneTransitioned(c, scene))
         /\ \A scene : Quiet(c, ProposeMove(c, scene))
         /\ \A scene, n : Quiet(c, MoveProposed(c, scene, n))
         /\ \A outcome : Quiet(c, Settle(c, outcome))
         /\ \A rest : Quiet(c, RestTaken(c, rest))
<1>1. \A tooSoon \in BOOLEAN : TakeQueuedRest(c, tooSoon).misses = c.misses
  BY DEF CampaignStates, TakeQueuedRest, RestTaken
<1>2. \A scene : SceneTransitioned(c, scene).misses = c.misses
  BY DEF CampaignStates, SceneTransitioned
<1>3. \A scene, n : MoveProposed(c, scene, n).misses = c.misses
  BY DEF CampaignStates, MoveProposed
<1>4. \A scene : ProposeMove(c, scene).misses = c.misses
  BY <1>3 DEF ProposeMove
<1>5. \A outcome : Settle(c, outcome).misses = c.misses
  BY DEF CampaignStates, Settle, SceneTransitioned
<1>6. \A rest : RestTaken(c, rest).misses = c.misses /\ SameTable(c, RestTaken(c, rest))
  BY DEF CampaignStates, RestTaken, SameTable
<1> QED BY <1>1, <1>2, <1>3, <1>4, <1>5, <1>6, SameTableQuiet, TakeQueuedRestTable,
           SceneTransitionedTable, ProposeMoveTable, MoveProposedTable, SettleTable

\* enterWaiting stops the table where it is.
LEMMA EnterWaitingGentle ==
  ASSUME NEW d \in Decisions, NEW c \in CampaignStates, Gentle(c, d.state)
  PROVE  Gentle(c, EnterWaiting(d).state)
<1>1. d.state \in CampaignStates BY DecisionTypes
<1>2. LET e == EnterWaiting(d).state IN
      /\ e.status = "waitingForPlayers" /\ e.phase = d.state.phase
      /\ e.submissions = d.state.submissions /\ e.lastRound = d.state.lastRound
      /\ e.misses = d.state.misses /\ e.hero = d.state.hero
  BY <1>1 DEF EnterWaiting, Decisions, CampaignStates
<1> QED BY <1>2 DEF Gentle, AnswersStand

\* openRound finds a table that waits, or is in a round, and leaves it alone.
LEMMA OpenRoundGentle ==
  ASSUME NEW d \in Decisions, NEW bySystem \in BOOLEAN, NEW tooSoon \in BOOLEAN
  PROVE  Gentle(d.state, OpenRound(d, bySystem, tooSoon).state)
<1> DEFINE rested == [d EXCEPT !.state = TakeQueuedRest(@, tooSoon)]
           c == rested.state
<1>1. d.state \in CampaignStates BY DecisionTypes
<1>2. c \in CampaignStates /\ rested \in Decisions /\ c = TakeQueuedRest(d.state, tooSoon)
  <2>1. TakeQueuedRest(d.state, tooSoon) \in CampaignStates BY <1>1, TakeQueuedRestType
  <2> QED BY <1>1, <2>1 DEF Decisions
<1>3. Quiet(d.state, c) BY <1>1, <1>2, QuietParts
<1> HIDE DEF rested
<1>4. Gentle(d.state, d.state) /\ Gentle(d.state, c)
  BY <1>1, <1>2, <1>3, QuietSelf, QuietThenGentle
<1>5. CASE d.state.status = "waitingForPlayers" \/ d.state.phase # "none"
  BY <1>4, <1>5 DEF OpenRound
<1>6. CASE ~(d.state.status = "waitingForPlayers" \/ d.state.phase # "none")
  <2>1. OpenRound(d, bySystem, tooSoon) \in {rested, BeginRound(rested), EnterWaiting(rested)}
    BY <1>6 DEF OpenRound, rested
  <2>2. BeginRound(rested).state = RoundOpened(c)
    BY <1>2 DEF BeginRound, Decisions
  <2>3. RoundOpened(c).misses = c.misses BY <1>2 DEF RoundOpened, CampaignStates
  <2>4. Gentle(d.state, BeginRound(rested).state)
    BY <1>3, <1>6, <2>2, <2>3 DEF Gentle, AnswersStand, Quiet
  <2>5. Gentle(d.state, EnterWaiting(rested).state)
    BY <1>1, <1>2, <1>4, EnterWaitingGentle
  <2> QED BY <1>4, <2>1, <2>4, <2>5
<1> QED BY <1>5, <1>6

\* So does the end of the ready check.
LEMMA FinishReadyCheckGentle ==
  ASSUME NEW d \in Decisions, NEW bySystem \in BOOLEAN, NEW tooSoon \in BOOLEAN
  PROVE  Gentle(d.state, FinishReadyCheck(d, bySystem, tooSoon).state)
<1> DEFINE opened == [d EXCEPT !.state.opening = "done"]
           e == OpenRound(opened, bySystem, tooSoon).state
<1>1. d.state \in CampaignStates BY DecisionTypes
<1>2. CASE d.state.opening = "waiting" /\ d.state.status = "active"
             /\ Present(d.state) \subseteq d.state.ready
  <2>1. [d.state EXCEPT !.opening = "done"] \in CampaignStates BY <1>1, SetOpening
  <2>2. opened \in Decisions /\ opened.state = [d.state EXCEPT !.opening = "done"]
    BY <1>1, <2>1 DEF Decisions
  <2>3. /\ opened.state.status = d.state.status /\ opened.state.phase = d.state.phase
        /\ opened.state.submissions = d.state.submissions
        /\ opened.state.lastRound = d.state.lastRound
        /\ opened.state.misses = d.state.misses
    BY <1>1, <2>2 DEF CampaignStates
  <2> HIDE DEF opened
  <2>4. Gentle(opened.state, e) BY <2>2, OpenRoundGentle
  <2>5. Gentle(d.state, e) BY <2>3, <2>4 DEF Gentle, AnswersStand
  <2> QED BY <1>2, <2>5 DEF FinishReadyCheck, opened
<1>3. CASE ~(d.state.opening = "waiting" /\ d.state.status = "active"
             /\ Present(d.state) \subseteq d.state.ready)
  <2>1. FinishReadyCheck(d, bySystem, tooSoon) = d BY <1>3 DEF FinishReadyCheck
  <2> QED BY <1>1, <2>1, QuietSelf
<1> QED BY <1>2, <1>3

\* What a closing round leaves, and what it counts.
LEMMA RoundClosedCounts ==
  ASSUME NEW c \in CampaignStates, NEW byTimer \in BOOLEAN
  PROVE  LET e == MarkIdleAway(SettleDueMove(RoundClosed(c, byTimer))) IN
         /\ e \in CampaignStates /\ RoundResolved(e) \in CampaignStates
         /\ e.status = c.status /\ e.lastRound = c.lastRound
         /\ RoundResolved(e).status = c.status /\ RoundResolved(e).lastRound = c.lastRound
         /\ RoundResolved(e).misses = e.misses
         /\ \A u \in Users :
              e.misses[u] <= c.misses[u] \/ (byTimer /\ c.hero[u] \in Missed(c))
<1> DEFINE c1 == RoundClosed(c, byTimer)
           c2 == SettleDueMove(c1)
           c3 == MarkIdleAway(c2)
<1>1. c1 \in CampaignStates /\ c2 \in CampaignStates /\ c3 \in CampaignStates
  BY RoundClosedType, SettleDueMoveType, MarkIdleAwayType
<1>2. RoundResolved(c3) \in CampaignStates BY <1>1, RoundResolvedType
<1>3. c1.status = c.status /\ c1.lastRound = c.lastRound BY RoundClosedTable
<1>4. c1.misses = [u \in Users |-> IF byTimer /\ c.hero[u] \in Missed(c) THEN c.misses[u] + 1
                                   ELSE c.misses[u]]
  BY DEF RoundClosed, CampaignStates
<1> HIDE DEF c1
<1>5. c2.status = c1.status /\ c2.lastRound = c1.lastRound /\ c2.misses = c1.misses
  <2>1. \A outcome : Settle(c1, outcome).misses = c1.misses
    BY <1>1 DEF CampaignStates, Settle, SceneTransitioned
  <2>2. c2.misses = c1.misses BY <2>1 DEF SettleDueMove
  <2>3. SameTable(c1, c2) BY <1>1, SettleDueMoveTable
  <2> QED BY <2>2, <2>3 DEF SameTable
<1> HIDE DEF c2
<1>6. c3.status = c2.status /\ c3.lastRound = c2.lastRound BY <1>1, MarkIdleAwayTable
<1>7. \A u \in Users : c3.misses[u] = c2.misses[u] \/ c3.misses[u] = 0
  BY <1>1 DEF MarkIdleAway, CampaignStates
<1>8. \A u \in Users : c.misses[u] \in Nat BY FieldTypes
<1> HIDE DEF c3
<1>9. \A u \in Users : c3.misses[u] <= c.misses[u] \/ (byTimer /\ c.hero[u] \in Missed(c))
  BY <1>4, <1>5, <1>7, <1>8
<1>10. /\ RoundResolved(c3).status = c3.status /\ RoundResolved(c3).lastRound = c3.lastRound
       /\ RoundResolved(c3).misses = c3.misses
  BY <1>1 DEF RoundResolved, CampaignStates
<1> QED BY <1>1, <1>2, <1>3, <1>5, <1>6, <1>9, <1>10 DEF c1, c2, c3

\* A round that closes in a waiting table opens no other, and only its timer counts misses.
LEMMA CloseRoundCounts ==
  ASSUME NEW d \in Decisions, NEW byTimer \in BOOLEAN, d.state.phase = "collecting",
         d.state.status = "waitingForPlayers" => d.state.pausedBy # "nobody"
  PROVE  LET e == CloseRound(d, byTimer).state IN
         /\ d.state.status = "waitingForPlayers" =>
              e.status = "waitingForPlayers" /\ e.lastRound = d.state.lastRound
         /\ \A u \in Users : e.misses[u] <= d.state.misses[u]
                               \/ (byTimer /\ d.state.hero[u] \in Missed(d.state))
<1> DEFINE c == d.state
           n == c.lastRound
           c3 == MarkIdleAway(SettleDueMove(RoundClosed(c, byTimer)))
           T == IF byTimer THEN d.timers ELSE d.timers \ {RoundTimer(n)}
           closed == [d EXCEPT
             !.timers = IF byTimer THEN @ ELSE @ \ {RoundTimer(n)},
             !.state = MarkIdleAway(SettleDueMove(RoundClosed(@, byTimer)))]
           quiet == [closed EXCEPT !.state = RoundResolved(@)]
           asked == Request(closed, JobFor("plan", n))
           Good(e) == /\ c.status = "waitingForPlayers" =>
                           e.status = "waitingForPlayers" /\ e.lastRound = n
                      /\ \A u \in Users : e.misses[u] <= c.misses[u]
                                            \/ (byTimer /\ c.hero[u] \in Missed(c))
<1>1. c \in CampaignStates /\ d.timers \subseteq Timers BY DecisionTypes
<1>2. /\ c3 \in CampaignStates /\ RoundResolved(c3) \in CampaignStates
      /\ c3.status = c.status /\ c3.lastRound = n
      /\ RoundResolved(c3).status = c.status /\ RoundResolved(c3).lastRound = n
      /\ RoundResolved(c3).misses = c3.misses
      /\ \A u \in Users : c3.misses[u] <= c.misses[u] \/ (byTimer /\ c.hero[u] \in Missed(c))
  BY <1>1, RoundClosedCounts
<1>3. /\ closed \in Decisions /\ closed.state = c3
      /\ quiet \in Decisions /\ quiet.state = RoundResolved(c3)
  <2>1. closed = [d EXCEPT !.timers = T, !.state = c3] OBVIOUS
  <2>2. T \subseteq Timers BY <1>1
  <2> HIDE DEF closed, T, c3
  <2>3. closed \in Decisions /\ closed.state = c3
    BY <1>2, <2>1, <2>2 DEF Decisions
  <2> QED BY <1>2, <2>3 DEF Decisions
<1> HIDE DEF c3, closed, quiet
<1>4. Good(closed.state) /\ Good(quiet.state) BY <1>2, <1>3
<1>5. asked.state = closed.state BY <1>3 DEF Request, Decisions
<1>6. ASSUME NEW w \in {closed, quiet} PROVE Good(EnterWaiting(w).state)
  <2>1. w \in Decisions /\ w.state \in CampaignStates BY <1>3, DecisionTypes
  <2>2. /\ EnterWaiting(w).state.status = "waitingForPlayers"
        /\ EnterWaiting(w).state.lastRound = w.state.lastRound
        /\ EnterWaiting(w).state.misses = w.state.misses
    BY <2>1 DEF EnterWaiting, Decisions, CampaignStates
  <2> QED BY <1>4, <2>2
<1>7. ASSUME c.pausedBy = "nobody" PROVE Good(BeginRound(quiet).state)
  <2>1. BeginRound(quiet).state = RoundOpened(quiet.state)
    BY <1>3 DEF BeginRound, Decisions
  <2>2. quiet.state \in CampaignStates BY <1>2, <1>3
  <2>3. RoundOpened(quiet.state).misses = quiet.state.misses
    BY <2>2 DEF RoundOpened, CampaignStates
  <2> QED BY <1>4, <1>7, <2>1, <2>3
<1>8. CloseRound(d, byTimer) =
         IF HasActions(d.state)
         THEN IF Present(closed.state) = {} THEN EnterWaiting(closed) ELSE asked
         ELSE IF Present(closed.state) = {} THEN EnterWaiting(quiet)
              ELSE IF d.state.pausedBy = "nobody" THEN BeginRound(quiet)
              ELSE quiet
  BY DEF CloseRound, closed, quiet
<1> HIDE DEF asked, Good
<1>9. Good(asked.state) BY <1>4, <1>5
<1>10. Good(CloseRound(d, byTimer).state) BY <1>4, <1>6, <1>7, <1>8, <1>9
<1> QED BY <1>10 DEF Good

\* A round that closes because everybody answered.
LEMMA CloseIfEveryoneRespondedGentle ==
  ASSUME NEW d \in Decisions,
         d.state.phase = "collecting" /\ d.state.status = "waitingForPlayers" =>
           d.state.pausedBy # "nobody"
  PROVE  Gentle(d.state, CloseIfEveryoneResponded(d).state)
<1>1. d.state \in CampaignStates BY DecisionTypes
<1>2. CASE /\ d.state.phase = "collecting"
           /\ \A h \in d.state.participants : d.state.submissions[h] # "none"
  <2>1. CloseIfEveryoneResponded(d) = CloseRound(d, FALSE)
    BY <1>2 DEF CloseIfEveryoneResponded
  <2> QED BY <1>2, <2>1, CloseRoundCounts DEF Gentle, AnswersStand
<1>3. CASE ~(/\ d.state.phase = "collecting"
             /\ \A h \in d.state.participants : d.state.submissions[h] # "none")
  <2>1. CloseIfEveryoneResponded(d) = d BY <1>3 DEF CloseIfEveryoneResponded
  <2> QED BY <1>1, <2>1, QuietSelf
<1> QED BY <1>2, <1>3

\* A round that is resolved is over: nothing of it has to stand.
LEMMA FinishRoundIfResolvedGentle ==
  ASSUME NEW d \in Decisions, NEW fired \in BOOLEAN
  PROVE  LET e == FinishRoundIfResolved(d, fired).state IN
         e \in CampaignStates /\ e.status = d.state.status /\ Gentle(d.state, e)
<1> DEFINE c == d.state
           move == c.planned
           moved == IF move.to = NoScene \/ ~fired THEN c
                    ELSE IF move.forced THEN SceneTransitioned(c, move.to)
                    ELSE ProposeMove(c, move.to)
           done == /\ c.status = "active" /\ c.phase = "resolving"
                   /\ \A h \in Heroes : c.checks[h] \in {"none", "resolved"}
           e == [d EXCEPT !.state = RoundResolved(moved)]
<1>1. c \in CampaignStates BY DecisionTypes
<1>2. move.to = NoScene \/ move.to \in Scenes BY <1>1, FieldTypes DEF PlannedMoves
<1>3. moved \in CampaignStates BY <1>1, <1>2, SceneTransitionedType, ProposeMoveType
<1>4. Quiet(c, moved) BY <1>1, QuietParts, QuietSelf
<1> HIDE DEF moved
<1>5. /\ RoundResolved(moved).misses = moved.misses /\ RoundResolved(moved).phase = "none"
      /\ RoundResolved(moved).status = c.status
  BY <1>3, <1>4 DEF RoundResolved, CampaignStates, Quiet
<1>6. Request(e, JobFor("narrate", c.lastRound)).state = RoundResolved(moved)
  BY DEF Request, Decisions
<1>7. FinishRoundIfResolved(d, fired) =
        IF done THEN Request(e, JobFor("narrate", c.lastRound)) ELSE d
  BY DEF FinishRoundIfResolved, moved
<1>8. ASSUME done PROVE Gentle(c, RoundResolved(moved))
  BY <1>4, <1>5, <1>8 DEF Gentle, AnswersStand, Quiet
<1>9. RoundResolved(moved) \in CampaignStates BY <1>3, RoundResolvedType
<1> QED BY <1>1, <1>5, <1>6, <1>7, <1>8, <1>9, QuietSelf

\* A plan makes a planning round a resolving one, or resolves it.
LEMMA ApplyRoundPlanGentle ==
  ASSUME NEW d \in Decisions, NEW called \in SUBSET Heroes, NEW move \in PlannedMoves,
         NEW fired \in BOOLEAN, d.state.phase = "planning", d.state.status = "active"
  PROVE  Gentle(d.state, ApplyRoundPlan(d, called, move, fired).state)
<1> DEFINE n == d.state.lastRound
           checks == [h \in Heroes |-> IF h \in called THEN "pending" ELSE d.state.checks[h]]
           armed == IF RollTimed THEN d.timers \cup {RollTimer(n, h) : h \in called} ELSE d.timers
           c == [d.state EXCEPT !.phase = "resolving", !.planned = move, !.checks = checks]
           planned == [d EXCEPT !.state = c, !.timers = armed]
           done == FinishRoundIfResolved(planned, fired)
<1>1. d.state \in CampaignStates /\ d.timers \subseteq Timers BY DecisionTypes
<1>2. c \in CampaignStates
  <2>1. checks \in [Heroes -> CheckStatus] BY <1>1, FieldTypes DEF CheckStatus
  <2> HIDE DEF checks
  <2> QED BY <1>1, <2>1, SetPhase, SetPlanned, SetChecks, Zenon
<1>3. armed \subseteq Timers
  <2>1. n \in Nat BY <1>1, FieldTypes
  <2> QED BY <1>1, <2>1 DEF RollTimer, Timers
<1>4. c.status = "active" /\ c.phase = "resolving" /\ c.misses = d.state.misses
  <2> HIDE DEF checks
  <2> QED BY <1>1 DEF CampaignStates
<1>5. planned \in Decisions /\ planned.state = c
  <2> HIDE DEF c, armed
  <2> QED BY <1>1, <1>2, <1>3 DEF Decisions
<1>6. ApplyRoundPlan(d, called, move, fired) = done BY <1>1 DEF ApplyRoundPlan
<1> HIDE DEF c, planned
<1>7. done.state.phase \in {"resolving", "none"}
  BY <1>4, <1>5 DEF FinishRoundIfResolved, Request, Decisions, RoundResolved, CampaignStates
<1> HIDE DEF done
<1>8. Gentle(c, done.state) BY <1>5, FinishRoundIfResolvedGentle DEF done
<1> QED BY <1>4, <1>6, <1>7, <1>8 DEF Gentle, AnswersStand

\* enterWaiting keeps a decision's shape.
LEMMA EnterWaitingType ==
  ASSUME NEW d \in Decisions
  PROVE  EnterWaiting(d) \in Decisions
<1> DEFINE T == d.timers \ HeldTimers(d.state)
           c == [d.state EXCEPT !.status = "waitingForPlayers", !.pausedBy = "nobody"]
<1>1. c \in CampaignStates
  <2>1. d.state \in CampaignStates /\ "nobody" \in Pausers BY DecisionTypes DEF Pausers
  <2> QED BY <2>1, SetStatus, SetPausedBy, Zenon
<1>2. T \subseteq Timers BY DecisionTypes
<1>3. EnterWaiting(d) \in {d, [d EXCEPT !.timers = T, !.state = c]} BY DEF EnterWaiting
<1> HIDE DEF c, T
<1>4. [d EXCEPT !.timers = T, !.state = c] \in Decisions BY <1>1, <1>2 DEF Decisions
<1> QED BY <1>3, <1>4

\* closeRound keeps a decision's shape.
LEMMA CloseRoundType ==
  ASSUME NEW d \in Decisions, NEW byTimer \in BOOLEAN
  PROVE  CloseRound(d, byTimer) \in Decisions
<1> DEFINE n == d.state.lastRound
           c3 == MarkIdleAway(SettleDueMove(RoundClosed(d.state, byTimer)))
           T == IF byTimer THEN d.timers ELSE d.timers \ {RoundTimer(n)}
           closed == [d EXCEPT
             !.timers = IF byTimer THEN @ ELSE @ \ {RoundTimer(n)},
             !.state = MarkIdleAway(SettleDueMove(RoundClosed(@, byTimer)))]
           quiet == [closed EXCEPT !.state = RoundResolved(@)]
           U == IF RoundTimed THEN quiet.timers \cup {RoundTimer(quiet.state.lastRound + 1)}
                ELSE quiet.timers
<1>1. d.state \in CampaignStates /\ d.timers \subseteq Timers BY DecisionTypes
<1>2. c3 \in CampaignStates /\ RoundResolved(c3) \in CampaignStates
  BY <1>1, RoundClosedCounts
<1>3. closed \in Decisions /\ quiet \in Decisions
  <2>1. closed = [d EXCEPT !.timers = T, !.state = c3] OBVIOUS
  <2>2. T \subseteq Timers BY <1>1
  <2> HIDE DEF closed, T, c3
  <2>3. closed \in Decisions /\ closed.state = c3
    BY <1>2, <2>1, <2>2 DEF Decisions
  <2> QED BY <1>2, <2>3 DEF Decisions
<1> HIDE DEF c3, closed, quiet
<1>4. Request(closed, JobFor("plan", n)) \in Decisions
  BY <1>1, <1>3, FieldTypes, JobTypes, RequestType
<1>5. BeginRound(quiet) \in Decisions
  <2>1. quiet.state \in CampaignStates /\ quiet.timers \subseteq Timers BY <1>3, DecisionTypes
  <2>2. RoundOpened(quiet.state) \in CampaignStates BY <2>1, RoundOpenedType
  <2>3. RoundTimer(quiet.state.lastRound + 1) \in Timers
    BY <2>1, FieldTypes DEF RoundTimer, Timers
  <2>4. U \subseteq Timers BY <2>1, <2>3
  <2>5. BeginRound(quiet) = [quiet EXCEPT !.state = RoundOpened(quiet.state), !.timers = U]
    BY DEF BeginRound
  <2> HIDE DEF U
  <2> QED BY <1>3, <2>2, <2>4, <2>5 DEF Decisions
<1>6. CloseRound(d, byTimer) \in {EnterWaiting(closed), Request(closed, JobFor("plan", n)),
                                 EnterWaiting(quiet), BeginRound(quiet), quiet}
  BY DEF CloseRound, closed, quiet
<1> QED BY <1>3, <1>4, <1>5, <1>6, EnterWaitingType

\* Rolling is quiet.
LEMMA StartRollsQuiet ==
  ASSUME NEW d \in Decisions, NEW rollers \in SUBSET Heroes, NEW byTimer \in BOOLEAN
  PROVE  Quiet(d.state, StartRolls(d, rollers, byTimer).state)
<1>1. d.state \in CampaignStates BY DecisionTypes
<1>2. \A u \in Users : d.state.misses[u] \in Nat BY <1>1, FieldTypes
<1> DEFINE e == StartRolls(d, rollers, byTimer).state
<1>3. /\ e.status = d.state.status /\ e.phase = d.state.phase
      /\ e.submissions = d.state.submissions /\ e.lastRound = d.state.lastRound
      /\ e.misses = d.state.misses
  BY <1>1 DEF StartRolls, CampaignStates, Decisions
<1> HIDE DEF e
<1>4. Quiet(d.state, e) BY <1>2, <1>3 DEF Quiet
<1> QED BY <1>4 DEF e

\* A recorded roll changes a check, and may resolve the round.
LEMMA RecordCheckRollGentle ==
  ASSUME NEW d \in Decisions, NEW h \in Heroes, NEW rerolled \in BOOLEAN, NEW fired \in BOOLEAN
  PROVE  Gentle(d.state, RecordCheckRoll(d, h, rerolled, fired).state)
<1> DEFINE After(s) == [d EXCEPT !.state.checks[h] = s]
<1>1. d.state \in CampaignStates BY DecisionTypes
<1>2. ASSUME NEW s \in CheckStatus
      PROVE  /\ After(s) \in Decisions /\ After(s).state \in CampaignStates
             /\ Quiet(d.state, After(s).state)
  <2> DEFINE c == [d.state EXCEPT !.checks[h] = s]
             e == After(s)
  <2>1. c \in CampaignStates BY <1>1, SetChecksAt
  <2>2. e \in Decisions /\ e.state = c
    <3>1. e = [d EXCEPT !.state = c] OBVIOUS
    <3> HIDE DEF c, e
    <3> QED BY <2>1, <3>1 DEF Decisions
  <2>3. /\ c.status = d.state.status /\ c.phase = d.state.phase
        /\ c.submissions = d.state.submissions /\ c.lastRound = d.state.lastRound
        /\ c.misses = d.state.misses
    BY <1>1 DEF CampaignStates
  <2>4. \A u \in Users : d.state.misses[u] \in Nat BY <1>1, FieldTypes
  <2> HIDE DEF c, e
  <2>5. Quiet(d.state, c) BY <2>3, <2>4 DEF Quiet
  <2> QED BY <2>1, <2>2, <2>5 DEF e
<1> HIDE DEF After
<1>3. "lucky" \in CheckStatus /\ "resolved" \in CheckStatus BY DEF CheckStatus
<1>4. Request(After("lucky"), RollJob(d.state.lastRound, h, TRUE)).state = After("lucky").state
  BY <1>2, <1>3 DEF Request, Decisions
<1>5. Gentle(d.state, After("lucky").state) BY <1>1, <1>2, <1>3, QuietThenGentle
<1> DEFINE f == FinishRoundIfResolved(After("resolved"), fired).state
<1>6. f \in CampaignStates BY <1>2, <1>3, FinishRoundIfResolvedGentle
<1>7. Gentle(After("resolved").state, f) BY <1>2, <1>3, FinishRoundIfResolvedGentle
<1> HIDE DEF f
<1>8. Gentle(d.state, f) BY <1>1, <1>2, <1>3, <1>6, <1>7, QuietThenGentle
<1> QED BY <1>4, <1>5, <1>8 DEF RecordCheckRoll, After, f

\* Who is marked away, comes back, leaves or answers starts over.
LEMMA MissesCleared ==
  ASSUME NEW c \in CampaignStates, NEW u \in Users
  PROVE  /\ \A v \in Users : c.misses[v] \in Nat
         /\ \A v \in Users : MemberMarkedAway(c, u).misses[v] \in {0, c.misses[v]}
         /\ \A v \in Users : MemberReturned(c, u).misses[v] \in {0, c.misses[v]}
         /\ \A v \in Users : MemberRetired(c, u).misses[v] \in {0, c.misses[v]}
         /\ \A h \in Heroes, s \in Submissions : \A v \in Users :
              Responded(c, u, h, s).misses[v] \in {0, c.misses[v]}
<1>1. \A v \in Users : c.misses[v] \in Nat BY FieldTypes
<1>2. \A v \in Users : MemberMarkedAway(c, u).misses[v] \in {0, c.misses[v]}
  BY DEF MemberMarkedAway, CampaignStates
<1>3. \A v \in Users : MemberReturned(c, u).misses[v] \in {0, c.misses[v]}
  BY DEF MemberReturned, CampaignStates
<1>4. \A v \in Users : MemberRetired(c, u).misses[v] \in {0, c.misses[v]}
  BY DEF MemberRetired, CampaignStates
<1>5. \A h \in Heroes, s \in Submissions : \A v \in Users :
        Responded(c, u, h, s).misses[v] \in {0, c.misses[v]}
  BY DEF Responded, CampaignStates
<1> QED BY <1>1, <1>2, <1>3, <1>4, <1>5

\* A member marked away answers nothing and misses nothing.
LEMMA MarkAwayGentle ==
  ASSUME NEW d, NEW u \in Present(d.state), NEW tooSoon \in BOOLEAN,
         Sound(d), d.state.pausedBy = "nobody",
         MarkAway(d, u, tooSoon).state \in CampaignStates
  PROVE  Gentle(d.state, MarkAway(d, u, tooSoon).state)
<1> DEFINE c == d.state
           h == c.hero[u]
           gone == [d EXCEPT !.state = MemberMarkedAway(@, u)]
           rollers == {g \in Heroes : g = h /\ c.checks[g] = "pending"}
           left == StartRolls(gone, rollers, FALSE)
           asked == /\ c.phase = "collecting"
                    /\ h \in c.participants
                    /\ c.submissions[h] = "none"
           freed == [left EXCEPT !.state.submissions[h] = "excused"]
           excused == IF asked THEN CloseIfEveryoneResponded(freed) ELSE left
           last == MarkAway(d, u, tooSoon).state
<1>1. d \in Decisions /\ c \in CampaignStates BY DecisionTypes DEF Sound
<1>2. u \in Users /\ h \in Heroes BY <1>1, PresentTypes
<1>3. gone \in Decisions /\ gone.state = MemberMarkedAway(c, u) /\ gone.timers = d.timers
  <2>1. MemberMarkedAway(c, u) \in CampaignStates BY <1>1, <1>2, MemberMarkedAwayType
  <2> QED BY <1>1, <2>1 DEF Decisions
<1> HIDE DEF gone
<1>4. Quiet(c, gone.state) /\ gone.state \in CampaignStates
  <2>1. gone.state \in CampaignStates BY <1>3, DecisionTypes
  <2>2. \A v \in Users : c.misses[v] \in Nat /\ gone.state.misses[v] \in {0, c.misses[v]}
    BY <1>1, <1>2, <1>3, MissesCleared
  <2> QED BY <1>1, <1>2, <1>3, <2>1, <2>2, MemberMarkedAwayTable DEF Quiet
<1>5. Consistent(gone.state, gone.timers)
  <2>1. /\ gone.state.status = c.status /\ gone.state.pausedBy = c.pausedBy
        /\ gone.state.hero = c.hero /\ gone.state.phase = c.phase
        /\ gone.state.checks = c.checks /\ gone.state.lastRound = c.lastRound
    BY <1>1, <1>2, <1>3, MemberMarkedAwayTable
  <2> QED BY <1>3, <2>1 DEF Sound, InOrder, Consistent, HeldTimers
<1>6. left \in Decisions /\ left.state \in CampaignStates /\ Quiet(c, left.state)
  <2>1. rollers \in SUBSET Heroes OBVIOUS
  <2> HIDE DEF rollers
  <2>2. left \in Decisions BY <1>3, <1>5, <2>1, StartRollsTable
  <2>3. left.state \in CampaignStates BY <2>2, DecisionTypes
  <2>4. Quiet(gone.state, left.state) BY <1>3, <2>1, StartRollsQuiet
  <2> HIDE DEF left
  <2> QED BY <1>1, <1>4, <2>2, <2>3, <2>4, QuietThenGentle
<1> HIDE DEF left, rollers
<1>7. excused \in Decisions => Gentle(excused.state, last)
  <2>1. MarkAway(d, u, tooSoon) =
          IF excused.state.status = "active" /\ Present(excused.state) = {}
          THEN EnterWaiting(excused)
          ELSE FinishReadyCheck(excused, FALSE, tooSoon)
    BY DEF MarkAway, left, gone, rollers
  <2> HIDE DEF excused
  <2>2. excused \in Decisions => Gentle(excused.state, EnterWaiting(excused).state)
    BY DecisionTypes, QuietSelf, EnterWaitingGentle
  <2>3. excused \in Decisions =>
          Gentle(excused.state, FinishReadyCheck(excused, FALSE, tooSoon).state)
    BY FinishReadyCheckGentle
  <2> QED BY <2>1, <2>2, <2>3
<1>8. CASE asked
  <2> DEFINE e == [left.state EXCEPT !.submissions[h] = "excused"]
  <2>1. e \in CampaignStates BY <1>2, <1>6, SetSubmissionsAt DEF Submissions
  <2>2. freed \in Decisions /\ freed.state = e
    <3>1. freed = [left EXCEPT !.state = e] OBVIOUS
    <3> HIDE DEF e, freed
    <3> QED BY <1>6, <2>1, <3>1 DEF Decisions
  <2>3. e.misses = left.state.misses /\ e.phase = left.state.phase /\ e.status = left.state.status
    BY <1>6 DEF CampaignStates
  <2> HIDE DEF e, freed
  <2>4. c.status = "active"
    BY <1>1, <1>8, FieldTypes DEF Sound, InOrder, OnlyPausesHoldRounds
  <2>5. freed.state.status = "active" BY <1>6, <2>2, <2>3, <2>4 DEF Quiet
  <2>6. CloseIfEveryoneResponded(freed) \in Decisions
    BY <2>2, CloseRoundType DEF CloseIfEveryoneResponded
  <2>7. Gentle(freed.state, CloseIfEveryoneResponded(freed).state)
    BY <2>2, <2>5, CloseIfEveryoneRespondedGentle
  <2>8. excused = CloseIfEveryoneResponded(freed) BY <1>8
  <2> HIDE DEF excused, last
  <2>9. excused.state \in CampaignStates BY <2>6, <2>8, DecisionTypes
  <2>10. \A v \in Users : /\ c.misses[v] \in Nat /\ left.state.misses[v] \in Nat
                          /\ excused.state.misses[v] \in Nat /\ last.misses[v] \in Nat
    BY <1>1, <1>6, <2>9, FieldTypes DEF last
  <2>11. \A v \in Users : /\ left.state.misses[v] <= c.misses[v]
                          /\ excused.state.misses[v] <= left.state.misses[v]
                          /\ last.misses[v] <= excused.state.misses[v]
    BY <1>6, <1>7, <2>2, <2>3, <2>6, <2>7, <2>8 DEF Quiet, Gentle
  <2>12. \A v \in Users : last.misses[v] <= c.misses[v] BY <2>10, <2>11
  <2>13. Gentle(c, last) BY <1>8, <2>4, <2>12 DEF Gentle, AnswersStand
  <2> QED BY <2>13 DEF last
<1>9. CASE ~asked
  <2>1. excused = left BY <1>9
  <2> HIDE DEF asked, excused
  <2> QED BY <1>1, <1>6, <1>7, <2>1, QuietThenGentle
<1> QED BY <1>8, <1>9

\* A retired member takes the hero's answer along and nobody else's.
LEMMA RetireMemberGentle ==
  ASSUME NEW d, NEW u \in Members(d.state), Sound(d), d.state.pausedBy = "nobody",
         RetireMember(d, u).state \in CampaignStates
  PROVE  Gentle(d.state, RetireMember(d, u).state)
<1> DEFINE c == d.state
           h == c.hero[u]
           gone == [d EXCEPT !.state = MemberRetired(@, u)]
           left == CloseIfEveryoneResponded(gone)
           last == RetireMember(d, u).state
<1>1. d \in Decisions /\ c \in CampaignStates BY DecisionTypes DEF Sound
<1>2. u \in Users /\ h \in Heroes BY <1>1, FieldTypes DEF Members
<1>3. gone \in Decisions /\ gone.state = MemberRetired(c, u) /\ gone.state \in CampaignStates
  <2>1. MemberRetired(c, u) \in CampaignStates BY <1>1, <1>2, MemberRetiredType
  <2> QED BY <1>1, <2>1 DEF Decisions
<1> HIDE DEF gone
<1>4. /\ gone.state.status = c.status /\ gone.state.pausedBy = c.pausedBy
      /\ gone.state.hero = [c.hero EXCEPT ![u] = NoHero]
      /\ gone.state.phase = c.phase
      /\ gone.state.submissions =
           [g \in Heroes |-> IF g = h THEN "none" ELSE c.submissions[g]]
      /\ gone.state.lastRound = c.lastRound
  BY <1>1, <1>2, <1>3, MemberRetiredTable
<1>5. \A v \in Users : c.misses[v] \in Nat /\ gone.state.misses[v] \in {0, c.misses[v]}
  BY <1>1, <1>2, <1>3, MissesCleared
<1>6. c.phase = "collecting" => c.status = "active"
  BY <1>1, FieldTypes DEF Sound, InOrder, OnlyPausesHoldRounds
<1>7. left \in Decisions /\ left.state \in CampaignStates
  BY <1>3, CloseRoundType, DecisionTypes DEF CloseIfEveryoneResponded
<1>8. Gentle(gone.state, left.state)
  BY <1>3, <1>4, <1>6, CloseIfEveryoneRespondedGentle
<1>9. c.phase # "collecting" => left = gone BY <1>4 DEF CloseIfEveryoneResponded
<1>10. last \in {left.state, EnterWaiting(left).state} BY DEF RetireMember, gone
<1> HIDE DEF left, last
<1>11. /\ last.status \in {left.state.status, "waitingForPlayers"}
       /\ last.lastRound = left.state.lastRound /\ last.misses = left.state.misses
       /\ last.submissions = left.state.submissions /\ last.hero = left.state.hero
       /\ last.phase = left.state.phase
  BY <1>7, <1>10, ZenonT(60) DEF EnterWaiting, Decisions, CampaignStates
<1>12. \A v \in Users : last.misses[v] <= c.misses[v]
  <2>1. \A v \in Users : left.state.misses[v] \in Nat BY <1>7, FieldTypes
  <2> QED BY <1>5, <1>8, <1>11, <2>1 DEF Gentle
<1>13. h \notin {gone.state.hero[v] : v \in Users}
  <2>1. c.hero \in [Users -> Heroes \cup {NoHero}] BY <1>1, FieldTypes
  <2>2. \A v, w \in Users : c.hero[v] = c.hero[w] /\ c.hero[v] # NoHero => v = w
    BY DEF Sound, InOrder, Consistent
  <2> QED BY <1>2, <1>4, <2>1, <2>2, NoHeroAssumption
<1>14. AnswersStand(c, last)
  <2> SUFFICES ASSUME c.phase \in {"planning", "resolving"}, NEW g \in Heroes
               PROVE  last.submissions[g] = c.submissions[g]
                        \/ g \notin {last.hero[v] : v \in Users}
    BY DEF AnswersStand
  <2>1. last.submissions = gone.state.submissions /\ last.hero = gone.state.hero
    BY <1>9, <1>11
  <2>2. CASE g = h BY <1>13, <2>1, <2>2
  <2>3. CASE g # h BY <1>4, <2>1, <2>3
  <2> QED BY <2>2, <2>3
<1>15. c.status = "waitingForPlayers" =>
         last.status = "waitingForPlayers" /\ last.lastRound = c.lastRound
  BY <1>4, <1>8, <1>11 DEF Gentle
<1>16. Gentle(c, last) BY <1>12, <1>14, <1>15 DEF Gentle
<1> QED BY <1>16 DEF last

\* A step that changes nothing of the round, the status or the counts.
SameRound == /\ campaign'.status = campaign.status /\ campaign'.phase = campaign.phase
             /\ campaign'.submissions = campaign.submissions
             /\ campaign'.lastRound = campaign.lastRound
             /\ campaign'.misses = campaign.misses

\* Such a step is gentle.
LEMMA SameRoundGentle ==
  ASSUME Inv, SameRound
  PROVE  Gentle(campaign, campaign')
<1>1. \A u \in Users : campaign.misses[u] \in Nat BY FieldTypes DEF Inv, TypeOK
<1> QED BY <1>1 DEF SameRound, Gentle, AnswersStand

\* A gentle operator on what a quiet change left makes a gentle step.
LEMMA CommitGentle ==
  ASSUME Inv, Inv', NEW c \in CampaignStates, Quiet(campaign, c), NEW d,
         Gentle(c, d.state), Commit(d)
  PROVE  Gentle(campaign, campaign')
<1>1. campaign \in CampaignStates /\ d.state \in CampaignStates /\ campaign' = d.state
  BY DEF Inv, TypeOK, Commit
<1> QED BY <1>1, QuietThenGentle

\* The commands about a scene move and about rests.
LEMMA VotesAndRestsGentle ==
  ASSUME Inv,
         \/ \E u \in Users, scene \in Scenes : ProposeMoveByPlayer(u, scene)
         \/ \E u \in Users : \/ ObjectToMove(u) \/ SupportMove(u)
                             \/ WithdrawMoveSupport(u) \/ WithdrawObjection(u)
         \/ \E outcome \in {"go", "stay"} : SettleMoveByOrganizer(outcome)
         \/ \E rest \in {"short", "long"} : QueueRest(rest) \/ TakeRest(rest)
         \/ CancelQueuedRest
  PROVE  Gentle(campaign, campaign')
<1>1. campaign \in CampaignStates /\ Stored.state = campaign BY StoredSound
<1>2. ASSUME NEW u \in Users, NEW scene \in Scenes, ProposeMoveByPlayer(u, scene)
      PROVE  SameRound
  BY <1>1, <1>2 DEF ProposeMoveByPlayer, Commit, Stored, MoveProposed, SameRound, CampaignStates
<1>3. ASSUME NEW u \in Users, ObjectToMove(u)
      PROVE  SameRound
  BY <1>1, <1>3 DEF ObjectToMove, Commit, Stored, Objected, Settle, SameRound, SceneTransitioned,
     CampaignStates
<1>4. ASSUME NEW u \in Users, SupportMove(u)
      PROVE  SameRound
  BY <1>1, <1>4 DEF SupportMove, Commit, Stored, Supported, Settle, SameRound, SceneTransitioned,
     CampaignStates
<1>5. ASSUME NEW u \in Users, WithdrawMoveSupport(u) \/ WithdrawObjection(u)
      PROVE  SameRound
  BY <1>1, <1>5 DEF WithdrawMoveSupport, WithdrawObjection, Commit, Stored, SameRound,
     CampaignStates
<1>6. ASSUME NEW outcome, SettleMoveByOrganizer(outcome)
      PROVE  SameRound
  BY <1>1, <1>6 DEF SettleMoveByOrganizer, Commit, Stored, Settle, SceneTransitioned, SameRound,
     CampaignStates
<1>7. ASSUME NEW rest, QueueRest(rest) \/ TakeRest(rest)
      PROVE  SameRound
  BY <1>1, <1>7 DEF QueueRest, TakeRest, Commit, Stored, RestTaken, SameRound, CampaignStates
<1>8. ASSUME CancelQueuedRest
      PROVE  SameRound
  BY <1>1, <1>8 DEF CancelQueuedRest, Commit, Stored, SameRound, CampaignStates
<1> QED BY <1>2, <1>3, <1>4, <1>5, <1>6, <1>7, <1>8, SameRoundGentle

\* An answer is taken in an active table's open round.
LEMMA RespondGentle ==
  ASSUME Inv, Inv', NEW u \in Users, NEW h \in Heroes, NEW s \in {"action", "pass"},
         Respond(u, h, s)
  PROVE  Gentle(campaign, campaign')
<1> DEFINE c == Responded(campaign, u, h, s)
           e == [Stored EXCEPT !.state = c]
           last == CloseIfEveryoneResponded(e)
<1>1. campaign \in CampaignStates /\ Stored \in Decisions /\ Stored.state = campaign
        /\ campaign' \in CampaignStates
  BY StoredSound DEF Inv, TypeOK
<1>2. c \in CampaignStates BY <1>1, RespondedType DEF Submissions
<1>3. e \in Decisions /\ e.state = c
  <2> HIDE DEF c
  <2> QED BY <1>1, <1>2 DEF Decisions
<1>4. campaign' = last.state BY <1>1 DEF Respond, Commit
<1>5. campaign.status = "active" /\ campaign.phase = "collecting"
  BY DEF Respond, MayRespond, Active
<1>6. c.status = "active" BY <1>1, <1>5 DEF Responded, CampaignStates
<1>7. \A v \in Users : campaign.misses[v] \in Nat /\ c.misses[v] \in {0, campaign.misses[v]}
  <2>1. s \in Submissions BY DEF Submissions
  <2> QED BY <1>1, <2>1, MissesCleared
<1> HIDE DEF c, e
<1>8. Gentle(c, last.state) BY <1>3, <1>6, CloseIfEveryoneRespondedGentle
<1>9. \A v \in Users : campaign'.misses[v] \in Nat BY <1>1, FieldTypes
<1>10. \A v \in Users : campaign'.misses[v] <= campaign.misses[v]
  BY <1>4, <1>7, <1>8, <1>9 DEF Gentle
<1> QED BY <1>5, <1>10 DEF Gentle, AnswersStand

\* The other commands of a round and of its members.
LEMMA MembersGentle ==
  ASSUME Inv, Inv', NEW u \in Users, NEW h \in Heroes, NEW tooSoon \in BOOLEAN,
         \/ CloseRoundByOrganizer \/ RequestRoll(u, h) \/ RetryPlan \/ JoinHero(u, h)
         \/ MarkMemberAway(u, tooSoon) \/ MarkMemberReturned(u) \/ Retire(u)
  PROVE  Gentle(campaign, campaign')
<1>1. campaign \in CampaignStates /\ Stored \in Decisions /\ Stored.state = campaign
        /\ Sound(Stored) /\ campaign' \in CampaignStates
  BY StoredSound DEF Inv, TypeOK
<1>2. ASSUME CloseRoundByOrganizer
      PROVE  Gentle(campaign, campaign')
  <2>1. campaign.phase = "collecting" /\ campaign.status = "active"
          /\ campaign' = CloseRound(Stored, FALSE).state
    BY <1>2 DEF CloseRoundByOrganizer, Active, Commit
  <2> QED BY <1>1, <2>1, CloseRoundCounts DEF Gentle, AnswersStand
<1>3. ASSUME RequestRoll(u, h)
      PROVE  Gentle(campaign, campaign')
  <2>1. Commit(StartRolls(Stored, {h}, FALSE)) BY <1>3 DEF RequestRoll
  <2>2. Quiet(campaign, StartRolls(Stored, {h}, FALSE).state) BY <1>1, StartRollsQuiet
  <2> QED BY <1>1, <2>1, <2>2, QuietThenGentle DEF Commit
<1>4. ASSUME RetryPlan
      PROVE  SameRound
  BY <1>1, <1>4 DEF RetryPlan, Commit, Stored, Request, SameRound, CampaignStates
<1>5. ASSUME JoinHero(u, h)
      PROVE  SameRound
  BY <1>1, <1>5 DEF JoinHero, Commit, Stored, SameRound, CampaignStates
<1>6. ASSUME MarkMemberAway(u, tooSoon)
      PROVE  Gentle(campaign, campaign')
  BY <1>1, <1>6, MarkAwayGentle DEF MarkMemberAway, UserMay, Commit
<1>7. ASSUME MarkMemberReturned(u)
      PROVE  Gentle(campaign, campaign')
  <2>1. campaign' = MemberReturned(campaign, u) BY <1>1, <1>7 DEF MarkMemberReturned, Commit, Stored
  <2>2. \A v \in Users : campaign.misses[v] \in Nat
                           /\ campaign'.misses[v] \in {0, campaign.misses[v]}
    BY <1>1, <2>1, MissesCleared
  <2>3. Quiet(campaign, campaign') BY <1>1, <2>1, <2>2, MemberReturnedTable DEF Quiet
  <2> QED BY <1>1, <2>3, QuietThenGentle
<1>8. ASSUME Retire(u)
      PROVE  Gentle(campaign, campaign')
  BY <1>1, <1>8, RetireMemberGentle DEF Retire, UserMay, Commit
<1> QED BY <1>2, <1>3, <1>4, <1>5, <1>6, <1>7, <1>8, SameRoundGentle

\* The commands that open rounds, and a pause.
LEMMA OpeningsGentle ==
  ASSUME Inv, Inv', NEW u \in Users, NEW tooSoon \in BOOLEAN, NEW reason \in Pausers,
         EndRest(tooSoon) \/ BeginPlay(tooSoon) \/ MarkReady(u, tooSoon) \/ Pause(reason)
  PROVE  Gentle(campaign, campaign')
<1>1. campaign \in CampaignStates /\ Stored \in Decisions /\ Stored.state = campaign
        /\ campaign' \in CampaignStates
  BY StoredSound DEF Inv, TypeOK
<1>2. ASSUME NEW c \in CampaignStates, SameTable(campaign, c), c.misses = campaign.misses
      PROVE  LET e == [Stored EXCEPT !.state = c] IN
             Quiet(campaign, c) /\ e \in Decisions /\ e.state = c
  BY <1>1, <1>2, SameTableQuiet DEF Decisions
<1>3. ASSUME EndRest(tooSoon)
      PROVE  Gentle(campaign, campaign')
  <2> DEFINE c == [campaign EXCEPT !.resting = "none"]
             e == [Stored EXCEPT !.state = c]
  <2>1. c \in CampaignStates BY <1>1, SetResting DEF Rests
  <2>2. SameTable(campaign, c) /\ c.misses = campaign.misses
    BY <1>1 DEF CampaignStates, SameTable
  <2>3. Commit(OpenRound(e, FALSE, tooSoon)) BY <1>1, <1>3 DEF EndRest
  <2> HIDE DEF c
  <2>4. Quiet(campaign, c) /\ e \in Decisions /\ e.state = c BY <1>2, <2>1, <2>2
  <2> HIDE DEF e
  <2>5. Gentle(c, OpenRound(e, FALSE, tooSoon).state) BY <2>4, OpenRoundGentle
  <2> QED BY <2>1, <2>3, <2>4, <2>5, CommitGentle
<1>4. ASSUME BeginPlay(tooSoon)
      PROVE  Gentle(campaign, campaign')
  <2> DEFINE c == [campaign EXCEPT !.opening = "done"]
             e == [Stored EXCEPT !.state = c]
  <2>1. c \in CampaignStates BY <1>1, SetOpening
  <2>2. SameTable(campaign, c) /\ c.misses = campaign.misses
    BY <1>1 DEF CampaignStates, SameTable
  <2>3. Commit(OpenRound(e, FALSE, tooSoon)) BY <1>1, <1>4 DEF BeginPlay
  <2> HIDE DEF c
  <2>4. Quiet(campaign, c) /\ e \in Decisions /\ e.state = c BY <1>2, <2>1, <2>2
  <2> HIDE DEF e
  <2>5. Gentle(c, OpenRound(e, FALSE, tooSoon).state) BY <2>4, OpenRoundGentle
  <2> QED BY <2>1, <2>3, <2>4, <2>5, CommitGentle
<1>5. ASSUME MarkReady(u, tooSoon)
      PROVE  Gentle(campaign, campaign')
  <2> DEFINE c == [campaign EXCEPT !.ready = @ \cup {u}]
             e == [Stored EXCEPT !.state = c]
  <2>1. c \in CampaignStates
    <3>1. campaign.ready \cup {u} \subseteq Users BY <1>1, FieldTypes
    <3> QED BY <1>1, <3>1, SetReady
  <2>2. SameTable(campaign, c) /\ c.misses = campaign.misses
    BY <1>1 DEF CampaignStates, SameTable
  <2>3. Commit(FinishReadyCheck(e, FALSE, tooSoon)) BY <1>1, <1>5 DEF MarkReady
  <2> HIDE DEF c
  <2>4. Quiet(campaign, c) /\ e \in Decisions /\ e.state = c BY <1>2, <2>1, <2>2
  <2> HIDE DEF e
  <2>5. Gentle(c, FinishReadyCheck(e, FALSE, tooSoon).state) BY <2>4, FinishReadyCheckGentle
  <2> QED BY <2>1, <2>3, <2>4, <2>5, CommitGentle
<1>6. ASSUME Pause(reason)
      PROVE  Gentle(campaign, campaign')
  <2>1. /\ campaign'.status = "waitingForPlayers" /\ campaign'.phase = campaign.phase
        /\ campaign'.submissions = campaign.submissions
        /\ campaign'.lastRound = campaign.lastRound /\ campaign'.misses = campaign.misses
    BY <1>1, <1>6, ZenonT(60) DEF Pause, Commit, PauseCampaign, Stored, CampaignStates
  <2>2. \A v \in Users : campaign.misses[v] \in Nat BY <1>1, FieldTypes
  <2> QED BY <2>1, <2>2 DEF Gentle, AnswersStand
<1> QED BY <1>3, <1>4, <1>5, <1>6

\* A roll's timer, the dice and the planner's answer.
LEMMA DiceAndPlanGentle ==
  ASSUME Inv, Inv', NEW rerolled \in BOOLEAN, NEW fired \in BOOLEAN,
         \/ \E t \in due : RollTimerFires(t)
         \/ \E job \in outbox : RunRoll(job, rerolled, fired)
         \/ ApplyDraft(fired) \/ ReportPlannerFailure \/ DraftStep
  PROVE  Gentle(campaign, campaign')
<1>1. campaign \in CampaignStates /\ Stored \in Decisions /\ Stored.state = campaign
        /\ Sound(Stored) /\ campaign' \in CampaignStates /\ Gentle(campaign, campaign)
  BY StoredSound, QuietSelf DEF Inv, TypeOK
<1>2. ASSUME NEW t \in due, RollTimerFires(t)
      PROVE  Gentle(campaign, campaign')
  <2> DEFINE e == [Stored EXCEPT !.timers = @ \ {t}]
  <2>1. e \in Decisions /\ e.state = campaign BY <1>1 DEF Decisions
  <2>2. t.hero \in Heroes BY <1>2, LoadedTimer DEF RollTimerFires
  <2>3. campaign' \in {e.state, StartRolls(e, {t.hero}, TRUE).state}
    BY <1>2 DEF RollTimerFires, Commit
  <2> HIDE DEF e
  <2>4. Quiet(campaign, StartRolls(e, {t.hero}, TRUE).state) BY <2>1, <2>2, StartRollsQuiet
  <2> QED BY <1>1, <2>1, <2>3, <2>4, QuietThenGentle
<1>3. ASSUME NEW job \in outbox, RunRoll(job, rerolled, fired)
      PROVE  Gentle(campaign, campaign')
  <2> DEFINE done == [Stored EXCEPT !.outbox = @ \ {job}]
  <2>1. done \in Decisions /\ done.state = campaign BY JobDone
  <2>2. job.hero \in Heroes
    <3>1. job \in Jobs /\ job.kind = "roll" BY <1>3, StoredSound DEF RunRoll
    <3> QED BY <3>1 DEF Jobs
  <2>3. campaign' = RecordCheckRoll(done, job.hero, rerolled, fired).state
    BY <1>3 DEF RunRoll, Commit
  <2> HIDE DEF done
  <2> QED BY <2>1, <2>2, <2>3, RecordCheckRollGentle
<1>4. ASSUME ApplyDraft(fired)
      PROVE  Gentle(campaign, campaign')
  <2> DEFINE done == [Stored EXCEPT !.outbox = @ \ {JobFor("plan", draft.round)}]
             fresh == Active /\ campaign.phase = "planning" /\ campaign.lastRound = draft.round
             planned == ApplyRoundPlan(done, draft.called, draft.move, fired)
  <2>1. done \in Decisions /\ done.state = campaign BY JobDone
  <2>2. draft.called \in SUBSET Heroes /\ draft.move \in PlannedMoves
    BY DEF Inv, TypeOK, Drafts
  <2>3. \/ campaign' = done.state \/ campaign' = Stored.state
        \/ fresh /\ campaign' = planned.state
    BY <1>4 DEF ApplyDraft, Commit
  <2> HIDE DEF done
  <2>4. fresh => Gentle(campaign, planned.state)
    BY <2>1, <2>2, ApplyRoundPlanGentle DEF Active
  <2> QED BY <1>1, <2>1, <2>3, <2>4
<1>5. ASSUME ReportPlannerFailure
      PROVE  SameRound
  BY <1>1, <1>5 DEF ReportPlannerFailure, Commit, Stored, SameRound, CampaignStates
<1>6. ASSUME DraftStep
      PROVE  SameRound
  BY <1>6 DEF DraftStep, DraftPlan, SameRound
<1> QED BY <1>2, <1>3, <1>4, <1>5, <1>6, SameRoundGentle

\* The narrator's answers, the beginning, and a crash.
LEMMA NarrationGentle ==
  ASSUME Inv, Inv', NEW tooSoon \in BOOLEAN,
         \/ \E job \in outbox : RunNarrate(job, tooSoon) \/ RunOpening(job, tooSoon)
         \/ BeginAdventure \/ CrashAndRecover
  PROVE  Gentle(campaign, campaign')
<1>1. campaign \in CampaignStates /\ Stored \in Decisions /\ Stored.state = campaign
        /\ Sound(Stored) /\ campaign' \in CampaignStates /\ Gentle(campaign, campaign)
  BY StoredSound, QuietSelf DEF Inv, TypeOK
<1>2. ASSUME NEW job \in outbox, RunNarrate(job, tooSoon)
      PROVE  Gentle(campaign, campaign')
  <2> DEFINE done == [Stored EXCEPT !.outbox = @ \ {job}]
             c == [campaign EXCEPT !.lastNarrated = job.round]
             kept == [done EXCEPT !.state = c]
  <2>1. done \in Decisions /\ done.state = campaign BY JobDone
  <2>2. c \in CampaignStates
    <3>1. job \in Jobs BY StoredSound
    <3>2. job.round \in Nat BY <3>1 DEF Jobs
    <3> QED BY <1>1, <3>2, SetLastNarrated
  <2>3. SameTable(campaign, c) /\ c.misses = campaign.misses
    BY <1>1 DEF CampaignStates, SameTable
  <2>4. \/ campaign' = done.state \/ campaign' = kept.state
        \/ campaign' = OpenRound(kept, TRUE, tooSoon).state
    <3> DEFINE told == [done EXCEPT !.state.lastNarrated = job.round]
    <3>1. \/ campaign' = done.state \/ campaign' = told.state
          \/ campaign' = OpenRound(told, TRUE, tooSoon).state
      BY <1>2 DEF RunNarrate, Commit
    <3>2. told = kept BY <2>1
    <3> QED BY <3>1, <3>2
  <2> HIDE DEF done, c
  <2>5. kept \in Decisions /\ kept.state = c BY <2>1, <2>2 DEF Decisions
  <2>6. Quiet(campaign, c) BY <1>1, <2>3, SameTableQuiet
  <2> HIDE DEF kept
  <2>7. Gentle(c, OpenRound(kept, TRUE, tooSoon).state) BY <2>5, OpenRoundGentle
  <2>8. CASE campaign' = done.state BY <1>1, <2>1, <2>8
  <2>9. CASE campaign' = kept.state
    BY <1>1, <2>2, <2>5, <2>6, <2>9, QuietThenGentle
  <2>10. CASE campaign' = OpenRound(kept, TRUE, tooSoon).state
    <3>1. Gentle(c, campaign') BY <2>7, <2>10
    <3> QED BY <1>1, <2>2, <2>6, <3>1, QuietThenGentle
  <2> QED BY <2>4, <2>8, <2>9, <2>10
<1>3. ASSUME NEW job \in outbox, RunOpening(job, tooSoon)
      PROVE  Gentle(campaign, campaign')
  <2> DEFINE done == [Stored EXCEPT !.outbox = @ \ {job}]
             c == [campaign EXCEPT !.opening = "waiting", !.ready = {}]
             told == [done EXCEPT !.state = c]
  <2>1. done \in Decisions /\ done.state = campaign BY JobDone
  <2>2. c \in CampaignStates BY <1>1, SetOpening, SetReady, Zenon
  <2>3. SameTable(campaign, c) /\ c.misses = campaign.misses
    BY <1>1 DEF CampaignStates, SameTable
  <2>4. Commit(FinishReadyCheck(told, TRUE, tooSoon))
    <3>1. told = [Stored EXCEPT !.outbox = @ \ {job}, !.state.opening = "waiting",
                                !.state.ready = {}]
      BY <1>1 DEF Decisions
    <3> QED BY <1>3, <3>1 DEF RunOpening
  <2> HIDE DEF done, c
  <2>5. told \in Decisions /\ told.state = c BY <2>1, <2>2 DEF Decisions
  <2>6. Quiet(campaign, c) BY <1>1, <2>3, SameTableQuiet
  <2> HIDE DEF told
  <2>7. Gentle(c, FinishReadyCheck(told, TRUE, tooSoon).state) BY <2>5, FinishReadyCheckGentle
  <2> QED BY <2>2, <2>4, <2>6, <2>7, CommitGentle
<1>4. Begun.state = [campaign EXCEPT !.opening = "pending"]
  BY <1>1 DEF Begun, Stored, Request
<1>5. LET c == Begun.state IN
      /\ c.status = campaign.status /\ c.phase = campaign.phase
      /\ c.submissions = campaign.submissions
      /\ c.lastRound = campaign.lastRound /\ c.misses = campaign.misses
  BY <1>1, <1>4 DEF CampaignStates
<1>6. ASSUME BeginAdventure
      PROVE  SameRound
  BY <1>5, <1>6 DEF BeginAdventure, Commit, SameRound
<1>7. ASSUME CrashAndRecover
      PROVE  Gentle(campaign, campaign')
  <2> DEFINE begun == IF MayBegin THEN Begun ELSE Stored
  <2>1. Sound(begun) BY <1>1, BegunSound
  <2>2. /\ begun.state.status = campaign.status /\ begun.state.phase = campaign.phase
        /\ begun.state.submissions = campaign.submissions
        /\ begun.state.lastRound = campaign.lastRound
        /\ begun.state.misses = campaign.misses
    BY <1>1, <1>5
  <2>3. campaign' \in {begun.state, PauseCampaign(begun, "recovery").state}
    BY <1>7 DEF CrashAndRecover, Commit
  <2> HIDE DEF begun
  <2>4. /\ campaign'.status \in {campaign.status, "waitingForPlayers"}
        /\ campaign'.phase = campaign.phase
        /\ campaign'.submissions = campaign.submissions
        /\ campaign'.lastRound = campaign.lastRound /\ campaign'.misses = campaign.misses
    BY <2>1, <2>2, <2>3, ZenonT(60) DEF PauseCampaign, Sound, Decisions, CampaignStates
  <2>5. \A v \in Users : campaign.misses[v] \in Nat BY <1>1, FieldTypes
  <2> QED BY <2>4, <2>5 DEF Gentle, AnswersStand
<1> QED BY <1>2, <1>3, <1>6, <1>7, SameRoundGentle

\* A continue ends the wait; answers stand and nobody misses anything.
LEMMA ContinueAnswers ==
  ASSUME Inv, Inv', NEW u \in Users, NEW tooSoon \in BOOLEAN, NEW fired \in BOOLEAN,
         Continue(u, tooSoon, fired)
  PROVE  /\ campaign'.status # campaign.status
         /\ AnswersStand(campaign, campaign')
         /\ \A v \in Users : campaign'.misses[v] <= campaign.misses[v]
<1> DEFINE e == Resumed(Stored, u)
           back == IF u \in campaign.away THEN MemberReturned(campaign, u) ELSE campaign
           c == [back EXCEPT !.status = "active", !.pausedBy = "nobody"]
           d == PickUpHeldWork(e, tooSoon, fired)
<1>1. campaign \in CampaignStates /\ Stored \in Decisions /\ Stored.state = campaign
        /\ Sound(Stored) /\ campaign' \in CampaignStates
        /\ campaign.status = "waitingForPlayers"
  BY StoredSound DEF Inv, TypeOK, Continue
<1>2. ~ContinueRefused(u, tooSoon) /\ campaign' = d.state BY DEF Continue, Commit
<1>3. e \in Decisions /\ e.state \in CampaignStates
  <2>1. Present(Resumed(Stored, u).state) # {} BY <1>2 DEF ContinueRefused
  <2>2. Sound(e) BY <1>1, <2>1, ResumedSound
  <2> QED BY <2>2, DecisionTypes DEF Sound
<1>4. e.state = c BY <1>1 DEF Resumed, Decisions
<1>5. /\ c.status = "active" /\ c.phase = campaign.phase
      /\ c.submissions = campaign.submissions
      /\ \A v \in Users : campaign.misses[v] \in Nat /\ c.misses[v] \in {0, campaign.misses[v]}
  <2>1. MemberReturned(campaign, u) \in CampaignStates BY <1>1, MemberReturnedType
  <2>2. /\ back \in CampaignStates /\ back.phase = campaign.phase
        /\ back.submissions = campaign.submissions
        /\ \A v \in Users : campaign.misses[v] \in Nat
                              /\ back.misses[v] \in {0, campaign.misses[v]}
    BY <1>1, <2>1, MemberReturnedTable, MissesCleared
  <2> HIDE DEF back
  <2> QED BY <2>2 DEF CampaignStates
<1> HIDE DEF e, c, d
<1>6. e.state.phase = "none" /\ e.state.resting = "none" =>
        d = OpenRound(e, FALSE, tooSoon) /\ ~OpenRoundRefused(e.state, tooSoon)
  BY <1>2 DEF d, e, PickUpHeldWork, ContinueRefused
<1>7. e.state.phase = "none" /\ e.state.resting # "none" => d = e
  BY DEF d, e, PickUpHeldWork
<1>8. e.state.phase = "planning" => d.state = e.state
  BY <1>3 DEF d, e, PickUpHeldWork, Request, Decisions
<1>9. e.state.phase = "resolving" => d = FinishRoundIfResolved(e, fired)
  BY DEF d, e, PickUpHeldWork
<1>10. e.state.phase = "collecting" => d = e
  BY DEF d, e, PickUpHeldWork
<1>11. e.state.phase \in {"none", "collecting", "planning", "resolving"} BY <1>3, FieldTypes
<1>12. Gentle(e.state, d.state)
  <2>1. Gentle(e.state, e.state) BY <1>3, QuietSelf
  <2>2. Gentle(e.state, OpenRound(e, FALSE, tooSoon).state) BY <1>3, OpenRoundGentle
  <2>3. Gentle(e.state, FinishRoundIfResolved(e, fired).state)
    BY <1>3, FinishRoundIfResolvedGentle
  <2> QED BY <1>6, <1>7, <1>8, <1>9, <1>10, <1>11, <2>1, <2>2, <2>3
<1>13. d.state.status = "active"
  <2>1. CASE e.state.phase = "none" /\ e.state.resting = "none"
    <3> DEFINE rested == [e EXCEPT !.state = TakeQueuedRest(@, tooSoon)]
    <3>1. TakeQueuedRest(e.state, tooSoon) \in CampaignStates BY <1>3, TakeQueuedRestType
    <3>2. rested \in Decisions /\ rested.state = TakeQueuedRest(e.state, tooSoon)
      BY <1>3, <3>1 DEF Decisions
    <3>3. rested.state.status = "active" /\ rested.state.opening = e.state.opening
            /\ ParticipantsFor(rested.state) = ParticipantsFor(e.state)
      <4>1. SameTable(e.state, TakeQueuedRest(e.state, tooSoon)) BY <1>3, TakeQueuedRestTable
      <4>2. TakeQueuedRest(e.state, tooSoon).opening = e.state.opening
        BY <1>3 DEF TakeQueuedRest, RestTaken, CampaignStates
      <4> QED BY <1>4, <1>5, <3>2, <4>1, <4>2, SameTableInOrder DEF SameTable
    <3> HIDE DEF rested
    <3>4. d \in {rested, BeginRound(rested)}
      BY <1>4, <1>5, <1>6, <2>1, <3>2, <3>3 DEF OpenRound, OpenRoundRefused, rested
    <3>5. BeginRound(rested).state = RoundOpened(rested.state) BY <3>2 DEF BeginRound, Decisions
    <3>6. rested.state \in CampaignStates BY <3>1, <3>2
    <3>7. RoundOpened(rested.state).status = "active" BY <3>3, <3>6, RoundOpenedTable
    <3> QED BY <3>3, <3>4, <3>5, <3>7
  <2>2. CASE e.state.phase = "resolving"
    <3>1. LET m == FinishRoundIfResolved(e, fired).state IN m.status = e.state.status
      BY <1>3, FinishRoundIfResolvedGentle
    <3> QED BY <1>4, <1>5, <1>9, <2>2, <3>1
  <2> QED BY <1>4, <1>5, <1>7, <1>8, <1>10, <1>11, <2>1, <2>2
<1>14. \A v \in Users : campaign'.misses[v] <= campaign.misses[v]
  <2>1. \A v \in Users : campaign'.misses[v] \in Nat BY <1>1, FieldTypes
  <2> QED BY <1>2, <1>4, <1>5, <1>12, <2>1 DEF Gentle
<1>15. AnswersStand(campaign, campaign')
  BY <1>2, <1>4, <1>5, <1>12 DEF Gentle, AnswersStand
<1> QED BY <1>1, <1>2, <1>13, <1>14, <1>15

\* What no step breaks: answers stand; a table that waits and goes on waiting opens
\* no round; what is counted as missed was missed in a round somebody closed.
Lawful(c, e) ==
  /\ c.status = "waitingForPlayers" /\ e.status = c.status => e.lastRound = c.lastRound
  /\ AnswersStand(c, e)
  /\ \A u \in Users :
       \/ e.misses[u] <= c.misses[u]
       \/ c.status = "active" /\ c.phase = "collecting" /\ c.hero[u] \in Missed(c)

\* Only the round's timer counts misses.
LEMMA RoundTimerLawful ==
  ASSUME Inv, Inv', NEW t \in due, RoundTimerFires(t)
  PROVE  Lawful(campaign, campaign')
<1> DEFINE e == [Stored EXCEPT !.timers = @ \ {t}]
           closes == Active /\ campaign.phase = "collecting" /\ campaign.lastRound = t.round
<1>1. /\ campaign \in CampaignStates /\ Stored \in Decisions /\ Stored.state = campaign
      /\ Stored.timers = timers /\ Sound(Stored)
  BY StoredSound
<1>2. e.state = campaign /\ e \in Decisions
  <2>1. Sound(e) BY <1>1, FewerTimersSound
  <2> QED BY <1>1, <2>1 DEF Sound, Decisions
<1>3. campaign' = IF closes THEN CloseRound(e, TRUE).state ELSE e.state
  BY DEF RoundTimerFires, Commit
<1> HIDE DEF e
<1>4. CASE closes
  <2>1. campaign.status = "active" /\ campaign.phase = "collecting" BY <1>4 DEF Active
  <2>2. \A u \in Users : campaign'.misses[u] <= campaign.misses[u]
                           \/ campaign.hero[u] \in Missed(campaign)
    BY <1>2, <1>3, <1>4, <2>1, CloseRoundCounts
  <2> QED BY <2>1, <2>2 DEF Lawful, AnswersStand
<1>5. CASE ~closes
  BY <1>1, <1>2, <1>3, <1>5, QuietSelf DEF Lawful, Gentle
<1> QED BY <1>4, <1>5

\* Every step is lawful.
LEMMA StepLawful ==
  ASSUME Inv, Inv', [Next]_vars
  PROVE  Lawful(campaign, campaign')
<1>1. Gentle(campaign, campaign') => Lawful(campaign, campaign')
  BY DEF Gentle, Lawful
<1>2. CASE UserStep
  <2>1. \A u \in Users, h \in Heroes :
          SubmitAction(u, h) \/ Pass(u, h) \/ RequestRoll(u, h) \/ JoinHero(u, h)
            => Gentle(campaign, campaign')
    BY RespondGentle, MembersGentle DEF SubmitAction, Pass
  <2>2. CloseRoundByOrganizer \/ RetryPlan => Gentle(campaign, campaign')
    <3>1. PICK u \in Users : Seats[u] # NoHero BY SeatsAssumption
    <3>2. Seats[u] \in Heroes BY <3>1, SeatsAssumption
    <3> QED BY <3>2, MembersGentle
  <2>3. ASSUME NEW u \in Users, NEW tooSoon \in BOOLEAN,
               MarkMemberReturned(u) \/ Retire(u) \/ MarkMemberAway(u, tooSoon)
        PROVE  Gentle(campaign, campaign')
    <3>1. PICK v \in Users : Seats[v] # NoHero BY SeatsAssumption
    <3>2. Seats[v] \in Heroes BY <3>1, SeatsAssumption
    <3> QED BY <2>3, <3>2, MembersGentle
  <2>4. ASSUME NEW u \in Users, NEW tooSoon \in BOOLEAN,
               MarkReady(u, tooSoon) \/ EndRest(tooSoon) \/ BeginPlay(tooSoon)
        PROVE  Gentle(campaign, campaign')
    BY <2>4, OpeningsGentle DEF Pausers
  <2>5. ASSUME NEW reason \in {"organizer", "safety"}, Pause(reason)
        PROVE  Gentle(campaign, campaign')
    <3>1. reason \in Pausers BY DEF Pausers
    <3> QED BY <2>5, <3>1, UsersAssumption, OpeningsGentle
  <2>6. ASSUME NEW u \in Users, NEW tooSoon \in BOOLEAN, NEW fired \in BOOLEAN,
               Continue(u, tooSoon, fired)
        PROVE  Lawful(campaign, campaign')
    BY <2>6, ContinueAnswers DEF Lawful
  <2>7. ASSUME \/ \E u \in Users, scene \in Scenes : ProposeMoveByPlayer(u, scene)
               \/ \E u \in Users : \/ ObjectToMove(u) \/ SupportMove(u)
                                   \/ WithdrawMoveSupport(u) \/ WithdrawObjection(u)
               \/ \E outcome \in {"go", "stay"} : SettleMoveByOrganizer(outcome)
               \/ \E rest \in {"short", "long"} : QueueRest(rest) \/ TakeRest(rest)
               \/ CancelQueuedRest
        PROVE  Gentle(campaign, campaign')
    BY <2>7, VotesAndRestsGentle
  <2>8. \A u \in Users : MarkMemberReturned(u) \/ Retire(u) => Gentle(campaign, campaign')
    BY <2>3
  <2>9. \A u \in Users, tooSoon \in BOOLEAN :
          MarkMemberAway(u, tooSoon) \/ MarkReady(u, tooSoon) => Gentle(campaign, campaign')
    BY <2>3, <2>4
  <2>10. \A tooSoon \in BOOLEAN :
           EndRest(tooSoon) \/ BeginPlay(tooSoon) => Gentle(campaign, campaign')
    BY <2>4, UsersAssumption
  <2> QED BY <1>1, <1>2, <2>1, <2>2, <2>5, <2>6, <2>7, <2>8, <2>9, <2>10 DEF UserStep
<1>3. CASE TimerStep
  <2>1. LoadTimers \/ MarkTimerFired => campaign' = campaign
    BY DEF LoadTimers, MarkTimerFired
  <2>2. LoadTimers \/ MarkTimerFired => Lawful(campaign, campaign')
    BY <1>1, <2>1, QuietSelf DEF Inv, TypeOK
  <2> QED BY <1>1, <1>3, <2>2, RoundTimerLawful, DiceAndPlanGentle DEF TimerStep
<1>4. CASE RollStep \/ DraftStep \/ AnswerStep
  BY <1>1, <1>4, DiceAndPlanGentle DEF RollStep, AnswerStep
<1>5. CASE NarrateStep \/ BeginAdventure \/ CrashAndRecover
  BY <1>1, <1>5, NarrationGentle DEF NarrateStep
<1>6. CASE UNCHANGED vars
  <2>1. campaign' = campaign BY <1>6 DEF vars
  <2> QED BY <1>1, <2>1, QuietSelf DEF Inv, TypeOK
<1> QED BY <1>2, <1>3, <1>4, <1>5, <1>6 DEF Next

-----------------------------------------------------------------------------
(* Theorems about steps.                                                   *)

\* A table that waits for its players opens no round until somebody continues:
\* whatever is answered, narrated or freed meanwhile, it stays where it was.
THEOREM WaitingTablesStayWhereTheyAre == Spec => NoRoundStartsWhileWaiting
<1>1. Inv /\ Inv' /\ [Next]_vars =>
        [~Active /\ campaign'.status = campaign.status =>
           campaign'.lastRound = campaign.lastRound]_vars
  <2> SUFFICES ASSUME Inv, Inv', [Next]_vars, ~Active, campaign'.status = campaign.status
               PROVE  campaign'.lastRound = campaign.lastRound
    OBVIOUS
  <2>1. campaign.status = "waitingForPlayers" BY FieldTypes DEF Inv, TypeOK, Active
  <2> QED BY <2>1, StepLawful DEF Lawful
<1> QED BY <1>1, Invariance, PTL DEF Spec, NoRoundStartsWhileWaiting

\* Once a round is closed nobody's answer changes under the planner: it goes
\* only with the hero's seat.
THEOREM AnswersStandOnceClosed == Spec => ClosedRoundKeepsItsAnswers
<1>1. Inv /\ Inv' /\ [Next]_vars =>
        [campaign.phase \in {"planning", "resolving"} /\ campaign'.phase = campaign.phase =>
           \A h \in Heroes :
             campaign'.submissions[h] = campaign.submissions[h]
               \/ h \notin {campaign'.hero[u] : u \in Users}]_vars
  BY StepLawful DEF Lawful, AnswersStand
<1> QED BY <1>1, Invariance, PTL DEF Spec, ClosedRoundKeepsItsAnswers

\* A miss is counted only for a member at the table whose answer was owed.
THEOREM MissesAreReal == Spec => OnlyRealMissesCount
<1>1. Inv /\ Inv' /\ [Next]_vars =>
        [\A u \in Users : campaign'.misses[u] > campaign.misses[u] =>
           /\ campaign.pendingMove.to = NoScene
           /\ campaign.phase = "collecting"
           /\ campaign.submissions[campaign.hero[u]] = "none"
           /\ u \notin campaign.away]_vars
  <2> SUFFICES ASSUME Inv, Inv', [Next]_vars, NEW u \in Users,
                      campaign'.misses[u] > campaign.misses[u]
               PROVE  /\ campaign.pendingMove.to = NoScene
                      /\ campaign.phase = "collecting"
                      /\ campaign.submissions[campaign.hero[u]] = "none"
                      /\ u \notin campaign.away
    OBVIOUS
  <2>1. campaign.misses[u] \in Nat /\ campaign'.misses[u] \in Nat
    BY FieldTypes DEF Inv, TypeOK
  <2>2. campaign.phase = "collecting" /\ campaign.hero[u] \in Missed(campaign)
    BY <2>1, StepLawful DEF Lawful
  <2>3. campaign.pendingMove.to = NoScene /\ campaign.hero[u] \in OpenSlots(campaign)
    BY <2>2 DEF Missed, OpenSlots
  <2>4. PICK v \in Present(campaign) : campaign.hero[v] = campaign.hero[u]
    BY <2>2, <2>3 DEF Inv, TableInOrder, InOrder, SlotsOpen, ParticipantsFor
  <2>5. v \in Users /\ campaign.hero[v] # NoHero /\ v \notin campaign.away
    BY DEF Present, Members
  <2>6. u = v BY <2>4, <2>5 DEF Inv, TableInOrder, InOrder, Consistent
  <2> QED BY <2>2, <2>3, <2>5, <2>6 DEF OpenSlots
<1> QED BY <1>1, Invariance, PTL DEF Spec, OnlyRealMissesCount

-----------------------------------------------------------------------------
(* What wakes a table.                                                     *)

\* The part that holds even between the steps of a handler: the dice of the
\* round are exactly the ones in the outbox, no job is of a later round, the
\* opening comes before the first round, and no round in progress is narrated.
Fits(c, jobs) ==
  /\ \A h \in Heroes : c.checks[h] \notin {"none", "resolved"} => c.phase = "resolving"
  /\ \A job \in jobs : job.round <= c.lastRound
  /\ \A h \in Heroes : /\ c.checks[h] = "rolling" <=> RollJob(c.lastRound, h, FALSE) \in jobs
                       /\ c.checks[h] = "lucky" <=> RollJob(c.lastRound, h, TRUE) \in jobs
  /\ c.opening \in {"pending", "waiting"} => c.lastRound = 0
  /\ c.opening = "pending" => JobFor("narrateOpening", 0) \in jobs
  /\ c.lastNarrated <= c.lastRound
  /\ c.phase # "none" => c.lastNarrated < c.lastRound

\* The part a handler has to leave behind: what an active table's round waits
\* for is under way, unless the TimerWorker marked its timer fired by mistake.
Woken(c, pending, jobs) ==
  LET n == c.lastRound IN
  c.status = "active" =>
    /\ c.phase = "collecting" /\ RoundTimed => RoundTimer(n) \in pending
    /\ c.phase = "planning" => JobFor("plan", n) \in jobs \/ c.plannerFailed
    /\ c.phase = "resolving" => \E h \in Heroes : c.checks[h] \notin {"none", "resolved"}
    /\ c.phase = "resolving" /\ RollTimed =>
         \A h \in Heroes : c.checks[h] = "pending" => RollTimer(n, h) \in pending
    /\ c.phase = "none" /\ n > 0 /\ c.resting = "none" =>
         JobFor("narrate", n) \in jobs /\ c.lastNarrated < n

Fit(d) == Fits(d.state, d.outbox)
Awake(d) == Fit(d) /\ Woken(d.state, d.timers \cup lost, d.outbox)

\* Two campaigns that wait for the same.
SameWait(c, e) ==
  /\ e.status = c.status /\ e.phase = c.phase
  /\ e.checks = c.checks /\ e.lastRound = c.lastRound
  /\ e.opening = c.opening /\ e.lastNarrated = c.lastNarrated
  /\ e.resting = c.resting /\ e.plannerFailed = c.plannerFailed

\* They are woken by the same.
LEMMA SameWaitAwake ==
  ASSUME NEW c, NEW e, NEW T, NEW x, SameWait(c, e)
  PROVE  /\ Fits(c, x) => Fits(e, x)
         /\ Woken(c, T, x) => Woken(e, T, x)
<1>1. Fits(c, x) => Fits(e, x) BY DEF SameWait, Fits
<1>2. Woken(c, T, x) => Woken(e, T, x) BY DEF SameWait, Woken
<1> QED BY <1>1, <1>2

\* Two such steps make one.
LEMMA SameWaitTransitive ==
  ASSUME NEW c, NEW e, NEW f, SameWait(c, e), SameWait(e, f)
  PROVE  SameWait(c, f)
BY DEF SameWait

\* Members, answers, votes and scenes are nothing a table waits for.
LEMMA SameWaitParts ==
  ASSUME NEW c \in CampaignStates
  PROVE  /\ SameWait(c, c)
         /\ \A u \in Users : /\ SameWait(c, MemberReturned(c, u))
                             /\ SameWait(c, MemberMarkedAway(c, u))
                             /\ SameWait(c, MemberRetired(c, u))
         /\ \A u \in Users, h \in Heroes, s \in Submissions : SameWait(c, Responded(c, u, h, s))
         /\ \A scene \in Scenes : /\ SameWait(c, SceneTransitioned(c, scene))
                                  /\ SameWait(c, ProposeMove(c, scene))
         /\ \A scene \in Scenes, n \in Nat : SameWait(c, MoveProposed(c, scene, n))
         /\ SameWait(c, MarkIdleAway(c))
<1>1. SameWait(c, c) BY DEF SameWait
<1>2. \A u \in Users : /\ SameWait(c, MemberReturned(c, u))
                       /\ SameWait(c, MemberMarkedAway(c, u))
                       /\ SameWait(c, MemberRetired(c, u))
  BY DEF CampaignStates, SameWait, MemberReturned, MemberMarkedAway, MemberRetired
<1>3. \A u \in Users, h \in Heroes, s \in Submissions : SameWait(c, Responded(c, u, h, s))
  BY DEF CampaignStates, SameWait, Responded
<1>4. \A scene \in Scenes : SameWait(c, SceneTransitioned(c, scene))
  BY DEF CampaignStates, SameWait, SceneTransitioned
<1>5. ASSUME NEW scene, NEW n PROVE SameWait(c, MoveProposed(c, scene, n))
  BY DEF CampaignStates, SameWait, MoveProposed
<1>6. \A scene \in Scenes : SameWait(c, ProposeMove(c, scene))
  BY <1>1, <1>5, Zenon DEF ProposeMove
<1>7. SameWait(c, MarkIdleAway(c)) BY DEF CampaignStates, SameWait, MarkIdleAway
<1> QED BY <1>1, <1>2, <1>3, <1>4, <1>5, <1>6, <1>7

\* Settling a move is no part of what the table waits for.
LEMMA SettleWait ==
  ASSUME NEW c \in CampaignStates, NEW outcome
  PROVE  SameWait(c, Settle(c, outcome)) /\ SameWait(c, SettleDueMove(c))
<1>1. ASSUME NEW o PROVE SameWait(c, Settle(c, o))
  <2> DEFINE e == [c EXCEPT !.pendingMove = NoPendingMove]
  <2>1. SameWait(c, [c EXCEPT !.pendingMove = NoPendingMove, !.declined = c.pendingMove.to])
    BY DEF CampaignStates, SameWait
  <2>2. e \in CampaignStates BY EmptyTypes, SetPendingMove
  <2>3. SameWait(c, e) BY DEF CampaignStates, SameWait
  <2>4. ASSUME NEW s PROVE SameWait(e, SceneTransitioned(e, s))
    <3> HIDE DEF e
    <3> QED BY <2>2 DEF CampaignStates, SameWait, SceneTransitioned
  <2>5. SameWait(c, SceneTransitioned(e, c.pendingMove.to))
    BY <2>3, <2>4, SameWaitTransitive, Zenon
  <2> QED BY <2>1, <2>5, Zenon DEF Settle
<1>2. SameWait(c, c) BY DEF SameWait
<1> QED BY <1>1, <1>2, Zenon DEF SettleDueMove

\* The round's own operators change the round, and nothing else the table waits for.
LEMMA RoundsWait ==
  ASSUME NEW c \in CampaignStates, NEW byTimer \in BOOLEAN
  PROVE  /\ LET e == RoundClosed(c, byTimer) IN
              /\ e.status = c.status /\ e.phase = "planning"
              /\ e.checks = c.checks /\ e.lastRound = c.lastRound
              /\ e.opening = c.opening /\ e.lastNarrated = c.lastNarrated
              /\ e.resting = c.resting
         /\ LET e == RoundResolved(c) IN
              /\ e.status = c.status /\ e.phase = "none"
              /\ e.checks = c.checks /\ e.lastRound = c.lastRound
              /\ e.opening = c.opening /\ e.lastNarrated = c.lastNarrated
              /\ e.resting = c.resting
         /\ LET e == RoundOpened(c) IN
              /\ e.status = c.status /\ e.phase = "collecting"
              /\ e.checks = NoChecks /\ e.lastRound = c.lastRound + 1
              /\ e.opening = c.opening /\ e.lastNarrated = c.lastNarrated
<1>1. LET e == RoundClosed(c, byTimer) IN
              /\ e.status = c.status /\ e.phase = "planning"
              /\ e.checks = c.checks /\ e.lastRound = c.lastRound
              /\ e.opening = c.opening /\ e.lastNarrated = c.lastNarrated
              /\ e.resting = c.resting
  BY DEF CampaignStates, RoundClosed
<1>2. LET e == RoundResolved(c) IN
              /\ e.status = c.status /\ e.phase = "none"
              /\ e.checks = c.checks /\ e.lastRound = c.lastRound
              /\ e.opening = c.opening /\ e.lastNarrated = c.lastNarrated
              /\ e.resting = c.resting
  BY DEF CampaignStates, RoundResolved
<1>3. LET e == RoundOpened(c) IN
              /\ e.status = c.status /\ e.phase = "collecting"
              /\ e.checks = NoChecks /\ e.lastRound = c.lastRound + 1
              /\ e.opening = c.opening /\ e.lastNarrated = c.lastNarrated
  BY DEF CampaignStates, RoundOpened
<1> QED BY <1>1, <1>2, <1>3

\* A queued rest is taken or dropped; nothing else the table waits for changes.
LEMMA TakeQueuedRestWait ==
  ASSUME NEW c \in CampaignStates, NEW tooSoon \in BOOLEAN
  PROVE  LET e == TakeQueuedRest(c, tooSoon) IN
         /\ e.status = c.status /\ e.phase = c.phase
         /\ e.checks = c.checks /\ e.lastRound = c.lastRound
         /\ e.opening = c.opening /\ e.lastNarrated = c.lastNarrated
         /\ e.plannerFailed = c.plannerFailed
         /\ e.resting \in {c.resting, c.pendingRest}
<1>1. ASSUME NEW e \in {c, [c EXCEPT !.pendingRest = "none"], RestTaken(c, c.pendingRest)}
      PROVE  /\ e.status = c.status /\ e.phase = c.phase
             /\ e.checks = c.checks /\ e.lastRound = c.lastRound
             /\ e.opening = c.opening /\ e.lastNarrated = c.lastNarrated
             /\ e.plannerFailed = c.plannerFailed
             /\ e.resting \in {c.resting, c.pendingRest}
  BY DEF CampaignStates, RestTaken
<1>2. TakeQueuedRest(c, tooSoon) \in
        {c, [c EXCEPT !.pendingRest = "none"], RestTaken(c, c.pendingRest)}
  BY DEF TakeQueuedRest
<1> QED BY <1>1, <1>2

\* A change of the state that changes nothing the table waits for.
LEMMA SameWaitDecision ==
  ASSUME NEW d \in Decisions, NEW c \in CampaignStates, SameWait(d.state, c)
  PROVE  /\ Fit(d) => Fit([d EXCEPT !.state = c])
         /\ Awake(d) => Awake([d EXCEPT !.state = c])
<1> DEFINE e == [d EXCEPT !.state = c]
<1>1. e.state = c /\ e.timers = d.timers /\ e.outbox = d.outbox BY DEF Decisions
<1> HIDE DEF e
<1>2. (Fit(d) => Fit(e)) /\ (Awake(d) => Awake(e))
  BY <1>1, SameWaitAwake DEF Fit, Awake
<1> QED BY <1>2 DEF e

\* A job of the DM is no roll.
LEMMA NoRoll ==
  ASSUME NEW kind \in {"plan", "narrate", "narrateOpening"}, NEW n
  PROVE  \A m, h, lucky : JobFor(kind, n) # RollJob(m, h, lucky)
BY DEF JobFor, RollJob

\* Asking the DM for something wakes whoever was awake.
LEMMA RequestAwake ==
  ASSUME NEW d \in Decisions, NEW kind \in {"plan", "narrate", "narrateOpening"}, NEW n \in Nat,
         n <= d.state.lastRound
  PROVE  LET e == Request(d, JobFor(kind, n)) IN
         /\ e \in Decisions
         /\ e.state = d.state /\ e.timers = d.timers
         /\ e.outbox = d.outbox \cup {JobFor(kind, n)}
         /\ Fit(d) => Fit(e)
         /\ Awake(d) => Awake(e)
<1> DEFINE e == Request(d, JobFor(kind, n))
<1>1. e.state = d.state /\ e.timers = d.timers /\ e.outbox = d.outbox \cup {JobFor(kind, n)}
  BY DEF Request, Decisions
<1>2. e \in Decisions
  <2>1. JobFor(kind, n) \in Jobs BY DEF JobFor, Jobs
  <2> QED BY <2>1, RequestType
<1>3. JobFor(kind, n).round = n BY DEF JobFor
<1> HIDE DEF e
<1>4. ASSUME Fit(d) PROVE Fit(e)
  <2>1. \A m, h, lucky : RollJob(m, h, lucky) \in e.outbox <=> RollJob(m, h, lucky) \in d.outbox
    BY <1>1, NoRoll
  <2>2. \A job \in e.outbox : job.round <= e.state.lastRound
    BY <1>1, <1>3, <1>4 DEF Fit, Fits
  <2>3. JobFor("narrateOpening", 0) \in d.outbox => JobFor("narrateOpening", 0) \in e.outbox
    BY <1>1
  <2> QED BY <1>1, <1>4, <2>1, <2>2, <2>3 DEF Fit, Fits
<1>5. Awake(d) => Awake(e) BY <1>1, <1>4 DEF Awake, Woken
<1> QED BY <1>1, <1>2, <1>4, <1>5 DEF e

-----------------------------------------------------------------------------
(* Pauses, openings and the rounds.                                        *)

\* A table that waits for its players waits for nothing else.
LEMMA WaitingAwake ==
  ASSUME NEW d \in Decisions, Fit(d)
  PROVE  /\ Awake(EnterWaiting(d))
         /\ \A reason \in Pausers : Awake(PauseCampaign(d, reason))
<1>1. d.state \in CampaignStates BY DecisionTypes
<1>2. ASSUME NEW reason PROVE Awake(PauseCampaign(d, reason))
  <2> DEFINE e == PauseCampaign(d, reason)
             c == [d.state EXCEPT !.status = "waitingForPlayers", !.pausedBy = reason]
  <2>1. e.state = c /\ e.outbox = d.outbox BY DEF PauseCampaign, Decisions
  <2>2. /\ c.status = "waitingForPlayers" /\ c.phase = d.state.phase
        /\ c.checks = d.state.checks /\ c.lastRound = d.state.lastRound
        /\ c.opening = d.state.opening /\ c.lastNarrated = d.state.lastNarrated
    BY <1>1 DEF CampaignStates
  <2> HIDE DEF e, c
  <2>3. Fit(e) BY <2>1, <2>2 DEF Fit, Fits
  <2>4. Awake(e) BY <2>1, <2>2, <2>3 DEF Awake, Woken
  <2> QED BY <2>4 DEF e
<1>3. CASE d.state.status = "waitingForPlayers"
  <2>1. Awake(d) BY <1>3 DEF Awake, Woken
  <2> QED BY <1>2, <1>3, <2>1 DEF EnterWaiting
<1>4. CASE d.state.status # "waitingForPlayers"
  <2>1. EnterWaiting(d) = PauseCampaign(d, "nobody")
    BY <1>4 DEF EnterWaiting, PauseCampaign
  <2> QED BY <1>2, <2>1
<1> QED BY <1>3, <1>4

\* A round that opens has its timer, and no die of it has been cast.
LEMMA BeginRoundAwake ==
  ASSUME NEW d \in Decisions, Fit(d), d.state.opening \notin {"pending", "waiting"}
  PROVE  Awake(BeginRound(d))
<1> DEFINE c == d.state
           e == BeginRound(d)
<1>1. c \in CampaignStates /\ c.lastRound \in Nat /\ c.lastNarrated \in Nat
  BY DecisionTypes, FieldTypes
<1>2. /\ e.state = RoundOpened(c) /\ e.outbox = d.outbox
      /\ RoundTimed => RoundTimer(c.lastRound + 1) \in e.timers
  BY DEF BeginRound, Decisions
<1>3. /\ e.state.phase = "collecting" /\ e.state.checks = NoChecks
      /\ e.state.lastRound = c.lastRound + 1
      /\ e.state.opening = c.opening /\ e.state.lastNarrated = c.lastNarrated
  BY <1>1, <1>2, RoundsWait
<1> HIDE DEF e
<1>4. \A job \in e.outbox : job.round \in Nat /\ job.round <= c.lastRound
  <2>1. \A job \in d.outbox : job \in Jobs BY DecisionTypes
  <2>2. \A job \in d.outbox : job.round <= c.lastRound BY DEF Fit, Fits
  <2>3. \A job \in Jobs : job.round \in Nat BY DEF Jobs
  <2> QED BY <1>2, <2>1, <2>2, <2>3
<1>5. \A h, lucky : RollJob(c.lastRound + 1, h, lucky) \notin e.outbox
  <2>1. ~(c.lastRound + 1 <= c.lastRound) BY <1>1
  <2>2. \A h, lucky : RollJob(c.lastRound + 1, h, lucky).round = c.lastRound + 1 BY DEF RollJob
  <2> QED BY <1>4, <2>1, <2>2
<1>6. \A h \in Heroes : e.state.checks[h] = "none" BY <1>3 DEF NoChecks
<1>7. c.lastNarrated <= c.lastRound BY DEF Fit, Fits
<1>8. \A job \in e.outbox : job.round <= e.state.lastRound BY <1>1, <1>3, <1>4
<1>9. e.state.lastNarrated < e.state.lastRound BY <1>1, <1>3, <1>7
<1>10. e.state.lastNarrated <= e.state.lastRound BY <1>1, <1>3, <1>7
<1>11. e.state.opening \notin {"pending", "waiting"} BY <1>3
<1>12. Fit(e) BY <1>3, <1>5, <1>6, <1>8, <1>9, <1>10, <1>11 DEF Fit, Fits
<1>13. Awake(e) BY <1>2, <1>3, <1>12 DEF Awake, Woken
<1> QED BY <1>13 DEF e

\* openRound opens the next round, or leaves a table that rests, is not ready
\* for its first round, or waits.
LEMMA OpenRoundAwake ==
  ASSUME NEW d \in Decisions, NEW bySystem \in BOOLEAN, NEW tooSoon \in BOOLEAN, Fit(d),
         d.state.phase # "none" => Awake(d),
         bySystem \/ (d.state.status = "active" => Present(d.state) # {})
  PROVE  Awake(OpenRound(d, bySystem, tooSoon))
<1> DEFINE rested == [d EXCEPT !.state = TakeQueuedRest(@, tooSoon)]
           c == rested.state
<1>1. d.state \in CampaignStates BY DecisionTypes
<1>2. rested \in Decisions /\ c = TakeQueuedRest(d.state, tooSoon)
        /\ rested.timers = d.timers /\ rested.outbox = d.outbox
  <2>1. TakeQueuedRest(d.state, tooSoon) \in CampaignStates BY <1>1, TakeQueuedRestType
  <2> QED BY <2>1 DEF Decisions
<1>3. /\ c.status = d.state.status /\ c.phase = d.state.phase
      /\ c.checks = d.state.checks /\ c.lastRound = d.state.lastRound
      /\ c.opening = d.state.opening /\ c.lastNarrated = d.state.lastNarrated
  BY <1>1, <1>2, TakeQueuedRestWait
<1>4. SameTable(d.state, c) BY <1>1, <1>2, TakeQueuedRestTable
<1> HIDE DEF rested
<1>5. Fit(rested) BY <1>2, <1>3 DEF Fit, Fits
<1>6. CASE d.state.status = "waitingForPlayers"
  <2>1. Awake(d) BY <1>6 DEF Awake, Woken
  <2> QED BY <1>6, <2>1 DEF OpenRound
<1>7. CASE d.state.phase # "none" BY <1>7 DEF OpenRound
<1>8. CASE d.state.status # "waitingForPlayers" /\ d.state.phase = "none"
  <2>1. OpenRound(d, bySystem, tooSoon) =
          IF c.resting # "none" \/ c.opening \in {"pending", "waiting"} THEN rested
          ELSE IF ParticipantsFor(c) # {} THEN BeginRound(rested)
          ELSE IF bySystem THEN EnterWaiting(rested)
          ELSE rested
    BY <1>8 DEF OpenRound, rested
  <2>2. CASE c.resting # "none" \/ c.opening \in {"pending", "waiting"}
    <3>1. c.phase = "none" /\ (c.resting # "none" \/ c.lastRound = 0)
      BY <1>3, <1>5, <1>8, <2>2 DEF Fit, Fits
    <3>2. Awake(rested) BY <1>5, <3>1 DEF Awake, Woken
    <3> QED BY <2>1, <2>2, <3>2
  <2>3. CASE ~(c.resting # "none" \/ c.opening \in {"pending", "waiting"})
    <3>1. Awake(BeginRound(rested)) BY <1>2, <1>5, <2>3, BeginRoundAwake
    <3>2. Awake(EnterWaiting(rested)) BY <1>2, <1>5, WaitingAwake
    <3>3. d.state.status = "active" BY <1>1, <1>8, FieldTypes
    <3>4. ~bySystem => ParticipantsFor(c) # {}
      BY <1>4, <3>3, SameTableInOrder, SMTT(60) DEF ParticipantsFor
    <3> QED BY <2>1, <2>3, <3>1, <3>2, <3>4
  <2> QED BY <2>2, <2>3
<1> QED BY <1>6, <1>7, <1>8

\* finishReadyCheck opens the first round or changes nothing.
LEMMA FinishReadyCheckAwake ==
  ASSUME NEW d \in Decisions, NEW bySystem \in BOOLEAN, NEW tooSoon \in BOOLEAN, Awake(d),
         d.state.status = "active" => Present(d.state) # {}
  PROVE  Awake(FinishReadyCheck(d, bySystem, tooSoon))
<1> DEFINE c == [d.state EXCEPT !.opening = "done"]
           opened == [d EXCEPT !.state.opening = "done"]
<1>1. d.state \in CampaignStates BY DecisionTypes
<1>2. c \in CampaignStates BY <1>1, SetOpening
<1>3. opened \in Decisions /\ opened.state = c /\ opened.timers = d.timers
        /\ opened.outbox = d.outbox
  BY <1>1, <1>2 DEF Decisions
<1>4. /\ c.status = d.state.status /\ c.phase = d.state.phase
      /\ c.checks = d.state.checks /\ c.lastRound = d.state.lastRound
      /\ c.opening = "done" /\ c.lastNarrated = d.state.lastNarrated
      /\ c.resting = d.state.resting /\ c.plannerFailed = d.state.plannerFailed
      /\ c.hero = d.state.hero /\ c.away = d.state.away
  BY <1>1 DEF CampaignStates
<1> HIDE DEF c, opened
<1>5. Fit(opened) BY <1>3, <1>4 DEF Awake, Fit, Fits
<1>6. Awake(opened) BY <1>3, <1>4, <1>5 DEF Awake, Woken
<1>7. c.status = "active" => Present(c) # {}
  BY <1>4 DEF Present, Members
<1>8. Awake(OpenRound(opened, bySystem, tooSoon)) BY <1>3, <1>6, <1>7, OpenRoundAwake DEF Awake
<1>9. FinishReadyCheck(d, bySystem, tooSoon) \in {d, OpenRound(opened, bySystem, tooSoon)}
  BY DEF FinishReadyCheck, opened
<1> QED BY <1>8, <1>9

\* A round that closes goes to the Planner, to the next round, or to a table
\* that waits for players.
LEMMA CloseRoundAwake ==
  ASSUME NEW d \in Decisions, NEW byTimer \in BOOLEAN, Fit(d),
         d.state.phase = "collecting", d.state.pausedBy # "nobody" => d.state.status # "active",
         d.state.lastRound > 0
  PROVE  Awake(CloseRound(d, byTimer))
<1> DEFINE n == d.state.lastRound
           c1 == RoundClosed(d.state, byTimer)
           c2 == SettleDueMove(c1)
           c3 == MarkIdleAway(c2)
           T == IF byTimer THEN d.timers ELSE d.timers \ {RoundTimer(n)}
           closed == [d EXCEPT
             !.timers = IF byTimer THEN @ ELSE @ \ {RoundTimer(n)},
             !.state = MarkIdleAway(SettleDueMove(RoundClosed(@, byTimer)))]
           quiet == [closed EXCEPT !.state = RoundResolved(@)]
<1>1. d.state \in CampaignStates /\ d.timers \subseteq Timers /\ n \in Nat
  BY DecisionTypes, FieldTypes
<1>2. c1 \in CampaignStates /\ c2 \in CampaignStates /\ c3 \in CampaignStates
  BY <1>1, RoundClosedType, SettleDueMoveType, MarkIdleAwayType
<1>3. RoundResolved(c3) \in CampaignStates BY <1>2, RoundResolvedType
<1>4. /\ closed \in Decisions /\ closed.state = c3 /\ closed.outbox = d.outbox
      /\ quiet \in Decisions /\ quiet.state = RoundResolved(c3) /\ quiet.outbox = d.outbox
  <2>1. closed = [d EXCEPT !.timers = T, !.state = c3] OBVIOUS
  <2>2. T \subseteq Timers BY <1>1
  <2> HIDE DEF closed, T, c3
  <2>3. closed \in Decisions /\ closed.state = c3 /\ closed.outbox = d.outbox
    BY <1>2, <2>1, <2>2 DEF Decisions
  <2> QED BY <1>3, <2>3 DEF Decisions
<1>5. /\ c3.status = d.state.status /\ c3.phase = "planning"
      /\ c3.checks = d.state.checks /\ c3.lastRound = n
      /\ c3.opening = d.state.opening /\ c3.lastNarrated = d.state.lastNarrated
  <2>1. /\ c1.status = d.state.status /\ c1.phase = "planning"
        /\ c1.checks = d.state.checks /\ c1.lastRound = n
        /\ c1.opening = d.state.opening /\ c1.lastNarrated = d.state.lastNarrated
    BY <1>1, RoundsWait
  <2>2. SameWait(c1, c2) BY <1>2, SettleWait
  <2> HIDE DEF c1, c2, c3
  <2>3. SameWait(c2, c3) BY <1>2, SameWaitParts DEF c3
  <2> QED BY <2>1, <2>2, <2>3 DEF SameWait
<1>6. LET e == RoundResolved(c3) IN
      /\ e.status = d.state.status /\ e.phase = "none"
      /\ e.checks = d.state.checks /\ e.lastRound = n
      /\ e.opening = d.state.opening /\ e.lastNarrated = d.state.lastNarrated
  <2> HIDE DEF c3
  <2> QED BY <1>2, <1>5, RoundsWait
<1> HIDE DEF c1, c2, c3, T, closed, quiet
\* Nothing is rolled while a round collects.
<1>7. \A h \in Heroes : d.state.checks[h] \in {"none", "resolved"} BY DEF Fit, Fits
<1>8. Fit(closed) BY <1>4, <1>5 DEF Fit, Fits
<1>9. Fit(quiet) BY <1>4, <1>6, <1>7 DEF Fit, Fits
<1>10. quiet.state.opening \notin {"pending", "waiting"} BY <1>1, <1>4, <1>6 DEF Fit, Fits
<1>11. Awake(EnterWaiting(closed)) /\ Awake(EnterWaiting(quiet)) BY <1>4, <1>8, <1>9, WaitingAwake
<1>12. Awake(BeginRound(quiet)) BY <1>4, <1>9, <1>10, BeginRoundAwake
<1>13. ASSUME d.state.pausedBy # "nobody" PROVE Awake(quiet)
  BY <1>4, <1>6, <1>9, <1>13 DEF Awake, Woken
<1>14. Awake(Request(closed, JobFor("plan", n)))
  <2> DEFINE e == Request(closed, JobFor("plan", n))
  <2>1. e.state = c3 /\ JobFor("plan", n) \in e.outbox /\ Fit(e)
    BY <1>1, <1>4, <1>5, <1>8, RequestAwake
  <2> HIDE DEF e
  <2>2. Awake(e) BY <1>5, <2>1 DEF Awake, Woken
  <2> QED BY <2>2 DEF e
<1>15. CloseRound(d, byTimer) =
         IF HasActions(d.state)
         THEN IF Present(closed.state) = {} THEN EnterWaiting(closed)
              ELSE Request(closed, JobFor("plan", n))
         ELSE IF Present(closed.state) = {} THEN EnterWaiting(quiet)
              ELSE IF d.state.pausedBy = "nobody" THEN BeginRound(quiet)
              ELSE quiet
  BY DEF CloseRound, closed, quiet
<1> QED BY <1>11, <1>12, <1>13, <1>14, <1>15

\* closeIfEveryoneResponded closes the round or leaves it as it was.
LEMMA CloseIfEveryoneRespondedAwake ==
  ASSUME NEW d \in Decisions, Awake(d),
         d.state.pausedBy # "nobody" => d.state.status # "active",
         d.state.phase = "collecting" => d.state.lastRound > 0
  PROVE  /\ CloseIfEveryoneResponded(d) \in Decisions
         /\ Awake(CloseIfEveryoneResponded(d))
<1>1. d.state.phase = "collecting" => Awake(CloseRound(d, FALSE)) BY CloseRoundAwake DEF Awake
<1>2. CloseRound(d, FALSE) \in Decisions BY CloseRoundType
<1> QED BY <1>1, <1>2 DEF CloseIfEveryoneResponded

-----------------------------------------------------------------------------
(* The plan and the dice.                                                  *)

\* A round whose checks are all resolved ends and is narrated; any other
\* resolving round still has a check to resolve.
LEMMA FinishRoundIfResolvedAwake ==
  ASSUME NEW d \in Decisions, NEW fired \in BOOLEAN, Fit(d),
         ~(d.state.status = "active" /\ d.state.phase = "resolving") => Awake(d),
         d.state.status = "active" /\ d.state.phase = "resolving" /\ RollTimed =>
           \A h \in Heroes : d.state.checks[h] = "pending"
                               => RollTimer(d.state.lastRound, h) \in d.timers \cup lost
  PROVE  Awake(FinishRoundIfResolved(d, fired))
<1> DEFINE c == d.state
           n == c.lastRound
           move == c.planned
           moved == IF move.to = NoScene \/ ~fired THEN c
                    ELSE IF move.forced THEN SceneTransitioned(c, move.to)
                    ELSE ProposeMove(c, move.to)
           resolves == c.status = "active" /\ c.phase = "resolving"
           done == resolves /\ \A h \in Heroes : c.checks[h] \in {"none", "resolved"}
           e == [d EXCEPT !.state = RoundResolved(moved)]
<1>1. c \in CampaignStates /\ n \in Nat BY DecisionTypes, FieldTypes
<1>2. move.to = NoScene \/ move.to \in Scenes BY <1>1, FieldTypes DEF PlannedMoves
<1>3. moved \in CampaignStates BY <1>1, <1>2, SceneTransitionedType, ProposeMoveType
<1>4. SameWait(c, moved)
  <2>1. SameWait(c, c) BY DEF SameWait
  <2>2. \A scene \in Scenes : SameWait(c, SceneTransitioned(c, scene))
                                /\ SameWait(c, ProposeMove(c, scene))
    BY <1>1, SameWaitParts
  <2> QED BY <1>2, <2>1, <2>2, Zenon
<1> HIDE DEF moved
<1>5. ASSUME done PROVE Awake(Request(e, JobFor("narrate", n)))
  <2> DEFINE asked == Request(e, JobFor("narrate", n))
  <2>1. RoundResolved(moved) \in CampaignStates BY <1>3, RoundResolvedType
  <2>2. e \in Decisions /\ e.state = RoundResolved(moved) /\ e.outbox = d.outbox
    BY <2>1 DEF Decisions
  <2>3. /\ e.state.phase = "none" /\ e.state.checks = c.checks /\ e.state.lastRound = n
        /\ e.state.opening = c.opening /\ e.state.lastNarrated = c.lastNarrated
    BY <1>3, <1>4, <2>2, RoundsWait DEF SameWait
  <2> HIDE DEF e
  <2>4. Fit(e) BY <1>5, <2>2, <2>3 DEF Fit, Fits
  <2>5. Fit(asked) /\ asked.state = e.state /\ JobFor("narrate", n) \in asked.outbox
    BY <1>1, <2>2, <2>3, <2>4, RequestAwake
  <2> HIDE DEF asked
  <2>6. c.lastNarrated < n BY <1>5 DEF Fit, Fits
  <2>7. Awake(asked) BY <2>3, <2>5, <2>6 DEF Awake, Woken
  <2> QED BY <2>7 DEF asked
<1>6. ASSUME ~done PROVE Awake(d)
  <2>1. CASE resolves BY <1>6, <2>1 DEF Awake, Woken
  <2>2. CASE ~resolves BY <2>2
  <2> QED BY <2>1, <2>2
<1>7. FinishRoundIfResolved(d, fired) =
        IF done THEN Request(e, JobFor("narrate", c.lastRound)) ELSE d
  BY DEF FinishRoundIfResolved, moved
<1> QED BY <1>5, <1>6, <1>7

\* The plan's checks get their timers, and no die is cast yet.
LEMMA ApplyRoundPlanAwake ==
  ASSUME NEW d \in Decisions, NEW called \in SUBSET Heroes, NEW move \in PlannedMoves,
         NEW fired \in BOOLEAN, Fit(d), d.state.phase = "planning"
  PROVE  Awake(ApplyRoundPlan(d, called, move, fired))
<1> DEFINE n == d.state.lastRound
           checks == [h \in Heroes |-> IF h \in called THEN "pending" ELSE d.state.checks[h]]
           armed == IF RollTimed THEN d.timers \cup {RollTimer(n, h) : h \in called} ELSE d.timers
           c == [d.state EXCEPT !.phase = "resolving", !.planned = move, !.checks = checks]
           planned == [d EXCEPT !.state = c, !.timers = armed]
<1>1. d.state \in CampaignStates /\ d.timers \subseteq Timers /\ n \in Nat
  BY DecisionTypes, FieldTypes
<1>2. c \in CampaignStates
  <2>1. checks \in [Heroes -> CheckStatus] BY <1>1, FieldTypes DEF CheckStatus
  <2> HIDE DEF checks
  <2> QED BY <1>1, <2>1, SetPhase, SetPlanned, SetChecks, Zenon
<1>3. armed \subseteq Timers BY <1>1 DEF RollTimer, Timers
<1>4. /\ c.status = d.state.status /\ c.phase = "resolving"
      /\ c.checks = checks /\ c.lastRound = n
      /\ c.opening = d.state.opening /\ c.lastNarrated = d.state.lastNarrated
  <2> HIDE DEF checks
  <2> QED BY <1>1 DEF CampaignStates
<1>5. /\ planned \in Decisions /\ planned.state = c /\ planned.timers = armed
      /\ planned.outbox = d.outbox
  <2> HIDE DEF c, armed
  <2> QED BY <1>2, <1>3 DEF Decisions
<1>6. \A h \in Heroes : d.state.checks[h] \in {"none", "resolved"} BY DEF Fit, Fits
<1>7. \A h \in Heroes : checks[h] = "pending" <=> h \in called BY <1>6
<1>8. \A h \in Heroes : checks[h] \notin {"rolling", "lucky"} BY <1>6
<1>9. RollTimed => \A h \in called : RollTimer(n, h) \in armed OBVIOUS
<1>10. ApplyRoundPlan(d, called, move, fired) = FinishRoundIfResolved(planned, fired)
  BY DEF ApplyRoundPlan, planned, c, armed, checks
<1> HIDE DEF c, armed, checks, planned
<1>11. Fit(planned) BY <1>4, <1>5, <1>6, <1>8 DEF Fit, Fits
<1>12. ~(c.status = "active" /\ c.phase = "resolving") => Awake(planned)
  BY <1>1, <1>4, <1>5, <1>11 DEF Awake, Woken
<1> QED BY <1>4, <1>5, <1>7, <1>9, <1>10, <1>11, <1>12, FinishRoundIfResolvedAwake

\* A check that rolls has its roll in the outbox, and the others their timers.
LEMMA StartRollsAwake ==
  ASSUME NEW d \in Decisions, NEW rollers \in SUBSET Heroes, NEW byTimer \in BOOLEAN, Fit(d),
         \A h \in rollers : d.state.checks[h] = "pending",
         Woken(d.state,
               d.timers \cup lost \cup {RollTimer(d.state.lastRound, h) : h \in rollers}, d.outbox)
  PROVE  Awake(StartRolls(d, rollers, byTimer))
<1> DEFINE n == d.state.lastRound
           checks == [h \in Heroes |-> IF h \in rollers THEN "rolling" ELSE d.state.checks[h]]
           windows == {RollTimer(n, h) : h \in rollers}
           T == IF byTimer THEN d.timers ELSE d.timers \ windows
           rolls == {RollJob(n, h, FALSE) : h \in rollers}
           c == [d.state EXCEPT !.checks = checks]
           e == StartRolls(d, rollers, byTimer)
<1>1. d.state \in CampaignStates /\ n \in Nat BY DecisionTypes, FieldTypes
<1>2. /\ c.status = d.state.status /\ c.phase = d.state.phase
      /\ c.checks = checks /\ c.lastRound = n
      /\ c.opening = d.state.opening /\ c.lastNarrated = d.state.lastNarrated
      /\ c.resting = d.state.resting /\ c.plannerFailed = d.state.plannerFailed
  <2> HIDE DEF checks
  <2> QED BY <1>1 DEF CampaignStates
<1>3. e = [d EXCEPT !.state = c, !.timers = T, !.outbox = d.outbox \cup rolls]
  BY DEF StartRolls
<1>4. e.state = c /\ e.timers = T /\ e.outbox = d.outbox \cup rolls
  <2> HIDE DEF c, T, rolls, e
  <2> QED BY <1>3 DEF Decisions
<1> HIDE DEF c, e
<1>5. \A h \in Heroes : /\ h \in rollers => checks[h] = "rolling"
                        /\ h \notin rollers => checks[h] = d.state.checks[h]
  OBVIOUS
<1>6. \A h \in Heroes : /\ RollJob(n, h, FALSE) \in rolls <=> h \in rollers
                        /\ RollJob(n, h, TRUE) \notin rolls
  BY DEF RollJob
<1>7. \A job \in rolls : job.round = n BY DEF RollJob
<1>8. RoundTimer(n) \notin windows /\ \A h \in Heroes : RollTimer(n, h) \in windows <=> h \in rollers
  BY DEF RollTimer, RoundTimer
<1>9. T = IF byTimer THEN d.timers ELSE d.timers \ windows OBVIOUS
<1> HIDE DEF checks, rolls, windows, T
<1>10. Fit(e)
  <2>1. \A h \in Heroes : checks[h] \notin {"none", "resolved"} => c.phase = "resolving"
    BY <1>2, <1>5 DEF Fit, Fits
  <2>2. \A job \in e.outbox : job.round <= n BY <1>1, <1>4, <1>7 DEF Fit, Fits
  <2>3. \A h \in Heroes : /\ checks[h] = "rolling" <=> RollJob(n, h, FALSE) \in e.outbox
                          /\ checks[h] = "lucky" <=> RollJob(n, h, TRUE) \in e.outbox
    <3> SUFFICES ASSUME NEW h \in Heroes
                 PROVE  /\ checks[h] = "rolling" <=> RollJob(n, h, FALSE) \in e.outbox
                        /\ checks[h] = "lucky" <=> RollJob(n, h, TRUE) \in e.outbox
      OBVIOUS
    <3>1. /\ d.state.checks[h] = "rolling" <=> RollJob(n, h, FALSE) \in d.outbox
          /\ d.state.checks[h] = "lucky" <=> RollJob(n, h, TRUE) \in d.outbox
      BY DEF Fit, Fits
    <3> QED BY <1>4, <1>5, <1>6, <3>1
  <2> QED BY <1>2, <1>4, <2>1, <2>2, <2>3 DEF Fit, Fits
<1>11. Woken(d.state, d.timers \cup lost \cup windows, d.outbox) BY DEF windows
<1>12. Woken(e.state, e.timers \cup lost, e.outbox)
  <2> SUFFICES ASSUME c.status = "active" PROVE Woken(c, T \cup lost, e.outbox)
    BY <1>4 DEF Woken
  <2>1. c.phase = "collecting" /\ RoundTimed => RoundTimer(n) \in T \cup lost
    BY <1>2, <1>8, <1>9, <1>11 DEF Woken
  <2>2. c.phase = "resolving" => \E h \in Heroes : checks[h] \notin {"none", "resolved"}
    BY <1>2, <1>5, <1>11 DEF Woken
  <2>3. ASSUME NEW h \in Heroes, c.phase = "resolving", RollTimed, checks[h] = "pending"
        PROVE  RollTimer(n, h) \in T \cup lost
    <3>1. h \notin rollers /\ d.state.checks[h] = "pending" BY <1>5, <2>3
    <3>2. RollTimer(n, h) \in d.timers \cup lost \cup windows
      BY <1>2, <1>11, <2>3, <3>1 DEF Woken
    <3> QED BY <1>8, <1>9, <3>1, <3>2
  <2>4. c.phase = "planning" => JobFor("plan", n) \in e.outbox \/ c.plannerFailed
    BY <1>2, <1>4, <1>11 DEF Woken
  <2>5. c.phase = "none" /\ n > 0 /\ c.resting = "none" =>
          JobFor("narrate", n) \in e.outbox /\ c.lastNarrated < n
    BY <1>2, <1>4, <1>11 DEF Woken
  <2> QED BY <1>2, <2>1, <2>2, <2>3, <2>4, <2>5 DEF Woken
<1>13. Awake(e) BY <1>10, <1>12 DEF Awake
<1> QED BY <1>13 DEF e

\* More timers wake no less.
LEMMA MoreTimersWoken ==
  ASSUME NEW c, NEW T, NEW S, NEW x, T \subseteq S, Woken(c, T, x)
  PROVE  Woken(c, S, x)
BY DEF Woken

\* A check's roll ends the check, or is rolled once more and then does.
LEMMA RecordCheckRollAwake ==
  ASSUME NEW d \in Decisions, NEW h \in Heroes, NEW lucky \in BOOLEAN,
         NEW rerolled \in BOOLEAN, NEW fired \in BOOLEAN, Awake(d),
         RollJob(d.state.lastRound, h, lucky) \in d.outbox, lucky => ~rerolled
  PROVE  Awake(RecordCheckRoll(
           [d EXCEPT !.outbox = @ \ {RollJob(d.state.lastRound, h, lucky)}], h, rerolled, fired))
<1> DEFINE n == d.state.lastRound
           job == RollJob(n, h, lucky)
           done == [d EXCEPT !.outbox = @ \ {job}]
           After(s) == [done EXCEPT !.state.checks[h] = s]
<1>1. d.state \in CampaignStates /\ n \in Nat /\ d.outbox \subseteq Jobs
        /\ d.state.checks \in [Heroes -> CheckStatus]
  BY DecisionTypes, FieldTypes
<1>2. done \in Decisions /\ done.state = d.state /\ done.timers = d.timers
        /\ done.outbox = d.outbox \ {job}
  BY <1>1 DEF Decisions
<1> HIDE DEF done
<1>3. d.state.checks[h] \in {"rolling", "lucky"} /\ d.state.phase = "resolving"
  <2>1. lucky = TRUE \/ lucky = FALSE OBVIOUS
  <2> QED BY <2>1 DEF Awake, Fit, Fits
<1>4. ASSUME NEW s \in CheckStatus
      PROVE  /\ After(s) \in Decisions /\ After(s).timers = d.timers
             /\ After(s).outbox = d.outbox \ {job}
             /\ After(s).state.status = d.state.status
             /\ After(s).state.phase = "resolving"
             /\ After(s).state.checks = [d.state.checks EXCEPT ![h] = s]
             /\ After(s).state.lastRound = n
             /\ After(s).state.opening = d.state.opening
             /\ After(s).state.lastNarrated = d.state.lastNarrated
  <2> DEFINE c == [d.state EXCEPT !.checks[h] = s]
  <2>1. c \in CampaignStates BY <1>1, SetChecksAt
  <2>2. After(s) = [done EXCEPT !.state = c] BY <1>2
  <2>3. /\ c.status = d.state.status /\ c.phase = d.state.phase /\ c.lastRound = n
        /\ c.checks = [d.state.checks EXCEPT ![h] = s]
        /\ c.opening = d.state.opening /\ c.lastNarrated = d.state.lastNarrated
    BY <1>1 DEF CampaignStates
  <2> HIDE DEF c, After
  <2> QED BY <1>2, <1>3, <2>1, <2>2, <2>3 DEF Decisions
<1>5. \A g \in Heroes : /\ d.state.checks[g] = "rolling" <=> RollJob(n, g, FALSE) \in d.outbox
                        /\ d.state.checks[g] = "lucky" <=> RollJob(n, g, TRUE) \in d.outbox
  BY DEF Awake, Fit, Fits
\* Of the dice of this round only this one is gone.
<1>6. \A g \in Heroes \ {h} :
        /\ RollJob(n, g, FALSE) # job /\ RollJob(n, g, TRUE) # job
        /\ RollJob(n, g, FALSE) # RollJob(n, h, TRUE) /\ RollJob(n, g, TRUE) # RollJob(n, h, TRUE)
  BY DEF RollJob
<1>7. RollJob(n, h, FALSE) \notin d.outbox \ {job} /\ RollJob(n, h, TRUE) \notin d.outbox \ {job}
  <2>1. CASE lucky = TRUE
    <3>1. d.state.checks[h] = "lucky" BY <1>5, <2>1
    <3> QED BY <1>5, <2>1, <3>1
  <2>2. CASE lucky = FALSE
    <3>1. d.state.checks[h] = "rolling" BY <1>5, <2>2
    <3> QED BY <1>5, <2>2, <3>1
  <2> QED BY <2>1, <2>2
<1>8. job # JobFor("narrateOpening", 0) BY NoRoll
<1>9. ASSUME NEW s \in {"lucky", "resolved"}
      PROVE  LET c == After(s).state IN
             /\ \A g \in Heroes : c.checks[g] \notin {"none", "resolved"} => c.phase = "resolving"
             /\ c.checks[h] = s /\ \A g \in Heroes \ {h} : c.checks[g] = d.state.checks[g]
             /\ c.opening \in {"pending", "waiting"} => c.lastRound = 0
             /\ c.opening = "pending" => JobFor("narrateOpening", 0) \in After(s).outbox
             /\ c.lastNarrated < c.lastRound /\ c.lastNarrated <= c.lastRound
  <2>1. s \in CheckStatus BY DEF CheckStatus
  <2> HIDE DEF After, job
  <2> QED BY <1>1, <1>3, <1>4, <1>8, <2>1 DEF Awake, Fit, Fits
<1>10. \A x \in d.outbox : x.round <= n BY DEF Awake, Fit, Fits
<1>11. "lucky" \in CheckStatus /\ "resolved" \in CheckStatus BY DEF CheckStatus
<1>12. d.state.status = "active" /\ RollTimed =>
         \A g \in Heroes : d.state.checks[g] = "pending" => RollTimer(n, g) \in d.timers \cup lost
  BY <1>3 DEF Awake, Woken
<1> HIDE DEF After, job
<1>13. Awake(FinishRoundIfResolved(After("resolved"), fired))
  <2> DEFINE e == After("resolved")
  <2>1. \A g \in Heroes : /\ e.state.checks[g] = "rolling" <=> RollJob(n, g, FALSE) \in e.outbox
                          /\ e.state.checks[g] = "lucky" <=> RollJob(n, g, TRUE) \in e.outbox
    <3>1. /\ e.state.checks[h] = "resolved" /\ e.outbox = d.outbox \ {job}
          /\ \A g \in Heroes \ {h} : e.state.checks[g] = d.state.checks[g]
      BY <1>4, <1>9, <1>11
    <3> HIDE DEF e
    <3> QED BY <1>5, <1>6, <1>7, <3>1
  <2>2. Fit(e) BY <1>4, <1>9, <1>10, <1>11, <2>1 DEF Fit, Fits
  <2>3. ~(e.state.status = "active" /\ e.state.phase = "resolving") => Awake(e)
    BY <1>1, <1>4, <1>11, <2>2, FieldTypes, DecisionTypes DEF Awake, Woken
  <2>4. e.state.status = "active" /\ RollTimed =>
          \A g \in Heroes : e.state.checks[g] = "pending"
                              => RollTimer(e.state.lastRound, g) \in e.timers \cup lost
    BY <1>4, <1>9, <1>11, <1>12
  <2>5. e \in Decisions BY <1>4, <1>11
  <2> HIDE DEF e
  <2>6. Awake(FinishRoundIfResolved(e, fired)) BY <2>2, <2>3, <2>4, <2>5, FinishRoundIfResolvedAwake
  <2> QED BY <2>6 DEF e
<1>14. ASSUME rerolled PROVE Awake(Request(After("lucky"), RollJob(n, h, TRUE)))
  <2> DEFINE e == After("lucky")
             asked == Request(e, RollJob(n, h, TRUE))
  <2>1. asked.state = e.state /\ asked.timers = d.timers
          /\ asked.outbox = (d.outbox \ {job}) \cup {RollJob(n, h, TRUE)}
    BY <1>4, <1>11 DEF Request, Decisions
  <2>2. e.state.checks[h] = "lucky" /\ \A g \in Heroes \ {h} : e.state.checks[g] = d.state.checks[g]
    BY <1>9
  <2>3. e.state.lastRound = n /\ e.state.phase = "resolving" /\ e.state.status = d.state.status
    BY <1>4, <1>11
  <2>4. /\ e.state.opening \in {"pending", "waiting"} => n = 0
        /\ e.state.opening = "pending" => JobFor("narrateOpening", 0) \in asked.outbox
        /\ e.state.lastNarrated < n /\ e.state.lastNarrated <= n
    BY <1>4, <1>9, <1>11, <2>1, <2>3
  <2> HIDE DEF e, asked
  <2>5. \A g \in Heroes : /\ e.state.checks[g] = "rolling" <=> RollJob(n, g, FALSE) \in asked.outbox
                          /\ e.state.checks[g] = "lucky" <=> RollJob(n, g, TRUE) \in asked.outbox
    <3>1. RollJob(n, h, FALSE) # RollJob(n, h, TRUE) BY DEF RollJob
    <3> QED BY <1>5, <1>6, <1>7, <2>1, <2>2, <3>1
  <2>6. \A x \in asked.outbox : x.round <= n
    <3>1. RollJob(n, h, TRUE).round = n BY DEF RollJob
    <3>2. \A x \in asked.outbox : x \in d.outbox \/ x = RollJob(n, h, TRUE) BY <2>1
    <3>3. n <= n BY <1>1
    <3> HIDE DEF n
    <3> QED BY <1>10, <3>1, <3>2, <3>3
  <2>7. Fit(asked) BY <2>1, <2>3, <2>4, <2>5, <2>6 DEF Fit, Fits
  <2>8. Woken(asked.state, asked.timers \cup lost, asked.outbox)
    BY <1>12, <2>1, <2>2, <2>3 DEF Woken
  <2>9. Awake(asked) BY <2>7, <2>8 DEF Awake
  <2> QED BY <2>9 DEF asked, e
<1>15. RecordCheckRoll(done, h, rerolled, fired) =
         IF rerolled THEN Request(After("lucky"), RollJob(n, h, TRUE))
         ELSE FinishRoundIfResolved(After("resolved"), fired)
  BY <1>2 DEF RecordCheckRoll, After
<1> QED BY <1>13, <1>14, <1>15 DEF done, job

-----------------------------------------------------------------------------
(* Members, and continuing after a pause.                                  *)

\* Rolling keeps a decision's shape and everything but the checks.
LEMMA StartRollsType ==
  ASSUME NEW d \in Decisions, NEW rollers \in SUBSET Heroes, NEW byTimer \in BOOLEAN
  PROVE  LET e == StartRolls(d, rollers, byTimer) IN
         /\ e \in Decisions
         /\ e.state.status = d.state.status /\ e.state.pausedBy = d.state.pausedBy
         /\ e.state.phase = d.state.phase /\ e.state.lastRound = d.state.lastRound
<1> DEFINE n == d.state.lastRound
           checks == [h \in Heroes |-> IF h \in rollers THEN "rolling" ELSE d.state.checks[h]]
           T == IF byTimer THEN d.timers ELSE d.timers \ {RollTimer(n, h) : h \in rollers}
           jobs == d.outbox \cup {RollJob(n, h, FALSE) : h \in rollers}
           c == [d.state EXCEPT !.checks = checks]
           e == StartRolls(d, rollers, byTimer)
<1>1. d.state \in CampaignStates /\ d.timers \subseteq Timers /\ d.outbox \subseteq Jobs
  BY DecisionTypes
<1>2. c \in CampaignStates
  <2>1. checks \in [Heroes -> CheckStatus] BY <1>1, FieldTypes DEF CheckStatus
  <2> HIDE DEF checks
  <2> QED BY <1>1, <2>1, SetChecks
<1>3. T \subseteq Timers BY <1>1
<1>4. jobs \subseteq Jobs
  <2>1. n \in Nat BY <1>1, FieldTypes
  <2>2. \A h \in rollers : RollJob(n, h, FALSE) \in Jobs BY <2>1, JobTypes
  <2> QED BY <1>1, <2>2
<1>5. /\ c.status = d.state.status /\ c.pausedBy = d.state.pausedBy
      /\ c.phase = d.state.phase /\ c.lastRound = n
  <2> HIDE DEF checks
  <2> QED BY <1>1 DEF CampaignStates
<1>6. e = [d EXCEPT !.state = c, !.timers = T, !.outbox = jobs] BY DEF StartRolls
<1>7. e \in Decisions /\ e.state = c
  <2> HIDE DEF c, T, jobs, e
  <2> QED BY <1>2, <1>3, <1>4, <1>6 DEF Decisions
<1> HIDE DEF c, e
<1>8. /\ e \in Decisions
      /\ e.state.status = d.state.status /\ e.state.pausedBy = d.state.pausedBy
      /\ e.state.phase = d.state.phase /\ e.state.lastRound = d.state.lastRound
  BY <1>5, <1>7
<1> QED BY <1>8 DEF e

\* Who goes away rolls what was open and frees the slot.
LEMMA MarkAwayAwake ==
  ASSUME NEW d \in Decisions, NEW u \in Users, NEW tooSoon \in BOOLEAN, Awake(d),
         d.state.pausedBy = "nobody", d.state.hero[u] \in Heroes,
         d.state.phase = "collecting" => d.state.lastRound > 0
  PROVE  Awake(MarkAway(d, u, tooSoon))
<1> DEFINE c == d.state
           h == c.hero[u]
           gone == [d EXCEPT !.state = MemberMarkedAway(@, u)]
           rollers == {g \in Heroes : g = h /\ c.checks[g] = "pending"}
           left == StartRolls(gone, rollers, FALSE)
           asked == /\ c.phase = "collecting"
                    /\ h \in c.participants
                    /\ c.submissions[h] = "none"
           freed == [left EXCEPT !.state.submissions[h] = "excused"]
           excused == IF asked THEN CloseIfEveryoneResponded(freed) ELSE left
<1>1. c \in CampaignStates BY DecisionTypes
<1>2. MemberMarkedAway(c, u) \in CampaignStates BY <1>1, MemberMarkedAwayType
<1>3. gone \in Decisions /\ gone.state = MemberMarkedAway(c, u) /\ Awake(gone)
  <2>1. SameWait(c, MemberMarkedAway(c, u)) BY <1>1, SameWaitParts
  <2>2. gone = [d EXCEPT !.state = MemberMarkedAway(c, u)] OBVIOUS
  <2>3. gone \in Decisions /\ gone.state = MemberMarkedAway(c, u) BY <1>2 DEF Decisions
  <2> QED BY <1>2, <2>1, <2>2, <2>3, SameWaitDecision
<1>4. /\ gone.state.pausedBy = c.pausedBy /\ gone.state.phase = c.phase
      /\ gone.state.checks = c.checks /\ gone.state.lastRound = c.lastRound
  BY <1>1, <1>3, MemberMarkedAwayTable
<1>5. rollers \in SUBSET Heroes /\ \A g \in rollers : c.checks[g] = "pending" OBVIOUS
<1> HIDE DEF gone, rollers
<1>6. Awake(left)
  <2>1. Woken(gone.state,
              gone.timers \cup lost \cup {RollTimer(gone.state.lastRound, g) : g \in rollers},
              gone.outbox)
    BY <1>3, MoreTimersWoken DEF Awake
  <2> QED BY <1>3, <1>4, <1>5, <2>1, StartRollsAwake DEF Awake
<1>7. /\ left \in Decisions /\ left.state \in CampaignStates
      /\ left.state.pausedBy = "nobody" /\ left.state.phase = c.phase
      /\ left.state.lastRound = c.lastRound
  BY <1>3, <1>4, <1>5, StartRollsType, DecisionTypes
<1> HIDE DEF left
<1>8. CloseIfEveryoneResponded(freed) \in Decisions /\ Awake(CloseIfEveryoneResponded(freed))
  <2> DEFINE e == [left.state EXCEPT !.submissions[h] = "excused"]
  <2>1. e \in CampaignStates BY <1>7, SetSubmissionsAt DEF Submissions
  <2>2. SameWait(left.state, e) BY <1>7 DEF CampaignStates, SameWait
  <2>3. e.pausedBy = "nobody" /\ e.phase = c.phase /\ e.lastRound = c.lastRound
    BY <1>7 DEF CampaignStates
  <2>4. freed = [left EXCEPT !.state = e] OBVIOUS
  <2> HIDE DEF e, freed
  <2>5. freed \in Decisions /\ freed.state = e BY <1>7, <2>1, <2>4 DEF Decisions
  <2>6. Awake(freed) BY <1>6, <1>7, <2>1, <2>2, <2>4, SameWaitDecision
  <2> QED BY <2>3, <2>5, <2>6, CloseIfEveryoneRespondedAwake
<1>9. excused \in Decisions /\ Awake(excused) BY <1>6, <1>7, <1>8
<1>10. MarkAway(d, u, tooSoon) =
         IF excused.state.status = "active" /\ Present(excused.state) = {}
         THEN EnterWaiting(excused)
         ELSE FinishReadyCheck(excused, FALSE, tooSoon)
  BY DEF MarkAway, left, gone, rollers
<1> HIDE DEF excused
<1>11. Awake(EnterWaiting(excused)) BY <1>9, WaitingAwake DEF Awake
<1>12. ~(excused.state.status = "active" /\ Present(excused.state) = {})
         => Awake(FinishReadyCheck(excused, FALSE, tooSoon))
  BY <1>9, FinishReadyCheckAwake
<1> QED BY <1>10, <1>11, <1>12

\* Who leaves for good leaves whatever the others wait for.
LEMMA RetireMemberAwake ==
  ASSUME NEW d \in Decisions, NEW u \in Users, Awake(d), d.state.pausedBy = "nobody",
         d.state.phase = "collecting" => d.state.lastRound > 0
  PROVE  Awake(RetireMember(d, u))
<1> DEFINE gone == [d EXCEPT !.state = MemberRetired(@, u)]
           left == CloseIfEveryoneResponded(gone)
<1>1. d.state \in CampaignStates BY DecisionTypes
<1>2. MemberRetired(d.state, u) \in CampaignStates BY <1>1, MemberRetiredType
<1>3. gone \in Decisions /\ gone.state = MemberRetired(d.state, u) BY <1>2 DEF Decisions
<1>4. Awake(gone)
  <2>1. SameWait(d.state, MemberRetired(d.state, u)) BY <1>1, SameWaitParts
  <2> QED BY <1>2, <2>1, SameWaitDecision
<1>5. /\ gone.state.pausedBy = "nobody" /\ gone.state.phase = d.state.phase
      /\ gone.state.lastRound = d.state.lastRound
  <2> HIDE DEF gone
  <2> QED BY <1>1, <1>3 DEF MemberRetired, CampaignStates
<1>6. RetireMember(d, u) = IF left.state.status = "active" /\ Present(left.state) = {}
                           THEN EnterWaiting(left) ELSE left
  BY DEF RetireMember
<1> HIDE DEF gone
<1>7. left \in Decisions /\ Awake(left) BY <1>3, <1>4, <1>5, CloseIfEveryoneRespondedAwake
<1> HIDE DEF left
<1> QED BY <1>6, <1>7, WaitingAwake DEF Awake

\* A continue arms the windows again and takes up what the pause had held.
LEMMA ContinueAwake ==
  ASSUME NEW d \in Decisions, NEW u \in Users, NEW tooSoon \in BOOLEAN, NEW fired \in BOOLEAN,
         Fit(d), Present(Resumed(d, u).state) # {}
  PROVE  Awake(PickUpHeldWork(Resumed(d, u), tooSoon, fired))
<1> DEFINE back == IF u \in d.state.away THEN MemberReturned(d.state, u) ELSE d.state
           rearmed == {t \in HeldTimers(back) : IF t.kind = "round" THEN RoundTimed ELSE RollTimed}
           c == [back EXCEPT !.status = "active", !.pausedBy = "nobody"]
           T == d.timers \cup rearmed
           e == Resumed(d, u)
           n == d.state.lastRound
<1>1. d.state \in CampaignStates /\ d.timers \subseteq Timers /\ n \in Nat
  BY DecisionTypes, FieldTypes
<1>2. back \in CampaignStates /\ SameWait(d.state, back)
  <2>1. SameWait(d.state, d.state) /\ SameWait(d.state, MemberReturned(d.state, u))
    BY <1>1, SameWaitParts
  <2> QED BY <1>1, <2>1, MemberReturnedType
<1> HIDE DEF back
<1>3. c \in CampaignStates
  <2>1. "nobody" \in Pausers BY DEF Pausers
  <2> QED BY <1>2, <2>1, SetStatus, SetPausedBy, Zenon
<1>4. /\ c.status = "active" /\ c.phase = back.phase /\ c.checks = back.checks
      /\ c.lastRound = n /\ c.opening = back.opening /\ c.lastNarrated = back.lastNarrated
  BY <1>2 DEF CampaignStates, SameWait
<1>5. T \subseteq Timers BY <1>1, <1>2, HeldTimersType
<1>6. e = [d EXCEPT !.state = c, !.timers = T] BY DEF Resumed, back
<1>7. /\ c.phase = "collecting" /\ RoundTimed => RoundTimer(n) \in T
      /\ RollTimed => \A h \in Heroes : c.checks[h] = "pending" => RollTimer(n, h) \in T
  <2>1. RoundTimer(n).kind = "round" /\ \A h : RollTimer(n, h).kind = "roll"
    BY DEF RoundTimer, RollTimer
  <2>2. back.lastRound = n BY <1>2 DEF SameWait
  <2> HIDE DEF c, n
  <2> QED BY <1>4, <2>1, <2>2 DEF HeldTimers
<1> HIDE DEF T, c
<1>8. e \in Decisions /\ e.state = c /\ e.timers = T /\ e.outbox = d.outbox
  <2> HIDE DEF e
  <2> QED BY <1>3, <1>5, <1>6 DEF Decisions
<1> HIDE DEF e
<1>9. Fit(e) BY <1>2, <1>4, <1>8 DEF Fit, Fits, SameWait
<1>10. Present(e.state) # {} BY DEF e
<1>11. CASE c.phase = "none" /\ c.resting # "none"
  <2>1. Awake(e) BY <1>8, <1>9, <1>11 DEF Awake, Woken
  <2> QED BY <1>8, <1>11, <2>1 DEF PickUpHeldWork, e
<1>12. CASE c.phase = "none" /\ c.resting = "none"
  <2>1. Awake(OpenRound(e, FALSE, tooSoon)) BY <1>8, <1>9, <1>10, <1>12, OpenRoundAwake
  <2> QED BY <1>8, <1>12, <2>1 DEF PickUpHeldWork, e
<1>13. CASE c.phase = "planning"
  <2> DEFINE f == Request(e, JobFor("plan", n))
  <2>1. f.state = c /\ JobFor("plan", n) \in f.outbox /\ Fit(f)
    BY <1>1, <1>4, <1>8, <1>9, RequestAwake
  <2> HIDE DEF f
  <2>2. Awake(f) BY <1>4, <1>13, <2>1 DEF Awake, Woken
  <2> QED BY <1>4, <1>8, <1>13, <2>2 DEF PickUpHeldWork, e, f
<1>14. CASE c.phase = "resolving"
  <2>1. Awake(FinishRoundIfResolved(e, fired))
    BY <1>4, <1>7, <1>8, <1>9, <1>14, FinishRoundIfResolvedAwake
  <2> QED BY <1>8, <1>14, <2>1 DEF PickUpHeldWork, e
<1>15. CASE c.phase = "collecting"
  <2>1. Awake(e) BY <1>4, <1>7, <1>8, <1>9, <1>15 DEF Awake, Woken
  <2> QED BY <1>8, <1>15, <2>1 DEF PickUpHeldWork, e
<1> QED BY <1>3, <1>11, <1>12, <1>13, <1>14, <1>15, FieldTypes

-----------------------------------------------------------------------------
(* The table's waits.                                                      *)

\* What the store holds is awake.
TableAwake == Fits(campaign, outbox) /\ Woken(campaign, timers \cup lost, outbox)

\* What a handler starts from.
LEMMA StoredAwake ==
  ASSUME Inv, TableAwake
  PROVE  /\ Awake(Stored) /\ Fit(Stored) /\ Stored \in Decisions
         /\ Stored.state = campaign /\ Stored.timers = timers /\ Stored.outbox = outbox
         /\ campaign \in CampaignStates /\ campaign.lastRound \in Nat
         /\ campaign.lastNarrated \in Nat
         /\ campaign.pausedBy # "nobody" => campaign.status # "active"
         /\ campaign.phase # "none" => campaign.lastRound > 0
         /\ campaign.status = "active" => Present(campaign) # {}
<1>1. Stored.state = campaign /\ Stored.timers = timers /\ Stored.outbox = outbox
  BY DEF Stored
<1>2. Stored \in Decisions /\ campaign \in CampaignStates BY StoredSound
<1>3. campaign.lastRound \in Nat /\ campaign.lastNarrated \in Nat BY <1>2, FieldTypes
<1>4. /\ campaign.pausedBy # "nobody" => campaign.status # "active"
      /\ campaign.phase # "none" => campaign.lastRound > 0
      /\ campaign.status = "active" => Present(campaign) # {}
  BY DEF Inv, TableInOrder, InOrder, Consistent
<1> QED BY <1>1, <1>2, <1>3, <1>4 DEF Awake, Fit, TableAwake

\* What every commit does to the lost timers.
LostKept == lost' = (lost \ timers') \cap HeldTimers(campaign')

\* Every commit does it.
LEMMA CommitLost ==
  ASSUME NEW d, Commit(d)
  PROVE  LostKept
BY DEF Commit, StillLost, LostKept

\* A window that is still open and lost its timer is remembered.
LEMMA LostAwake ==
  ASSUME LostKept, Fits(campaign', outbox'), Woken(campaign', timers' \cup lost, outbox')
  PROVE  TableAwake'
<1> DEFINE c == campaign'
           armed == timers' \cup lost'
<1>1. \A t \in HeldTimers(c) : t \in timers' \cup lost => t \in armed
  BY DEF LostKept
<1>2. c.phase = "collecting" => RoundTimer(c.lastRound) \in HeldTimers(c)
  BY DEF HeldTimers
<1>3. \A h \in Heroes : c.checks[h] = "pending" => RollTimer(c.lastRound, h) \in HeldTimers(c)
  BY DEF HeldTimers
<1>4. Woken(c, timers' \cup lost, outbox') OBVIOUS
<1> HIDE DEF armed, c
<1>5. c.status = "active" /\ c.phase = "collecting" /\ RoundTimed =>
        RoundTimer(c.lastRound) \in armed
  BY <1>1, <1>2, <1>4 DEF Woken
<1>6. c.status = "active" /\ c.phase = "resolving" /\ RollTimed =>
        \A h \in Heroes : c.checks[h] = "pending" => RollTimer(c.lastRound, h) \in armed
  BY <1>1, <1>3, <1>4 DEF Woken
<1>7. Woken(c, armed, outbox') BY <1>4, <1>5, <1>6 DEF Woken
<1> QED BY <1>7 DEF TableAwake, c, armed

\* The bus commits what the handler left awake.
LEMMA CommitAwake ==
  ASSUME NEW d, Awake(d), Commit(d)
  PROVE  TableAwake'
<1>1. LostKept BY CommitLost
<1>2. campaign' = d.state /\ timers' = d.timers /\ outbox' = d.outbox BY DEF Commit
<1> QED BY <1>1, <1>2, LostAwake DEF Awake, Fit

\* A command that changes nothing the table waits for.
LEMMA SameWaitStep ==
  ASSUME Inv, TableAwake, NEW c \in CampaignStates, SameWait(campaign, c),
         Commit([Stored EXCEPT !.state = c])
  PROVE  TableAwake'
BY StoredAwake, SameWaitDecision, CommitAwake

\* The rounds' commands.
LEMMA RoundCommandsAwake ==
  ASSUME Inv, TableAwake, NEW u \in Users, NEW h \in Heroes,
         SubmitAction(u, h) \/ Pass(u, h) \/ RequestRoll(u, h) \/ JoinHero(u, h)
           \/ CloseRoundByOrganizer \/ RetryPlan
  PROVE  TableAwake'
<1>1. ASSUME NEW s \in {"action", "pass"}, Respond(u, h, s) PROVE TableAwake'
  <2> DEFINE c == Responded(campaign, u, h, s)
             e == [Stored EXCEPT !.state = c]
  <2>1. s \in Submissions BY DEF Submissions
  <2>2. c \in CampaignStates /\ SameWait(campaign, c)
    BY <2>1, StoredAwake, RespondedType, SameWaitParts
  <2>3. c.pausedBy = campaign.pausedBy /\ c.status = campaign.status
          /\ c.phase = campaign.phase /\ c.lastRound = campaign.lastRound
    BY StoredAwake DEF Responded, CampaignStates
  <2>4. Commit(CloseIfEveryoneResponded(e)) BY <1>1, StoredAwake DEF Respond
  <2> HIDE DEF c
  <2>5. e \in Decisions /\ e.state = c /\ Awake(e)
    <3>1. e \in Decisions /\ e.state = c BY <2>2, StoredAwake DEF Decisions
    <3> QED BY <2>2, <3>1, StoredAwake, SameWaitDecision
  <2> HIDE DEF e
  <2>6. Awake(CloseIfEveryoneResponded(e))
    BY <2>3, <2>5, StoredAwake, CloseIfEveryoneRespondedAwake
  <2> QED BY <2>4, <2>6, CommitAwake
<1>2. ASSUME RequestRoll(u, h) PROVE TableAwake'
  <2>1. Woken(campaign, timers \cup lost \cup {RollTimer(campaign.lastRound, g) : g \in {h}},
              outbox)
    BY MoreTimersWoken DEF TableAwake
  <2>2. Awake(StartRolls(Stored, {h}, FALSE))
    BY <1>2, <2>1, StoredAwake, StartRollsAwake DEF RequestRoll
  <2> QED BY <1>2, <2>2, CommitAwake DEF RequestRoll
<1>3. ASSUME JoinHero(u, h) PROVE TableAwake'
  <2> DEFINE c == [campaign EXCEPT !.hero[u] = h]
  <2>1. c \in CampaignStates BY StoredAwake, SetHeroAt
  <2>2. SameWait(campaign, c) BY StoredAwake DEF CampaignStates, SameWait
  <2>3. Commit([Stored EXCEPT !.state = c]) BY <1>3, StoredAwake DEF JoinHero
  <2> HIDE DEF c
  <2> QED BY <2>1, <2>2, <2>3, SameWaitStep
<1>4. ASSUME CloseRoundByOrganizer PROVE TableAwake'
  <2>1. Awake(CloseRound(Stored, FALSE))
    BY <1>4, StoredAwake, CloseRoundAwake DEF CloseRoundByOrganizer
  <2> QED BY <1>4, <2>1, CommitAwake DEF CloseRoundByOrganizer
<1>5. ASSUME RetryPlan PROVE TableAwake'
  <2> DEFINE n == campaign.lastRound
             c == [campaign EXCEPT !.plannerFailed = FALSE]
             e == [Stored EXCEPT !.state.plannerFailed = FALSE]
             f == Request(e, JobFor("plan", n))
  <2>1. /\ c \in CampaignStates /\ c.phase = "planning" /\ c.checks = campaign.checks
        /\ c.lastRound = n /\ c.opening = campaign.opening
        /\ c.lastNarrated = campaign.lastNarrated
    BY <1>5, StoredAwake, SetPlannerFailed DEF RetryPlan, CampaignStates
  <2>2. e = [Stored EXCEPT !.state = c] BY StoredAwake
  <2> HIDE DEF c, e
  <2>3. e \in Decisions /\ e.state = c /\ e.outbox = outbox
    BY <2>1, <2>2, StoredAwake DEF Decisions
  <2>4. Fit(e) BY <1>5, <2>1, <2>3 DEF RetryPlan, TableAwake, Fit, Fits
  <2>5. Fit(f) /\ f.state = c /\ JobFor("plan", n) \in f.outbox
    BY <2>1, <2>3, <2>4, StoredAwake, RequestAwake
  <2>6. Commit(f) BY <1>5 DEF RetryPlan, e
  <2> HIDE DEF f
  <2>7. Awake(f) BY <2>1, <2>5 DEF Awake, Woken
  <2> QED BY <2>6, <2>7, CommitAwake
<1> QED BY <1>1, <1>2, <1>3, <1>4, <1>5 DEF SubmitAction, Pass

\* The members' commands, the pause and the continue.
LEMMA MemberCommandsAwake ==
  ASSUME Inv, TableAwake, NEW u \in Users, NEW tooSoon \in BOOLEAN, NEW fired \in BOOLEAN,
         NEW reason \in {"organizer", "safety"},
         \/ MarkMemberReturned(u) \/ Retire(u) \/ MarkMemberAway(u, tooSoon)
         \/ Continue(u, tooSoon, fired) \/ Pause(reason)
  PROVE  TableAwake'
<1>1. ASSUME MarkMemberReturned(u) PROVE TableAwake'
  <2>1. MemberReturned(campaign, u) \in CampaignStates
          /\ SameWait(campaign, MemberReturned(campaign, u))
    BY StoredAwake, MemberReturnedType, SameWaitParts
  <2>2. Commit([Stored EXCEPT !.state = MemberReturned(campaign, u)])
    BY <1>1, StoredAwake DEF MarkMemberReturned
  <2> QED BY <2>1, <2>2, SameWaitStep
<1>2. ASSUME Retire(u) PROVE TableAwake'
  <2>1. Awake(RetireMember(Stored, u))
    BY <1>2, StoredAwake, RetireMemberAwake DEF Retire, UserMay
  <2> QED BY <1>2, <2>1, CommitAwake DEF Retire
<1>3. ASSUME MarkMemberAway(u, tooSoon) PROVE TableAwake'
  <2>1. campaign.hero[u] \in Heroes
    BY <1>3, StoredAwake, FieldTypes DEF MarkMemberAway, Present, Members
  <2>2. Awake(MarkAway(Stored, u, tooSoon))
    BY <1>3, <2>1, StoredAwake, MarkAwayAwake DEF MarkMemberAway, UserMay
  <2> QED BY <1>3, <2>2, CommitAwake DEF MarkMemberAway
<1>4. ASSUME Continue(u, tooSoon, fired) PROVE TableAwake'
  <2>1. Present(Resumed(Stored, u).state) # {} BY <1>4 DEF Continue, ContinueRefused
  <2>2. Awake(PickUpHeldWork(Resumed(Stored, u), tooSoon, fired))
    BY <2>1, StoredAwake, ContinueAwake
  <2> QED BY <1>4, <2>2, CommitAwake DEF Continue
<1>5. ASSUME Pause(reason) PROVE TableAwake'
  <2>1. Awake(PauseCampaign(Stored, reason)) BY StoredAwake, WaitingAwake DEF Pausers
  <2> QED BY <1>5, <2>1, CommitAwake DEF Pause
<1> QED BY <1>1, <1>2, <1>3, <1>4, <1>5

\* The votes on scene moves.
LEMMA VotesAwake ==
  ASSUME Inv, TableAwake,
         \/ \E u \in Users, scene \in Scenes : ProposeMoveByPlayer(u, scene)
         \/ \E u \in Users : \/ ObjectToMove(u) \/ SupportMove(u)
                             \/ WithdrawMoveSupport(u) \/ WithdrawObjection(u)
         \/ \E outcome \in {"go", "stay"} : SettleMoveByOrganizer(outcome)
  PROVE  TableAwake'
<1>1. campaign \in CampaignStates /\ Stored.state = campaign BY StoredAwake
<1>2. ASSUME SameWait(campaign, campaign'), UNCHANGED <<timers, outbox>>
      PROVE  TableAwake'
  <2>1. LostKept
    BY CommitLost DEF ProposeMoveByPlayer, ObjectToMove, SupportMove, WithdrawMoveSupport,
       WithdrawObjection, SettleMoveByOrganizer
  <2>2. Fits(campaign', outbox) /\ Woken(campaign', timers \cup lost, outbox)
    BY <1>2, SameWaitAwake DEF TableAwake
  <2> QED BY <1>2, <2>1, <2>2, LostAwake
<1>3. ASSUME NEW u \in Users, NEW scene \in Scenes, ProposeMoveByPlayer(u, scene)
      PROVE  SameWait(campaign, campaign') /\ UNCHANGED <<timers, outbox>>
  BY <1>1, <1>3 DEF ProposeMoveByPlayer, Commit, Stored, MoveProposed, SameWait, CampaignStates
<1>4. ASSUME NEW u \in Users, ObjectToMove(u)
      PROVE  SameWait(campaign, campaign') /\ UNCHANGED <<timers, outbox>>
  <2> DEFINE c == Objected(campaign, u)
  <2>1. c \in CampaignStates
    <3>1. campaign.pendingMove.objectors \subseteq Users
            /\ campaign.pendingMove.supporters \subseteq Users
      BY <1>1, FieldTypes DEF Moves
    <3>2. /\ campaign.pendingMove.objectors \cup {u} \subseteq Users
          /\ campaign.pendingMove.objectors \ {u} \subseteq Users
          /\ campaign.pendingMove.supporters \cup {u} \subseteq Users
          /\ campaign.pendingMove.supporters \ {u} \subseteq Users
      BY <3>1
    <3> QED BY <1>1, <3>2, SetObjectors, SetSupporters, Zenon DEF Objected
  <2>2. SameWait(campaign, c) BY <1>1 DEF Objected, CampaignStates, SameWait
  <2>3. campaign' \in {c, Settle(c, "stay")} /\ UNCHANGED <<timers, outbox>>
    BY <1>4 DEF ObjectToMove, Commit, Stored
  <2> HIDE DEF c
  <2> QED BY <2>1, <2>2, <2>3, SettleWait, SameWaitTransitive
<1>5. ASSUME NEW u \in Users, SupportMove(u)
      PROVE  SameWait(campaign, campaign') /\ UNCHANGED <<timers, outbox>>
  <2> DEFINE c == Supported(campaign, u)
  <2>1. c \in CampaignStates
    <3>1. campaign.pendingMove.objectors \subseteq Users
            /\ campaign.pendingMove.supporters \subseteq Users
      BY <1>1, FieldTypes DEF Moves
    <3>2. /\ campaign.pendingMove.objectors \cup {u} \subseteq Users
          /\ campaign.pendingMove.objectors \ {u} \subseteq Users
          /\ campaign.pendingMove.supporters \cup {u} \subseteq Users
          /\ campaign.pendingMove.supporters \ {u} \subseteq Users
      BY <3>1
    <3> QED BY <1>1, <3>2, SetObjectors, SetSupporters, Zenon DEF Supported
  <2>2. SameWait(campaign, c) BY <1>1 DEF Supported, CampaignStates, SameWait
  <2>3. campaign' \in {c, Settle(c, "go")} /\ UNCHANGED <<timers, outbox>>
    BY <1>5 DEF SupportMove, Commit, Stored
  <2> HIDE DEF c
  <2> QED BY <2>1, <2>2, <2>3, SettleWait, SameWaitTransitive
<1>6. ASSUME NEW u \in Users, WithdrawMoveSupport(u) \/ WithdrawObjection(u)
      PROVE  SameWait(campaign, campaign') /\ UNCHANGED <<timers, outbox>>
  BY <1>1, <1>6 DEF WithdrawMoveSupport, WithdrawObjection, Commit, Stored, SameWait,
     CampaignStates
<1>7. ASSUME NEW outcome, SettleMoveByOrganizer(outcome)
      PROVE  SameWait(campaign, campaign') /\ UNCHANGED <<timers, outbox>>
  BY <1>1, <1>7 DEF SettleMoveByOrganizer, Commit, Stored, Settle, SceneTransitioned,
     SameWait, CampaignStates
<1> QED BY <1>2, <1>3, <1>4, <1>5, <1>6, <1>7

\* Rests, and getting ready.
LEMMA RestsAwake ==
  ASSUME Inv, TableAwake, NEW u \in Users, NEW tooSoon \in BOOLEAN,
         NEW rest \in {"short", "long"},
         \/ QueueRest(rest) \/ TakeRest(rest) \/ CancelQueuedRest \/ EndRest(tooSoon)
         \/ MarkReady(u, tooSoon) \/ BeginPlay(tooSoon)
  PROVE  TableAwake'
<1>1. /\ campaign \in CampaignStates /\ Stored.state = campaign /\ Stored.timers = timers
      /\ Stored.outbox = outbox /\ Stored \in Decisions
  BY StoredAwake
<1>2. ASSUME campaign.phase = "none", Commit([Stored EXCEPT !.state = RestTaken(@, rest)])
      PROVE  TableAwake'
  <2> DEFINE c == RestTaken(campaign, rest)
  <2>1. /\ c.phase = "none" /\ c.resting = rest /\ c.checks = campaign.checks
        /\ c.lastRound = campaign.lastRound /\ c.opening = campaign.opening
        /\ c.lastNarrated = campaign.lastNarrated
    BY <1>1, <1>2 DEF RestTaken, CampaignStates
  <2>2. campaign' = c /\ UNCHANGED <<timers, outbox>> BY <1>1, <1>2 DEF Commit, Stored
  <2> HIDE DEF c
  <2>3. Fits(c, outbox) BY <1>2, <2>1 DEF TableAwake, Fits
  <2>4. Woken(c, timers \cup lost, outbox) BY <2>1 DEF Woken
  <2> QED BY <1>2, <2>2, <2>3, <2>4, CommitLost, LostAwake
<1>3. ASSUME NEW x \in Rests, Commit([Stored EXCEPT !.state.pendingRest = x])
      PROVE  TableAwake'
  <2> DEFINE c == [campaign EXCEPT !.pendingRest = x]
  <2>1. c \in CampaignStates BY <1>1, SetPendingRest
  <2>2. SameWait(campaign, c) BY <1>1 DEF SameWait, CampaignStates
  <2>3. Commit([Stored EXCEPT !.state = c]) BY <1>1, <1>3
  <2> HIDE DEF c
  <2> QED BY <2>1, <2>2, <2>3, SameWaitStep
<1>4. rest \in Rests /\ "none" \in Rests BY DEF Rests
<1>5. ASSUME QueueRest(rest) PROVE TableAwake'
  <2>1. CASE campaign.phase = "none"
    <3>1. Commit([Stored EXCEPT !.state = RestTaken(@, rest)]) BY <1>1, <1>5, <2>1 DEF QueueRest
    <3> QED BY <1>2, <2>1, <3>1
  <2>2. CASE campaign.phase # "none"
    <3>1. Commit([Stored EXCEPT !.state.pendingRest = rest]) BY <1>1, <1>5, <2>2 DEF QueueRest
    <3> QED BY <1>3, <1>4, <3>1
  <2> QED BY <2>1, <2>2
<1>6. TakeRest(rest) => TableAwake' BY <1>2 DEF TakeRest
<1>7. CancelQueuedRest => TableAwake' BY <1>3, <1>4 DEF CancelQueuedRest
<1>8. ASSUME EndRest(tooSoon) PROVE TableAwake'
  <2> DEFINE c == [campaign EXCEPT !.resting = "none"]
             e == [Stored EXCEPT !.state.resting = "none"]
  <2>1. /\ c.status = campaign.status /\ c.phase = campaign.phase
        /\ c.checks = campaign.checks /\ c.lastRound = campaign.lastRound
        /\ c.opening = campaign.opening /\ c.lastNarrated = campaign.lastNarrated
        /\ c.hero = campaign.hero /\ c.away = campaign.away
    BY <1>1 DEF CampaignStates
  <2>2. c \in CampaignStates BY <1>1, <1>4, SetResting
  <2>3. e = [Stored EXCEPT !.state = c] BY <1>1
  <2> HIDE DEF c, e
  <2>4. e \in Decisions /\ e.state = c /\ e.outbox = outbox BY <1>1, <2>2, <2>3 DEF Decisions
  <2>5. Fit(e) BY <2>1, <2>4 DEF Fit, Fits, TableAwake
  <2>6. c.phase = "none" BY <1>8, <2>4 DEF EndRest, OpenRoundRefused, e
  <2>7. c.status = "active" => Present(c) # {} BY <2>1, StoredAwake DEF Present, Members
  <2>8. Awake(OpenRound(e, FALSE, tooSoon)) BY <2>4, <2>5, <2>6, <2>7, OpenRoundAwake
  <2>9. Commit(OpenRound(e, FALSE, tooSoon)) BY <1>8 DEF EndRest, e
  <2> QED BY <2>8, <2>9, CommitAwake
<1>9. ASSUME MarkReady(u, tooSoon) PROVE TableAwake'
  <2> DEFINE c == [campaign EXCEPT !.ready = @ \cup {u}]
             e == [Stored EXCEPT !.state.ready = @ \cup {u}]
  <2>1. c \in CampaignStates
    <3>1. campaign.ready \cup {u} \subseteq Users BY <1>1, FieldTypes
    <3> QED BY <1>1, <3>1, SetReady
  <2>2. SameWait(campaign, c) /\ c.hero = campaign.hero /\ c.away = campaign.away
    BY <1>1 DEF CampaignStates, SameWait
  <2>3. e = [Stored EXCEPT !.state = c] BY <1>1
  <2> HIDE DEF c, e
  <2>4. e \in Decisions /\ e.state = c BY <1>1, <2>1, <2>3 DEF Decisions
  <2>5. Awake(e) BY <1>1, <2>1, <2>2, <2>3, StoredAwake, SameWaitDecision
  <2>6. c.status = "active" => Present(c) # {}
    BY <2>2, StoredAwake DEF Present, Members, SameWait
  <2>7. Awake(FinishReadyCheck(e, FALSE, tooSoon)) BY <2>4, <2>5, <2>6, FinishReadyCheckAwake
  <2>8. Commit(FinishReadyCheck(e, FALSE, tooSoon)) BY <1>9 DEF MarkReady, e
  <2> QED BY <2>7, <2>8, CommitAwake
<1>10. ASSUME BeginPlay(tooSoon) PROVE TableAwake'
  <2> DEFINE c == [campaign EXCEPT !.opening = "done"]
             e == [Stored EXCEPT !.state.opening = "done"]
  <2>1. /\ c.status = campaign.status /\ c.phase = campaign.phase
        /\ c.checks = campaign.checks /\ c.lastRound = campaign.lastRound
        /\ c.opening = "done" /\ c.lastNarrated = campaign.lastNarrated
        /\ c.resting = campaign.resting /\ c.plannerFailed = campaign.plannerFailed
        /\ c.hero = campaign.hero /\ c.away = campaign.away
    BY <1>1 DEF CampaignStates
  <2>2. c \in CampaignStates BY <1>1, SetOpening
  <2>3. e = [Stored EXCEPT !.state = c] BY <1>1
  <2> HIDE DEF c, e
  <2>4. e \in Decisions /\ e.state = c /\ e.outbox = outbox /\ e.timers = timers
    BY <1>1, <2>2, <2>3 DEF Decisions
  <2>5. Fit(e) BY <2>1, <2>4 DEF Fit, Fits, TableAwake
  <2>6. Awake(e) BY <2>1, <2>4, <2>5 DEF Awake, Woken, TableAwake
  <2>7. c.status = "active" => Present(c) # {} BY <2>1, StoredAwake DEF Present, Members
  <2>8. Awake(OpenRound(e, FALSE, tooSoon)) BY <2>4, <2>5, <2>6, <2>7, OpenRoundAwake
  <2>9. Commit(OpenRound(e, FALSE, tooSoon)) BY <1>10 DEF BeginPlay, e
  <2> QED BY <2>8, <2>9, CommitAwake
<1> QED BY <1>5, <1>6, <1>7, <1>8, <1>9, <1>10

-----------------------------------------------------------------------------
(* The background work.                                                    *)

\* A job of the DM that is done is no roll, and nobody's opening.
LEMMA JobDoneFit ==
  ASSUME NEW d \in Decisions, NEW kind \in {"plan", "narrate"}, NEW n, Fit(d)
  PROVE  LET e == [d EXCEPT !.outbox = @ \ {JobFor(kind, n)}] IN
         /\ e \in Decisions /\ Fit(e)
         /\ e.state = d.state /\ e.timers = d.timers /\ e.outbox = d.outbox \ {JobFor(kind, n)}
<1> DEFINE e == [d EXCEPT !.outbox = @ \ {JobFor(kind, n)}]
<1>1. /\ e \in Decisions /\ e.state = d.state /\ e.timers = d.timers
      /\ e.outbox = d.outbox \ {JobFor(kind, n)}
  BY DEF Decisions
<1>2. JobFor(kind, n) # JobFor("narrateOpening", 0) BY DEF JobFor
<1>3. \A m, h, lucky : RollJob(m, h, lucky) \in e.outbox <=> RollJob(m, h, lucky) \in d.outbox
  BY <1>1, NoRoll
<1> HIDE DEF e
<1>4. \A job \in e.outbox : job.round <= e.state.lastRound BY <1>1 DEF Fit, Fits
<1>5. JobFor("narrateOpening", 0) \in d.outbox => JobFor("narrateOpening", 0) \in e.outbox
  BY <1>1, <1>2
<1>6. Fit(e) BY <1>1, <1>3, <1>4, <1>5 DEF Fit, Fits
<1> QED BY <1>1, <1>6 DEF e

\* What a job of some kind is.
LEMMA JobOfKind ==
  ASSUME Inv, NEW job \in outbox
  PROVE  /\ job.kind # "roll" => job = JobFor(job.kind, job.round)
         /\ job.kind = "roll" =>
              job.hero \in Heroes /\ job.lucky \in BOOLEAN
                /\ job = RollJob(job.round, job.hero, job.lucky)
<1>1. job \in Jobs BY DEF Inv, TypeOK
<1>2. CASE job \in [kind : {"plan", "narrate", "narrateOpening"}, round : Nat,
                    hero : {NoHero}, lucky : {FALSE}]
  BY <1>2 DEF JobFor
<1>3. CASE job \in [kind : {"roll"}, round : Nat, hero : Heroes, lucky : BOOLEAN]
  BY <1>3 DEF RollJob
<1> QED BY <1>1, <1>2, <1>3 DEF Jobs

\* A timer that fires for an open window ends it; for any other nothing is lost.
LEMMA TimersAwake ==
  ASSUME Inv, TableAwake, NEW t \in due, RoundTimerFires(t) \/ RollTimerFires(t)
  PROVE  TableAwake'
<1> DEFINE e == [Stored EXCEPT !.timers = @ \ {t}]
<1>1. /\ campaign \in CampaignStates /\ Stored.state = campaign /\ Stored.timers = timers
      /\ Stored.outbox = outbox /\ Stored \in Decisions
  BY StoredAwake
<1>2. e \in Decisions /\ e.state = campaign /\ e.timers = timers \ {t} /\ e.outbox = outbox
  <2>1. timers \ {t} \subseteq Timers BY DEF Inv, TypeOK
  <2> QED BY <1>1, <2>1 DEF Decisions
<1>3. t \in timers => Active
  BY FieldTypes DEF Inv, TypeOK, TableInOrder, InOrder, Consistent, Active
<1>4. t \in timers => t \in HeldTimers(campaign)
  BY DEF Inv, TableInOrder, InOrder, Consistent
<1> HIDE DEF e
<1>5. Fit(e) BY <1>2 DEF Fit, TableAwake
<1>6. t \notin timers => Awake(e)
  <2>1. t \notin timers => e.timers = timers BY <1>2
  <2> QED BY <1>2, <1>5, <2>1 DEF Awake, TableAwake
<1>7. ASSUME RoundTimerFires(t) PROVE TableAwake'
  <2> DEFINE closes == Active /\ campaign.phase = "collecting" /\ campaign.lastRound = t.round
             next == IF closes THEN CloseRound(e, TRUE) ELSE e
  <2>1. t.kind = "round" /\ t = RoundTimer(t.round)
    BY <1>7, LoadedTimer DEF RoundTimerFires
  <2>2. t \in timers => closes
    <3>1. \A n, h : t # RollTimer(n, h) BY <2>1 DEF RollTimer
    <3> QED BY <1>3, <1>4, <3>1 DEF HeldTimers, RoundTimer
  <2>3. Commit(next) BY <1>7 DEF RoundTimerFires, e
  <2>4. closes => Awake(CloseRound(e, TRUE)) BY <1>2, <1>5, StoredAwake, CloseRoundAwake
  <2>5. Awake(next) BY <1>6, <2>2, <2>4
  <2> HIDE DEF next
  <2> QED BY <2>3, <2>5, CommitAwake
<1>8. ASSUME RollTimerFires(t) PROVE TableAwake'
  <2> DEFINE rolls == Active /\ campaign.lastRound = t.round /\ campaign.checks[t.hero] = "pending"
             next == IF rolls THEN StartRolls(e, {t.hero}, TRUE) ELSE e
  <2>1. t.kind = "roll" /\ t.hero \in Heroes /\ t = RollTimer(t.round, t.hero)
    BY <1>8, LoadedTimer DEF RollTimerFires
  <2>2. t \in timers => rolls
    <3>1. \A n : t # RoundTimer(n) BY <2>1 DEF RoundTimer
    <3>2. ASSUME t \in timers
          PROVE  \E h \in Heroes : campaign.checks[h] = "pending"
                                    /\ t = RollTimer(campaign.lastRound, h)
      BY <1>4, <3>1, <3>2 DEF HeldTimers
    <3> QED BY <1>3, <3>2 DEF RollTimer
  <2>3. Commit(next) BY <1>8 DEF RollTimerFires, e
  <2>4. ASSUME rolls PROVE Awake(StartRolls(e, {t.hero}, TRUE))
    <3>1. timers \cup lost
            \subseteq e.timers \cup lost \cup {RollTimer(campaign.lastRound, h) : h \in {t.hero}}
      BY <1>2, <2>1, <2>4
    <3>2. Woken(campaign, e.timers \cup lost \cup {RollTimer(campaign.lastRound, h) : h \in {t.hero}},
                outbox)
      BY <3>1, MoreTimersWoken DEF TableAwake
    <3> QED BY <1>2, <1>5, <2>1, <2>4, <3>2, StartRollsAwake
  <2>5. Awake(next) BY <1>6, <2>2, <2>4
  <2> HIDE DEF next
  <2> QED BY <2>3, <2>5, CommitAwake
<1> QED BY <1>7, <1>8

\* Loading the due rows and marking one leave the waits as they are: what is
\* marked by mistake is remembered as lost.
LEMMA TimerListAwake ==
  ASSUME TableAwake, LoadTimers \/ MarkTimerFired
  PROVE  TableAwake'
<1>1. CASE LoadTimers BY <1>1 DEF LoadTimers, TableAwake
<1>2. CASE MarkTimerFired
  <2>1. timers \cup lost \subseteq timers' \cup lost' BY <1>2 DEF MarkTimerFired
  <2>2. Woken(campaign, timers' \cup lost', outbox) BY <2>1, MoreTimersWoken DEF TableAwake
  <2> QED BY <1>2, <2>2 DEF MarkTimerFired, TableAwake
<1> QED BY <1>1, <1>2

\* A roll's job does what its check waits for.
LEMMA RunRollAwake ==
  ASSUME Inv, TableAwake, NEW job \in outbox, NEW rerolled \in BOOLEAN, NEW fired \in BOOLEAN,
         RunRoll(job, rerolled, fired)
  PROVE  TableAwake'
<1>1. /\ job.hero \in Heroes /\ job.lucky \in BOOLEAN
      /\ job = RollJob(campaign.lastRound, job.hero, job.lucky)
      /\ job.lucky => ~rerolled
  BY JobOfKind DEF RunRoll
<1>2. Awake(RecordCheckRoll([Stored EXCEPT !.outbox = @ \ {job}], job.hero, rerolled, fired))
  BY <1>1, StoredAwake, RecordCheckRollAwake
<1> QED BY <1>2, CommitAwake DEF RunRoll

\* The Planner's answer, or its failure, ends its job and wakes the round.
LEMMA AnswersAwake ==
  ASSUME Inv, TableAwake, NEW fired \in BOOLEAN, ApplyDraft(fired) \/ ReportPlannerFailure
  PROVE  TableAwake'
<1> DEFINE n == campaign.lastRound
           done == [Stored EXCEPT !.outbox = @ \ {JobFor("plan", draft.round)}]
           c == [campaign EXCEPT !.plannerFailed = TRUE]
           told == [done EXCEPT !.state.plannerFailed = TRUE]
<1>1. /\ done \in Decisions /\ Fit(done) /\ done.state = campaign /\ done.timers = timers
      /\ done.outbox = outbox \ {JobFor("plan", draft.round)}
  BY StoredAwake, JobDoneFit
\* Only the job of this very round is missed, and only while it is planned.
<1>2. ~(Active /\ campaign.phase = "planning" /\ n = draft.round) => Awake(done)
  <2>1. n # draft.round => JobFor("plan", n) # JobFor("plan", draft.round) BY DEF JobFor
  <2>2. JobFor("narrate", n) # JobFor("plan", draft.round) BY DEF JobFor
  <2> HIDE DEF done
  <2>3. campaign.status = "active" /\ campaign.phase = "planning" /\ n # draft.round =>
          JobFor("plan", n) \in done.outbox \/ campaign.plannerFailed
    BY <1>1, <2>1 DEF TableAwake, Woken
  <2>4. campaign.status = "active" /\ campaign.phase = "none" /\ n > 0
          /\ campaign.resting = "none" =>
            JobFor("narrate", n) \in done.outbox /\ campaign.lastNarrated < n
    BY <1>1, <2>2 DEF TableAwake, Woken
  <2> QED BY <1>1, <2>3, <2>4 DEF Awake, Woken, TableAwake, Active
<1>3. ASSUME ApplyDraft(fired) PROVE TableAwake'
  <2> DEFINE fresh == Active /\ campaign.phase = "planning" /\ n = draft.round
             next == IF ~fresh THEN done
                     ELSE IF draft.acting # Acting(campaign) THEN Stored
                     ELSE ApplyRoundPlan(done, draft.called, draft.move, fired)
  <2>1. draft.called \in SUBSET Heroes /\ draft.move \in PlannedMoves
    BY DEF Inv, TypeOK, Drafts
  <2>2. Commit(next) BY <1>3 DEF ApplyDraft
  <2> HIDE DEF done
  <2>3. fresh => Awake(ApplyRoundPlan(done, draft.called, draft.move, fired))
    BY <1>1, <2>1, ApplyRoundPlanAwake
  <2>4. Awake(next) BY <1>2, <2>3, StoredAwake
  <2> HIDE DEF next
  <2> QED BY <2>2, <2>4, CommitAwake
<1>4. ASSUME ReportPlannerFailure PROVE TableAwake'
  <2> DEFINE held == campaign.phase = "planning" /\ n = draft.round
             next == IF held THEN told ELSE done
  <2>1. Commit(next) BY <1>4 DEF ReportPlannerFailure
  <2>2. /\ c \in CampaignStates /\ c.phase = campaign.phase /\ c.checks = campaign.checks
        /\ c.lastRound = n /\ c.opening = campaign.opening
        /\ c.lastNarrated = campaign.lastNarrated /\ c.plannerFailed = TRUE
    BY StoredAwake, SetPlannerFailed DEF CampaignStates
  <2>3. told = [done EXCEPT !.state = c] BY <1>1
  <2> HIDE DEF done, c, told
  <2>4. told.state = c /\ told.outbox = done.outbox BY <1>1, <2>2, <2>3 DEF Decisions
  <2>5. Fit(told) BY <1>1, <2>2, <2>4 DEF Fit, Fits
  <2>6. held => Awake(told) BY <2>2, <2>4, <2>5 DEF Awake, Woken
  <2>7. Awake(next) BY <1>2, <2>6
  <2> HIDE DEF next
  <2> QED BY <2>1, <2>7, CommitAwake
<1> QED BY <1>3, <1>4

\* A narration that is wanted opens the next round; the others change nothing.
LEMMA RunNarrateAwake ==
  ASSUME Inv, TableAwake, NEW job \in outbox, NEW tooSoon \in BOOLEAN, RunNarrate(job, tooSoon)
  PROVE  TableAwake'
<1> DEFINE n == campaign.lastRound
           done == [Stored EXCEPT !.outbox = @ \ {job}]
           c == [campaign EXCEPT !.lastNarrated = job.round]
           kept == [done EXCEPT !.state.lastNarrated = job.round]
           next == IF ~NarrationWanted(job.round) THEN done
                   ELSE IF Active THEN OpenRound(kept, TRUE, tooSoon) ELSE kept
<1>1. job = JobFor("narrate", job.round) BY JobOfKind DEF RunNarrate
<1>2. /\ done \in Decisions /\ Fit(done) /\ done.state = campaign /\ done.timers = timers
      /\ done.outbox = outbox \ {job}
  BY <1>1, StoredAwake, JobDoneFit
<1>3. Commit(next) BY DEF RunNarrate
<1>4. ASSUME ~NarrationWanted(job.round) PROVE Awake(done)
  <2> HIDE DEF done
  <2>1. JobFor("plan", n) # job BY <1>1 DEF JobFor
  <2>2. JobFor("narrate", n) = job => n = job.round BY <1>1 DEF JobFor
  <2>3. campaign.status = "active" /\ campaign.phase = "planning" =>
          JobFor("plan", n) \in done.outbox \/ campaign.plannerFailed
    BY <1>2, <2>1 DEF TableAwake, Woken
  <2>4. campaign.status = "active" /\ campaign.phase = "none" /\ n > 0
          /\ campaign.resting = "none" =>
            JobFor("narrate", n) \in done.outbox /\ campaign.lastNarrated < n
    BY <1>2, <1>4, <2>2 DEF TableAwake, Woken, NarrationWanted
  <2> QED BY <1>2, <2>3, <2>4 DEF Awake, Woken, TableAwake
<1>5. ASSUME NarrationWanted(job.round)
      PROVE  Awake(IF Active THEN OpenRound(kept, TRUE, tooSoon) ELSE kept)
  <2>1. job.round = n /\ campaign.phase = "none" BY <1>5 DEF NarrationWanted
  <2>2. campaign \in CampaignStates /\ n \in Nat BY StoredAwake
  <2>3. /\ c.status = campaign.status /\ c.phase = "none" /\ c.checks = campaign.checks
        /\ c.lastRound = n /\ c.opening = campaign.opening /\ c.lastNarrated = n
    BY <2>1, <2>2 DEF CampaignStates
  <2>4. c \in CampaignStates BY <2>1, <2>2, SetLastNarrated
  <2>5. kept = [done EXCEPT !.state = c] BY <1>2
  <2> HIDE DEF done, c, kept
  <2>6. kept \in Decisions /\ kept.state = c /\ kept.outbox = done.outbox
    BY <1>2, <2>4, <2>5 DEF Decisions
  <2>7. Fit(kept)
    <3>1. Fits(campaign, done.outbox) BY <1>2 DEF Fit
    <3>2. c.lastNarrated <= c.lastRound BY <2>2, <2>3
    <3>3. Fits(c, done.outbox) BY <2>1, <2>3, <3>1, <3>2 DEF Fits
    <3> QED BY <2>6, <3>3 DEF Fit
  <2>8. Awake(OpenRound(kept, TRUE, tooSoon)) BY <2>3, <2>6, <2>7, OpenRoundAwake
  <2>9. ~Active => Awake(kept) BY <2>3, <2>6, <2>7 DEF Awake, Woken, Active
  <2> QED BY <2>8, <2>9
<1> HIDE DEF done, kept
<1>6. Awake(next) BY <1>4, <1>5
<1> HIDE DEF next
<1> QED BY <1>3, <1>6, CommitAwake

\* The opening is asked for once and told once, before the first round.
LEMMA OpeningAwake ==
  ASSUME Inv, TableAwake, NEW tooSoon \in BOOLEAN,
         BeginAdventure \/ CrashAndRecover \/ \E job \in outbox : RunOpening(job, tooSoon)
  PROVE  TableAwake'
<1>1. MayBegin => Begun \in Decisions /\ Awake(Begun)
  <2> SUFFICES ASSUME MayBegin PROVE Begun \in Decisions /\ Awake(Begun) OBVIOUS
  <2> DEFINE c == [campaign EXCEPT !.opening = "pending"]
             e == [Stored EXCEPT !.state.opening = "pending"]
  <2>1. /\ c.phase = "none" /\ c.checks = campaign.checks
        /\ c.lastRound = 0 /\ c.opening = "pending" /\ c.lastNarrated = campaign.lastNarrated
    BY StoredAwake DEF MayBegin, CampaignStates
  <2>2. c \in CampaignStates BY StoredAwake, SetOpening
  <2>3. e = [Stored EXCEPT !.state = c] BY StoredAwake
  <2>4. Begun = Request(e, JobFor("narrateOpening", 0)) BY DEF Begun
  <2> HIDE DEF c, e
  <2>5. e \in Decisions /\ e.state = c /\ e.timers = timers /\ e.outbox = outbox
    BY <2>2, <2>3, StoredAwake DEF Decisions
  <2>6. /\ Begun.state = c /\ Begun.outbox = outbox \cup {JobFor("narrateOpening", 0)}
        /\ Begun \in Decisions
    <3>1. JobFor("narrateOpening", 0) \in Jobs BY JobTypes
    <3>2. Begun \in Decisions BY <2>4, <2>5, <3>1, RequestType
    <3> QED BY <2>4, <2>5, <3>2 DEF Request, Decisions
  <2>7. \A m, h, lucky : RollJob(m, h, lucky) \in Begun.outbox <=> RollJob(m, h, lucky) \in outbox
    BY <2>6, NoRoll
  <2>8. \A job \in Begun.outbox : job.round <= 0
    <3>1. \A job \in outbox : job.round <= 0 BY DEF MayBegin, TableAwake, Fits
    <3>2. JobFor("narrateOpening", 0).round <= 0 BY DEF JobFor
    <3> QED BY <2>6, <3>1, <3>2
  <2>9. /\ campaign.lastRound = 0 /\ campaign.phase = "none" BY DEF MayBegin
  <2>10. Fit(Begun) BY <2>1, <2>6, <2>7, <2>8, <2>9 DEF Fit, Fits, TableAwake
  <2>11. Awake(Begun) BY <2>1, <2>6, <2>10 DEF Awake, Woken
  <2> QED BY <2>6, <2>11
<1>2. BeginAdventure => TableAwake' BY <1>1, CommitAwake DEF BeginAdventure
<1>3. ASSUME CrashAndRecover PROVE TableAwake'
  <2> DEFINE begun == IF MayBegin THEN Begun ELSE Stored
             next == IF (RoundTimed \/ RollTimed) /\ campaign.pausedBy = "nobody"
                     THEN PauseCampaign(begun, "recovery") ELSE begun
  <2>1. begun \in Decisions /\ Awake(begun) BY <1>1, StoredAwake
  <2>2. Commit(next) BY <1>3 DEF CrashAndRecover
  <2> HIDE DEF begun
  <2>3. Awake(PauseCampaign(begun, "recovery")) BY <2>1, WaitingAwake DEF Pausers, Awake
  <2>4. Awake(next) BY <2>1, <2>3
  <2> HIDE DEF next
  <2> QED BY <2>2, <2>4, CommitAwake
<1>4. ASSUME NEW job \in outbox, RunOpening(job, tooSoon) PROVE TableAwake'
  <2> DEFINE c == [campaign EXCEPT !.opening = "waiting", !.ready = {}]
             told == [Stored EXCEPT !.outbox = @ \ {job}, !.state.opening = "waiting",
                                    !.state.ready = {}]
             rest == outbox \ {job}
  <2>1. job = JobFor("narrateOpening", job.round) BY <1>4, JobOfKind DEF RunOpening
  <2>2. /\ c.status = campaign.status /\ c.phase = campaign.phase /\ c.checks = campaign.checks
        /\ c.lastRound = campaign.lastRound /\ c.opening = "waiting"
        /\ c.lastNarrated = campaign.lastNarrated
        /\ c.hero = campaign.hero /\ c.away = campaign.away
    BY StoredAwake DEF CampaignStates
  <2>3. c \in CampaignStates BY StoredAwake, SetOpening, SetReady, Zenon
  <2>4. rest \subseteq Jobs BY DEF Inv, TypeOK
  <2>5. told = [Stored EXCEPT !.outbox = rest, !.state = c] BY StoredAwake DEF Decisions
  <2>6. Commit(FinishReadyCheck(told, TRUE, tooSoon)) BY <1>4 DEF RunOpening
  <2>7. campaign.lastRound = 0 /\ campaign.phase = "none"
    <3>1. campaign.opening = "pending" BY <1>4 DEF RunOpening
    <3>2. campaign.lastRound = 0 BY <3>1 DEF TableAwake, Fits
    <3> QED BY <3>2, StoredAwake
  <2>8. \A m, h, lucky : RollJob(m, h, lucky) \in rest <=> RollJob(m, h, lucky) \in outbox
    BY <2>1 DEF JobFor, RollJob
  <2>9. \A x \in rest : x.round <= campaign.lastRound BY DEF TableAwake, Fits
  <2> HIDE DEF c, told, rest
  <2>10. told \in Decisions /\ told.state = c /\ told.outbox = rest
    BY <2>3, <2>4, <2>5, StoredAwake DEF Decisions
  <2>11. Fit(told) BY <2>2, <2>7, <2>8, <2>9, <2>10 DEF Fit, Fits, TableAwake
  <2>12. Awake(told) BY <2>2, <2>7, <2>10, <2>11 DEF Awake, Woken
  <2>13. c.status = "active" => Present(c) # {} BY <2>2, StoredAwake DEF Present, Members
  <2>14. Awake(FinishReadyCheck(told, TRUE, tooSoon))
    BY <2>10, <2>12, <2>13, FinishReadyCheckAwake
  <2> QED BY <2>6, <2>14, CommitAwake
<1> QED BY <1>2, <1>3, <1>4

-----------------------------------------------------------------------------
(* The theorem about waits.                                                *)

\* A campaign that starts waits for nothing.
LEMMA InitAwake == Init => TableAwake
<1> SUFFICES ASSUME Init PROVE TableAwake OBVIOUS
<1>1. /\ campaign.phase = "none" /\ campaign.checks = NoChecks /\ campaign.lastRound = 0
      /\ campaign.opening = "undefined" /\ campaign.lastNarrated = 0 /\ outbox = {}
  BY DEF Init, StartingState
<1>2. \A h \in Heroes : campaign.checks[h] = "none" BY <1>1 DEF NoChecks
<1> QED BY <1>1, <1>2 DEF TableAwake, Fits, Woken

\* Every step leaves what the table waits for under way.
LEMMA StepAwake == Inv /\ TableAwake /\ [Next]_vars => TableAwake'
<1> SUFFICES ASSUME Inv, TableAwake, [Next]_vars PROVE TableAwake' OBVIOUS
<1>1. CASE UserStep
  <2>1. PICK v \in Users, g \in Heroes : Seats[v] = g
    <3>1. PICK v \in Users : Seats[v] # NoHero BY SeatsAssumption
    <3> QED BY <3>1, SeatsAssumption
  <2>2. \A u \in Users, h \in Heroes :
          SubmitAction(u, h) \/ Pass(u, h) \/ RequestRoll(u, h) \/ JoinHero(u, h) => TableAwake'
    BY RoundCommandsAwake
  <2>3. CloseRoundByOrganizer \/ RetryPlan => TableAwake' BY <2>1, RoundCommandsAwake
  <2>4. \A u \in Users : MarkMemberReturned(u) \/ Retire(u) => TableAwake'
    BY MemberCommandsAwake
  <2>5. \A u \in Users, tooSoon \in BOOLEAN :
          MarkMemberAway(u, tooSoon) \/ MarkReady(u, tooSoon) => TableAwake'
    BY MemberCommandsAwake, RestsAwake
  <2>6. \A tooSoon \in BOOLEAN : EndRest(tooSoon) \/ BeginPlay(tooSoon) => TableAwake'
    BY <2>1, RestsAwake
  <2>7. \A u \in Users, tooSoon, fired \in BOOLEAN : Continue(u, tooSoon, fired) => TableAwake'
    BY MemberCommandsAwake
  <2>8. \A reason \in {"organizer", "safety"} : Pause(reason) => TableAwake'
    BY <2>1, MemberCommandsAwake
  <2>9. \A rest \in {"short", "long"} : QueueRest(rest) \/ TakeRest(rest) => TableAwake'
    BY <2>1, RestsAwake
  <2>10. CancelQueuedRest => TableAwake' BY <2>1, RestsAwake
  <2> QED BY <1>1, <2>2, <2>3, <2>4, <2>5, <2>6, <2>7, <2>8, <2>9, <2>10, VotesAwake DEF UserStep
<1>2. CASE TimerStep BY <1>2, TimersAwake, TimerListAwake DEF TimerStep
<1>3. CASE RollStep BY <1>3, RunRollAwake DEF RollStep
<1>4. CASE DraftStep BY <1>4 DEF DraftStep, DraftPlan, TableAwake
<1>5. CASE AnswerStep BY <1>5, AnswersAwake DEF AnswerStep
<1>6. CASE NarrateStep BY <1>6, RunNarrateAwake, OpeningAwake DEF NarrateStep
<1>7. CASE BeginAdventure \/ CrashAndRecover BY <1>7, OpeningAwake
<1>8. CASE UNCHANGED vars BY <1>8 DEF vars, TableAwake
<1> QED BY <1>1, <1>2, <1>3, <1>4, <1>5, <1>6, <1>7, <1>8 DEF Next

\* Whatever a table waits for, dice included, something is under way that will
\* end the wait: a timer, a job, or the planner's failure the organizer was told of.
\* Pauses, clicks, crashes and late answers never lose it; the TimerWorker marking
\* a row fired that was armed afresh while it worked is the only way to.
THEOREM WaitsHaveWakers == Spec => []EveryWaitHasItsWaker
<1>1. Inv /\ TableAwake => EveryWaitHasItsWaker
  <2> SUFFICES ASSUME Inv, TableAwake PROVE EveryWaitHasItsWaker OBVIOUS
  <2>1. campaign.lastRound \in Nat BY StoredAwake
  <2>2. RollJobsMatchChecks
    <3> SUFFICES ASSUME NEW h \in Heroes, NEW lucky \in BOOLEAN
                 PROVE  campaign.checks[h] = (IF lucky THEN "lucky" ELSE "rolling") <=>
                          \E n \in 0..campaign.lastRound :
                            RollJob(n, h, lucky) \in outbox /\ n = campaign.lastRound
      BY DEF RollJobsMatchChecks
    <3>1. campaign.checks[h] = (IF lucky THEN "lucky" ELSE "rolling") <=>
            RollJob(campaign.lastRound, h, lucky) \in outbox
      <4>1. CASE lucky = TRUE BY <4>1 DEF TableAwake, Fits
      <4>2. CASE lucky = FALSE BY <4>2 DEF TableAwake, Fits
      <4> QED BY <4>1, <4>2
    <3>2. campaign.lastRound \in 0..campaign.lastRound BY <2>1
    <3> QED BY <3>1, <3>2
  <2>3. WindowsHaveTheirWaker
    BY DEF WindowsHaveTheirWaker, TableAwake, Fits, Woken, Active
  <2> QED BY <2>2, <2>3 DEF EveryWaitHasItsWaker
<1>2. Init => Inv /\ TableAwake BY InitInv, InitAwake
<1>3. Inv /\ TableAwake /\ [Next]_vars => Inv' /\ TableAwake' BY StepInv, StepAwake
<1> QED BY <1>1, <1>2, <1>3, PTL DEF Spec

-----------------------------------------------------------------------------
(* What the operators never do to a vote.                                  *)

\* Between two steps nobody has missed enough windows to be marked away, so a
\* round that closes over a vote takes no voter from the table, and nobody is
\* counted both for staying and for going.
VotesFit(c) ==
  /\ \A u \in Users : c.misses[u] < AwayAfterMisses
  /\ c.pendingMove.objectors \cap c.pendingMove.supporters = {}

\* Of those at the table less than half are in this set, or none.
Outvoted(stayers, c) ==
  LET against == stayers \cap Present(c)
  IN against = {} \/ Cardinality(against) * 2 < Cardinality(Present(c))

\* A part of a handler that leaves the vote and the scene, and counts no miss.
SameVote(c, e) ==
  /\ e.scene = c.scene /\ e.pendingMove = c.pendingMove
  /\ \A u \in Users : e.misses[u] \in {0, c.misses[u]}

\* ... and leaves the voters too.
SameVoters(c, e) == SameVote(c, e) /\ e.hero = c.hero /\ e.away = c.away

\* What every handler may do to a vote but the organizer's word and a player's
\* own change of mind: a move that is settled to go was outvoting those who stay.
Fair(c, e) ==
  VotesFit(c) =>
    /\ VotesFit(e)
    /\ \/ e.scene = c.scene
       \/ e.pendingMove = c.pendingMove
       \/ Outvoted(c.pendingMove.objectors, e)

\* What the close of a round may do to it: nobody but the table moves the table.
Settled(c, e) ==
  VotesFit(c) =>
    /\ VotesFit(e)
    /\ e.scene = c.scene \/ Outvoted(c.pendingMove.objectors, e)

\* Such parts make such handlers.
LEMMA FairParts ==
  ASSUME NEW c, NEW e, NEW f
  PROVE  /\ SameVoters(c, c)
         /\ SameVoters(c, e) => SameVote(c, e) /\ Present(e) = Present(c)
         /\ SameVote(c, e) => Settled(c, e)
         /\ Settled(c, e) => Fair(c, e)
         /\ SameVote(c, e) /\ SameVote(e, f) => SameVote(c, f)
         /\ SameVoters(c, e) /\ SameVoters(e, f) => SameVoters(c, f)
         /\ SameVote(c, e) /\ Fair(e, f) => Fair(c, f)
         /\ Settled(c, e) /\ SameVoters(e, f) => Settled(c, f)
         /\ Fair(c, e) /\ SameVoters(e, f) => Fair(c, f)
<1>1. SameVoters(c, c) BY DEF SameVoters, SameVote
<1>2. 0 < AwayAfterMisses BY PacingAssumption
<1>3. ASSUME NEW g, NEW h, SameVote(g, h), VotesFit(g) PROVE VotesFit(h)
  BY <1>2, <1>3 DEF SameVote, VotesFit
<1>4. /\ SameVote(c, e) => Settled(c, e)
      /\ Settled(c, e) => Fair(c, e)
  BY <1>3 DEF Settled, Fair, SameVote
<1>5. ASSUME NEW g, NEW h, SameVoters(g, h)
      PROVE  Present(h) = Present(g) /\ \A S : Outvoted(S, g) => Outvoted(S, h)
  <2>1. Present(h) = Present(g) BY <1>5 DEF SameVoters, Present, Members
  <2> QED BY <2>1 DEF Outvoted
<1>6. SameVoters(c, e) => SameVote(c, e) /\ Present(e) = Present(c)
  BY <1>5 DEF SameVoters
<1>7. SameVote(c, e) /\ SameVote(e, f) => SameVote(c, f) BY DEF SameVote
<1>8. SameVoters(c, e) /\ SameVoters(e, f) => SameVoters(c, f) BY <1>7 DEF SameVoters
<1>9. SameVote(c, e) /\ Fair(e, f) => Fair(c, f) BY <1>3 DEF Fair, SameVote
<1>10. ASSUME SameVoters(e, f)
       PROVE  /\ Settled(c, e) => Settled(c, f)
              /\ Fair(c, e) => Fair(c, f)
  <2>1. VotesFit(e) => VotesFit(f) BY <1>3, <1>10 DEF SameVoters
  <2>2. Outvoted(c.pendingMove.objectors, e) => Outvoted(c.pendingMove.objectors, f)
    BY <1>5, <1>10
  <2>3. f.scene = e.scene /\ f.pendingMove = e.pendingMove
    BY <1>10 DEF SameVoters, SameVote
  <2> QED BY <2>1, <2>2, <2>3 DEF Settled, Fair
<1> QED BY <1>1, <1>4, <1>6, <1>7, <1>8, <1>9, <1>10

\* Where the table does not decide to stay, those who stay are outvoted.
LEMMA NotStaying ==
  ASSUME NEW c \in CampaignStates, NEW stayers, ~Stays(Present(c), stayers)
  PROVE  Outvoted(stayers, c)
<1> DEFINE against == stayers \cap Present(c)
<1>1. IsFiniteSet(Present(c))
  <2>1. Present(c) \in SUBSET Users BY PresentTypes
  <2> QED BY <2>1, UsersAssumption, FS_Subset
<1>2. IsFiniteSet(against) BY <1>1, FS_Intersection
<1>3. Cardinality(Present(c)) \in Nat /\ Cardinality(against) \in Nat
  BY <1>1, <1>2, FS_CardinalityType
<1>4. Cardinality(against) = 0 => against = {} BY <1>2, FS_EmptySet
<1>5. ~(Cardinality(against) > 0 /\ Cardinality(against) * 2 >= Cardinality(Present(c)))
  BY DEF Stays
<1> HIDE DEF against
<1>6. against = {} \/ Cardinality(against) * 2 < Cardinality(Present(c))
  BY <1>3, <1>4, <1>5
<1> QED BY <1>6 DEF Outvoted, against

\* The parts of the engine's operators that leave vote and voters alone.
LEMMA SameVotersParts ==
  ASSUME NEW c \in CampaignStates
  PROVE  /\ \A tooSoon \in BOOLEAN : SameVoters(c, TakeQueuedRest(c, tooSoon))
         /\ \A rest : SameVoters(c, RestTaken(c, rest))
         /\ SameVoters(c, RoundOpened(c))
         /\ SameVoters(c, RoundResolved(c))
<1>1. SameVoters(c, [c EXCEPT !.pendingRest = "none"])
  BY DEF CampaignStates, SameVoters, SameVote
<1>2. \A rest : SameVoters(c, RestTaken(c, rest))
  BY DEF CampaignStates, SameVoters, SameVote, RestTaken
<1>3. SameVoters(c, c) BY FairParts
<1>4. \A tooSoon \in BOOLEAN : SameVoters(c, TakeQueuedRest(c, tooSoon))
  BY <1>1, <1>2, <1>3, Zenon DEF TakeQueuedRest
<1>5. SameVoters(c, RoundOpened(c))
  BY DEF CampaignStates, SameVoters, SameVote, RoundOpened
<1>6. SameVoters(c, RoundResolved(c))
  BY DEF CampaignStates, SameVoters, SameVote, RoundResolved
<1> QED BY <1>2, <1>4, <1>5, <1>6

\* The operators on decisions that leave vote and voters alone.
LEMMA SameVotersSteps ==
  ASSUME NEW d \in Decisions
  PROVE  /\ SameVoters(d.state, EnterWaiting(d).state)
         /\ \A reason : SameVoters(d.state, PauseCampaign(d, reason).state)
         /\ SameVoters(d.state, BeginRound(d).state)
         /\ \A job : Request(d, job).state = d.state
         /\ \A rollers, byTimer : SameVoters(d.state, StartRolls(d, rollers, byTimer).state)
<1>1. d.state \in CampaignStates BY DecisionTypes
<1>2. SameVoters(d.state, d.state) BY FairParts
<1>3. SameVoters(d.state, EnterWaiting(d).state)
  BY <1>1 DEF EnterWaiting, Decisions, CampaignStates, SameVoters, SameVote
<1>4. \A reason : SameVoters(d.state, PauseCampaign(d, reason).state)
  BY <1>1 DEF PauseCampaign, Decisions, CampaignStates, SameVoters, SameVote
<1>5. BeginRound(d).state = RoundOpened(d.state) BY DEF BeginRound, Decisions
<1>6. \A job : Request(d, job).state = d.state BY DEF Request, Decisions
<1>7. \A rollers, byTimer : SameVoters(d.state, StartRolls(d, rollers, byTimer).state)
  BY <1>1 DEF StartRolls, Decisions, CampaignStates, SameVoters, SameVote
<1> QED BY <1>1, <1>3, <1>4, <1>5, <1>6, <1>7, SameVotersParts

\* openRound leaves the vote on; it is settled when the round closes.
LEMMA OpenRoundVoters ==
  ASSUME NEW d \in Decisions, NEW bySystem \in BOOLEAN, NEW tooSoon \in BOOLEAN
  PROVE  SameVoters(d.state, OpenRound(d, bySystem, tooSoon).state)
<1> DEFINE rested == [d EXCEPT !.state = TakeQueuedRest(@, tooSoon)]
<1>1. d.state \in CampaignStates BY DecisionTypes
<1>2. rested \in Decisions /\ rested.state = TakeQueuedRest(d.state, tooSoon)
  <2>1. TakeQueuedRest(d.state, tooSoon) \in CampaignStates BY <1>1, TakeQueuedRestType
  <2> QED BY <1>1, <2>1 DEF Decisions
<1>3. OpenRound(d, bySystem, tooSoon) \in {d, rested, BeginRound(rested), EnterWaiting(rested)}
  BY DEF OpenRound
<1> HIDE DEF rested
<1>4. SameVoters(d.state, rested.state) BY <1>1, <1>2, SameVotersParts
<1>5. /\ SameVoters(rested.state, BeginRound(rested).state)
      /\ SameVoters(rested.state, EnterWaiting(rested).state)
  BY <1>2, SameVotersSteps
<1>6. SameVoters(d.state, d.state) BY FairParts
<1>7. /\ SameVoters(d.state, BeginRound(rested).state)
      /\ SameVoters(d.state, EnterWaiting(rested).state)
  BY <1>4, <1>5, FairParts
<1> QED BY <1>3, <1>4, <1>6, <1>7

\* So does the end of the ready check.
LEMMA FinishReadyCheckVoters ==
  ASSUME NEW d \in Decisions, NEW bySystem \in BOOLEAN, NEW tooSoon \in BOOLEAN
  PROVE  SameVoters(d.state, FinishReadyCheck(d, bySystem, tooSoon).state)
<1> DEFINE c == [d.state EXCEPT !.opening = "done"]
           opened == [d EXCEPT !.state = c]
<1>1. d.state \in CampaignStates BY DecisionTypes
<1>2. c \in CampaignStates BY <1>1, SetOpening
<1>3. SameVoters(d.state, c) BY <1>1 DEF CampaignStates, SameVoters, SameVote
<1>4. FinishReadyCheck(d, bySystem, tooSoon) \in {d, OpenRound(opened, bySystem, tooSoon)}
  BY DEF FinishReadyCheck
<1> HIDE DEF c
<1>5. opened \in Decisions /\ opened.state = c BY <1>2 DEF Decisions
<1> HIDE DEF opened
<1>6. SameVoters(c, OpenRound(opened, bySystem, tooSoon).state) BY <1>5, OpenRoundVoters
<1>7. /\ SameVoters(d.state, OpenRound(opened, bySystem, tooSoon).state)
      /\ SameVoters(d.state, d.state)
  BY <1>3, <1>6, FairParts
<1> QED BY <1>4, <1>7

\* A vote that is due is settled as the voters present want it.
LEMMA SettleDueMoveFair ==
  ASSUME NEW c \in CampaignStates
  PROVE  LET e == SettleDueMove(c) IN
         /\ e.hero = c.hero /\ e.away = c.away /\ e.misses = c.misses
         /\ \/ e.scene = c.scene /\ e.pendingMove \in {c.pendingMove, NoPendingMove}
            \/ /\ e.pendingMove = NoPendingMove
               /\ Outvoted(c.pendingMove.objectors, c)
<1> DEFINE stay == Settle(c, "stay")
           go == Settle(c, "go")
           e == SettleDueMove(c)
<1>1. stay.scene = c.scene /\ stay.pendingMove = NoPendingMove
  BY DEF Settle, CampaignStates
<1>2. go.pendingMove = NoPendingMove
  BY DEF Settle, SceneTransitioned, CampaignStates
<1>3. \A outcome : Settle(c, outcome).misses = c.misses
  BY DEF CampaignStates, Settle, SceneTransitioned
<1>4. e.misses = c.misses BY <1>3 DEF SettleDueMove
<1>5. e.hero = c.hero /\ e.away = c.away BY SettleDueMoveTable DEF SameTable
<1>6. \/ e = c \/ e = stay
      \/ e = go /\ ~Stays(Present(c), c.pendingMove.objectors)
  BY DEF SettleDueMove
<1> HIDE DEF e, stay, go
<1>7. \/ e.scene = c.scene /\ e.pendingMove \in {c.pendingMove, NoPendingMove}
      \/ /\ e.pendingMove = NoPendingMove
         /\ Outvoted(c.pendingMove.objectors, c)
  BY <1>1, <1>2, <1>6, NotStaying
<1> QED BY <1>4, <1>5, <1>7 DEF e

\* A hero has one player.
OneEach(c) == \A u, v \in Users : c.hero[u] = c.hero[v] /\ c.hero[u] # NoHero => u = v

\* A closing round settles the vote that is due, before anybody is taken away.
LEMMA RoundClosedSettles ==
  ASSUME NEW c \in CampaignStates, NEW byTimer \in BOOLEAN, c.phase = "collecting",
         byTimer => SlotsOpen(c), OneEach(c)
  PROVE  LET e == MarkIdleAway(SettleDueMove(RoundClosed(c, byTimer))) IN
         Settled(c, e) /\ e.hero = c.hero
<1> DEFINE c1 == RoundClosed(c, byTimer)
           c2 == SettleDueMove(c1)
           c3 == MarkIdleAway(c2)
<1>1. c1 \in CampaignStates /\ c2 \in CampaignStates
  BY RoundClosedType, SettleDueMoveType
<1>2. /\ c1.scene = c.scene /\ c1.pendingMove = c.pendingMove
      /\ c1.hero = c.hero /\ c1.away = c.away
      /\ c1.misses = [u \in Users |-> IF byTimer /\ c.hero[u] \in Missed(c) THEN c.misses[u] + 1
                                      ELSE c.misses[u]]
  BY DEF RoundClosed, CampaignStates
<1> HIDE DEF c1
<1>3. /\ c2.hero = c1.hero /\ c2.away = c1.away /\ c2.misses = c1.misses
      /\ \/ c2.scene = c1.scene /\ c2.pendingMove \in {c1.pendingMove, NoPendingMove}
         \/ c2.pendingMove = NoPendingMove /\ Outvoted(c1.pendingMove.objectors, c1)
  BY <1>1, SettleDueMoveFair
<1> HIDE DEF c2
<1> DEFINE idle == {u \in Present(c2) : c2.misses[u] >= AwayAfterMisses}
<1>4. /\ c3.scene = c2.scene /\ c3.pendingMove = c2.pendingMove /\ c3.hero = c2.hero
      /\ c3.away = c2.away \cup idle
      /\ c3.misses = [u \in Users |-> IF u \in idle THEN 0 ELSE c2.misses[u]]
  BY <1>1 DEF MarkIdleAway, CampaignStates
<1> HIDE DEF c3
<1>5. Present(c1) = Present(c) /\ Present(c2) = Present(c)
  BY <1>2, <1>3 DEF Present, Members
<1>6. ASSUME byTimer, NEW u \in Users, c.hero[u] \in Missed(c)
      PROVE  u \in Present(c)
  <2>1. c.hero[u] \in OpenSlots(c) BY <1>6 DEF Missed, OpenSlots
  <2>2. PICK v \in Present(c) : c.hero[v] = c.hero[u]
    BY <1>6, <2>1 DEF SlotsOpen, ParticipantsFor
  <2>3. v \in Users /\ c.hero[v] # NoHero BY DEF Present, Members
  <2> QED BY <2>2, <2>3 DEF OneEach
<1> SUFFICES ASSUME VotesFit(c)
             PROVE  /\ VotesFit(c3)
                    /\ \/ c3.scene = c.scene
                       \/ Outvoted(c.pendingMove.objectors, c3)
  BY <1>2, <1>3, <1>4 DEF Settled, c1, c2, c3
<1>7. ASSUME NEW u \in Users PROVE c3.misses[u] < AwayAfterMisses
  <2>1. c.misses[u] \in Nat /\ c.misses[u] < AwayAfterMisses /\ AwayAfterMisses \in Nat \ {0}
    BY FieldTypes, PacingAssumption DEF VotesFit
  <2>2. c3.misses[u] = IF u \in idle THEN 0 ELSE c1.misses[u] BY <1>3, <1>4
  <2>3. CASE u \in idle BY <2>1, <2>2, <2>3
  <2>4. CASE u \notin idle /\ byTimer /\ c.hero[u] \in Missed(c)
    <3>1. u \in Present(c2) BY <1>5, <1>6, <2>4
    <3>2. ~(c2.misses[u] >= AwayAfterMisses) BY <2>4, <3>1
    <3>3. c2.misses[u] = c.misses[u] + 1 BY <1>2, <1>3, <2>4
    <3> QED BY <1>3, <2>1, <2>2, <2>4, <3>2, <3>3
  <2>5. CASE u \notin idle /\ ~(byTimer /\ c.hero[u] \in Missed(c))
    BY <1>2, <2>1, <2>2, <2>5
  <2> QED BY <2>3, <2>4, <2>5
<1>8. c3.pendingMove.objectors \cap c3.pendingMove.supporters = {}
  BY <1>2, <1>3, <1>4 DEF VotesFit, NoPendingMove
<1>9. CASE c.pendingMove.to = NoScene
  <2>1. c2 = c1 BY <1>2, <1>9 DEF c2, SettleDueMove
  <2> QED BY <1>2, <1>4, <1>7, <1>8, <2>1 DEF VotesFit
<1>10. CASE c.pendingMove.to # NoScene
  <2>1. Missed(c) = {} BY <1>10 DEF Missed
  <2>2. \A u \in Users : c2.misses[u] = c.misses[u] BY <1>2, <1>3, <2>1
  <2>3. idle = {}
    <3>1. ASSUME NEW u \in Users PROVE ~(c2.misses[u] >= AwayAfterMisses)
      <4>1. c.misses[u] \in Nat /\ c.misses[u] < AwayAfterMisses /\ AwayAfterMisses \in Nat
        BY FieldTypes, PacingAssumption DEF VotesFit
      <4> QED BY <2>2, <4>1
    <3>2. Present(c2) \subseteq Users BY <1>1, PresentTypes
    <3> QED BY <3>1, <3>2
  <2> HIDE DEF idle
  <2>4. c3.away = c.away BY <1>2, <1>3, <1>4, <2>3
  <2>5. Present(c3) = Present(c) BY <1>2, <1>3, <1>4, <2>4 DEF Present, Members
  <2>6. Outvoted(c1.pendingMove.objectors, c1) => Outvoted(c.pendingMove.objectors, c3)
    BY <1>2, <1>5, <2>5 DEF Outvoted
  <2> QED BY <1>2, <1>3, <1>4, <1>7, <1>8, <2>6 DEF VotesFit
<1> QED BY <1>9, <1>10

\* So does the whole of closeRound.
LEMMA CloseRoundSettles ==
  ASSUME NEW d \in Decisions, NEW byTimer \in BOOLEAN, d.state.phase = "collecting",
         byTimer => SlotsOpen(d.state), OneEach(d.state)
  PROVE  LET e == CloseRound(d, byTimer).state IN
         Settled(d.state, e) /\ e.hero = d.state.hero
<1> DEFINE c == d.state
           n == c.lastRound
           c3 == MarkIdleAway(SettleDueMove(RoundClosed(c, byTimer)))
           T == IF byTimer THEN d.timers ELSE d.timers \ {RoundTimer(n)}
           closed == [d EXCEPT
             !.timers = IF byTimer THEN @ ELSE @ \ {RoundTimer(n)},
             !.state = MarkIdleAway(SettleDueMove(RoundClosed(@, byTimer)))]
           quiet == [closed EXCEPT !.state = RoundResolved(@)]
           Good(e) == Settled(c, e) /\ e.hero = c.hero
<1>1. c \in CampaignStates /\ d.timers \subseteq Timers BY DecisionTypes
<1>2. c3 \in CampaignStates /\ RoundResolved(c3) \in CampaignStates
  BY <1>1, RoundClosedCounts
<1>3. Good(c3) BY <1>1, RoundClosedSettles
<1>4. /\ closed \in Decisions /\ closed.state = c3
      /\ quiet \in Decisions /\ quiet.state = RoundResolved(c3)
  <2>1. closed = [d EXCEPT !.timers = T, !.state = c3] OBVIOUS
  <2>2. T \subseteq Timers BY <1>1
  <2> HIDE DEF closed, T, c3
  <2>3. closed \in Decisions /\ closed.state = c3
    BY <1>2, <2>1, <2>2 DEF Decisions
  <2> QED BY <1>2, <2>3 DEF Decisions
<1>5. CloseRound(d, byTimer) \in {EnterWaiting(closed), Request(closed, JobFor("plan", n)),
                                 EnterWaiting(quiet), BeginRound(quiet), quiet}
  BY DEF CloseRound, closed, quiet
<1> HIDE DEF c3, closed, quiet
<1>6. SameVoters(closed.state, quiet.state) BY <1>2, <1>4, SameVotersParts
<1>7. ASSUME NEW w \in {closed, quiet}
      PROVE  /\ SameVoters(c3, w.state) /\ SameVoters(c3, EnterWaiting(w).state)
             /\ SameVoters(c3, BeginRound(w).state)
  <2>1. w \in Decisions BY <1>4
  <2>2. SameVoters(c3, w.state) BY <1>4, <1>6, FairParts
  <2>3. /\ SameVoters(w.state, EnterWaiting(w).state)
        /\ SameVoters(w.state, BeginRound(w).state)
    BY <2>1, SameVotersSteps
  <2> QED BY <2>2, <2>3, FairParts
<1>8. Request(closed, JobFor("plan", n)).state = closed.state BY <1>4, SameVotersSteps
<1>9. SameVoters(c3, CloseRound(d, byTimer).state) BY <1>5, <1>7, <1>8
<1>10. Good(CloseRound(d, byTimer).state)
  BY <1>3, <1>9, FairParts DEF SameVoters
<1> QED BY <1>10

\* A round that closes because everybody answered closes fairly.
LEMMA CloseIfEveryoneRespondedSettles ==
  ASSUME NEW d \in Decisions, OneEach(d.state)
  PROVE  LET e == CloseIfEveryoneResponded(d).state IN
         Settled(d.state, e) /\ e.hero = d.state.hero
<1>1. CASE /\ d.state.phase = "collecting"
           /\ \A h \in d.state.participants : d.state.submissions[h] # "none"
  <2>1. CloseIfEveryoneResponded(d) = CloseRound(d, FALSE)
    BY <1>1 DEF CloseIfEveryoneResponded
  <2> QED BY <1>1, <2>1, CloseRoundSettles
<1>2. CASE ~(/\ d.state.phase = "collecting"
             /\ \A h \in d.state.participants : d.state.submissions[h] # "none")
  <2>1. CloseIfEveryoneResponded(d) = d BY <1>2 DEF CloseIfEveryoneResponded
  <2> QED BY <2>1, FairParts
<1> QED BY <1>1, <1>2

\* A resolved round lets the story move the table, or puts a move to the vote.
LEMMA FinishRoundIfResolvedFair ==
  ASSUME NEW d \in Decisions, NEW fired \in BOOLEAN
  PROVE  Fair(d.state, FinishRoundIfResolved(d, fired).state)
<1> DEFINE c == d.state
           move == c.planned
           moved == IF move.to = NoScene \/ ~fired THEN c
                    ELSE IF move.forced THEN SceneTransitioned(c, move.to)
                    ELSE ProposeMove(c, move.to)
           e == [d EXCEPT !.state = RoundResolved(moved)]
           asked == Request(e, JobFor("narrate", c.lastRound))
<1>1. c \in CampaignStates BY DecisionTypes
<1>2. move.to = NoScene \/ move.to \in Scenes BY <1>1, FieldTypes DEF PlannedMoves
<1>3. moved \in CampaignStates BY <1>1, <1>2, SceneTransitionedType, ProposeMoveType
<1>4. Fair(c, moved)
  <2>1. \A scene : /\ SceneTransitioned(c, scene).pendingMove = c.pendingMove
                   /\ SceneTransitioned(c, scene).misses = c.misses
    BY <1>1 DEF SceneTransitioned, CampaignStates
  <2>2. ASSUME NEW scene
        PROVE  LET f == MoveProposed(c, scene, c.lastRound) IN
               f.scene = c.scene /\ f.misses = c.misses /\ f.pendingMove.objectors = {}
    BY <1>1 DEF MoveProposed, CampaignStates
  <2>3. \A scene : Fair(c, SceneTransitioned(c, scene)) BY <2>1 DEF Fair, VotesFit
  <2>4. \A scene : Fair(c, MoveProposed(c, scene, c.lastRound)) BY <2>2 DEF Fair, VotesFit
  <2>5. Fair(c, c) BY FairParts
  <2>6. \A scene : Fair(c, ProposeMove(c, scene)) BY <2>4, <2>5 DEF ProposeMove
  <2> QED BY <2>3, <2>5, <2>6
<1> HIDE DEF moved
<1>5. asked.state = RoundResolved(moved) BY <1>1 DEF Request, Decisions
<1>6. SameVoters(moved, RoundResolved(moved)) BY <1>3, SameVotersParts
<1>7. Fair(c, RoundResolved(moved)) BY <1>4, <1>6, FairParts
<1>8. FinishRoundIfResolved(d, fired) \in {d, asked} BY DEF FinishRoundIfResolved, moved
<1> HIDE DEF e, asked
<1>9. Fair(c, c) BY FairParts
<1> QED BY <1>5, <1>7, <1>8, <1>9

\* So does the plan when it asks nobody for a check.
LEMMA ApplyRoundPlanFair ==
  ASSUME NEW d \in Decisions, NEW called \in SUBSET Heroes, NEW move \in PlannedMoves,
         NEW fired \in BOOLEAN
  PROVE  Fair(d.state, ApplyRoundPlan(d, called, move, fired).state)
<1> DEFINE n == d.state.lastRound
           checks == [h \in Heroes |-> IF h \in called THEN "pending" ELSE d.state.checks[h]]
           armed == IF RollTimed THEN d.timers \cup {RollTimer(n, h) : h \in called} ELSE d.timers
           c == [d.state EXCEPT !.phase = "resolving", !.planned = move, !.checks = checks]
           planned == [d EXCEPT !.state = c, !.timers = armed]
<1>1. d.state \in CampaignStates /\ d.timers \subseteq Timers BY DecisionTypes
<1>2. c \in CampaignStates
  <2>1. checks \in [Heroes -> CheckStatus] BY <1>1, FieldTypes DEF CheckStatus
  <2> HIDE DEF checks
  <2> QED BY <1>1, <2>1, SetPhase, SetPlanned, SetChecks, Zenon
<1>3. armed \subseteq Timers
  <2>1. n \in Nat BY <1>1, FieldTypes
  <2> QED BY <1>1, <2>1 DEF RollTimer, Timers
<1>4. SameVote(d.state, c)
  <2> HIDE DEF checks
  <2> QED BY <1>1 DEF CampaignStates, SameVote
<1>5. planned \in Decisions /\ planned.state = c
  <2> HIDE DEF c, armed
  <2> QED BY <1>1, <1>2, <1>3 DEF Decisions
<1>6. ApplyRoundPlan(d, called, move, fired) = FinishRoundIfResolved(planned, fired)
  BY <1>1 DEF ApplyRoundPlan
<1> HIDE DEF c, planned
<1>7. Fair(c, FinishRoundIfResolved(planned, fired).state) BY <1>5, FinishRoundIfResolvedFair
<1> QED BY <1>4, <1>6, <1>7, FairParts

\* And the last of the round's rolls.
LEMMA RecordCheckRollFair ==
  ASSUME NEW d \in Decisions, NEW h \in Heroes, NEW rerolled \in BOOLEAN, NEW fired \in BOOLEAN
  PROVE  Fair(d.state, RecordCheckRoll(d, h, rerolled, fired).state)
<1> DEFINE After(s) == [d EXCEPT !.state.checks[h] = s]
<1>1. d.state \in CampaignStates BY DecisionTypes
<1>2. ASSUME NEW s \in CheckStatus
      PROVE  After(s) \in Decisions /\ SameVote(d.state, After(s).state)
  <2> DEFINE c == [d.state EXCEPT !.checks[h] = s]
             e == After(s)
  <2>1. c \in CampaignStates BY <1>1, SetChecksAt
  <2>2. e \in Decisions /\ e.state = c
    <3>1. e = [d EXCEPT !.state = c] OBVIOUS
    <3> HIDE DEF c, e
    <3> QED BY <2>1, <3>1 DEF Decisions
  <2>3. SameVote(d.state, c) BY <1>1 DEF CampaignStates, SameVote
  <2> HIDE DEF c, e
  <2> QED BY <2>2, <2>3 DEF e
<1> HIDE DEF After
<1>3. "lucky" \in CheckStatus /\ "resolved" \in CheckStatus BY DEF CheckStatus
<1>4. Request(After("lucky"), RollJob(d.state.lastRound, h, TRUE)).state = After("lucky").state
  BY <1>2, <1>3, SameVotersSteps
<1>5. Fair(d.state, After("lucky").state) BY <1>2, <1>3, FairParts
<1>6. Fair(After("resolved").state, FinishRoundIfResolved(After("resolved"), fired).state)
  BY <1>2, <1>3, FinishRoundIfResolvedFair
<1>7. Fair(d.state, FinishRoundIfResolved(After("resolved"), fired).state)
  BY <1>2, <1>3, <1>6, FairParts
<1> QED BY <1>4, <1>5, <1>7 DEF RecordCheckRoll, After

\* Who is marked away, comes back or answers leaves the vote on.
LEMMA MembersVote ==
  ASSUME NEW c \in CampaignStates, NEW u \in Users
  PROVE  /\ SameVote(c, MemberMarkedAway(c, u))
         /\ SameVote(c, MemberReturned(c, u))
         /\ \A h \in Heroes, s \in Submissions : SameVote(c, Responded(c, u, h, s))
<1>1. /\ MemberMarkedAway(c, u).scene = c.scene
      /\ MemberMarkedAway(c, u).pendingMove = c.pendingMove
  BY DEF MemberMarkedAway, CampaignStates
<1>2. MemberReturned(c, u).scene = c.scene /\ MemberReturned(c, u).pendingMove = c.pendingMove
  BY DEF MemberReturned, CampaignStates
<1>3. \A h \in Heroes, s \in Submissions :
        /\ Responded(c, u, h, s).scene = c.scene
        /\ Responded(c, u, h, s).pendingMove = c.pendingMove
  BY DEF Responded, CampaignStates
<1> QED BY <1>1, <1>2, <1>3, MissesCleared DEF SameVote

\* A member marked away may close the round, and only the closing settles.
LEMMA MarkAwayFair ==
  ASSUME NEW d \in Decisions, NEW u \in Users, NEW tooSoon \in BOOLEAN,
         d.state.hero[u] \in Heroes, OneEach(d.state)
  PROVE  Fair(d.state, MarkAway(d, u, tooSoon).state)
<1> DEFINE c == d.state
           h == c.hero[u]
           gone == [d EXCEPT !.state = MemberMarkedAway(@, u)]
           rollers == {g \in Heroes : g = h /\ c.checks[g] = "pending"}
           left == StartRolls(gone, rollers, FALSE)
           asked == /\ c.phase = "collecting"
                    /\ h \in c.participants
                    /\ c.submissions[h] = "none"
           freed == [left EXCEPT !.state.submissions[h] = "excused"]
           excused == IF asked THEN CloseIfEveryoneResponded(freed) ELSE left
           last == MarkAway(d, u, tooSoon).state
<1>1. c \in CampaignStates BY DecisionTypes
<1>2. gone \in Decisions /\ gone.state = MemberMarkedAway(c, u)
  <2>1. MemberMarkedAway(c, u) \in CampaignStates BY <1>1, MemberMarkedAwayType
  <2> QED BY <1>1, <2>1 DEF Decisions
<1> HIDE DEF gone
<1>3. SameVote(c, gone.state) /\ gone.state.hero = c.hero
  BY <1>1, <1>2, MembersVote, MemberMarkedAwayTable
<1>4. left \in Decisions /\ SameVoters(gone.state, left.state)
  <2>1. rollers \in SUBSET Heroes OBVIOUS
  <2> HIDE DEF rollers
  <2> QED BY <1>2, <2>1, StartRollsType, SameVotersSteps
<1> HIDE DEF left, rollers
<1>5. SameVote(c, left.state) /\ left.state.hero = c.hero
  BY <1>3, <1>4, FairParts DEF SameVoters
<1>6. excused \in Decisions /\ Fair(c, excused.state)
  <2> DEFINE e == [left.state EXCEPT !.submissions[h] = "excused"]
  <2>1. e \in CampaignStates
    <3>1. left.state \in CampaignStates BY <1>4, DecisionTypes
    <3> QED BY <3>1, SetSubmissionsAt DEF Submissions
  <2>2. freed \in Decisions /\ freed.state = e
    <3>1. freed = [left EXCEPT !.state = e] OBVIOUS
    <3> HIDE DEF e, freed
    <3> QED BY <1>4, <2>1, <3>1 DEF Decisions
  <2>3. SameVoters(left.state, e)
    <3>1. left.state \in CampaignStates BY <1>4, DecisionTypes
    <3> QED BY <3>1 DEF CampaignStates, SameVoters, SameVote
  <2> HIDE DEF e, freed
  <2>4. SameVote(c, freed.state) /\ OneEach(freed.state)
    BY <1>5, <2>2, <2>3, FairParts DEF SameVoters, OneEach
  <2>5. CloseIfEveryoneResponded(freed) \in Decisions
    BY <2>2, CloseRoundType DEF CloseIfEveryoneResponded
  <2>6. Settled(freed.state, CloseIfEveryoneResponded(freed).state)
    BY <2>2, <2>4, CloseIfEveryoneRespondedSettles
  <2>7. Fair(c, CloseIfEveryoneResponded(freed).state) BY <2>4, <2>6, FairParts
  <2>8. Fair(c, left.state) BY <1>5, FairParts
  <2> QED BY <1>4, <2>5, <2>7, <2>8
<1>7. MarkAway(d, u, tooSoon) \in {EnterWaiting(excused), FinishReadyCheck(excused, FALSE, tooSoon)}
  BY DEF MarkAway, left, gone, rollers
<1> HIDE DEF excused, last
<1>8. /\ SameVoters(excused.state, EnterWaiting(excused).state)
      /\ SameVoters(excused.state, FinishReadyCheck(excused, FALSE, tooSoon).state)
  BY <1>6, SameVotersSteps, FinishReadyCheckVoters
<1>9. SameVoters(excused.state, last) BY <1>7, <1>8 DEF last
<1>10. Fair(c, last) BY <1>6, <1>9, FairParts
<1> QED BY <1>10 DEF last

\* A freed seat takes its votes along, and leaves the other voters theirs.
LEMMA MemberRetiredVote ==
  ASSUME NEW c \in CampaignStates, NEW u \in Users
  PROVE  LET e == MemberRetired(c, u) IN
         /\ e.hero = [c.hero EXCEPT ![u] = NoHero] /\ e.scene = c.scene
         /\ e.pendingMove.objectors = c.pendingMove.objectors \ {u}
         /\ e.pendingMove.supporters = c.pendingMove.supporters \ {u}
<1> DEFINE h == c.hero[u]
           left == [c EXCEPT !.hero[u] = NoHero, !.away = @ \ {u}, !.misses[u] = 0,
                             !.participants = @ \ {h},
                             !.submissions = [g \in Heroes |-> IF g = h THEN "none" ELSE @[g]]]
           fewer == [left EXCEPT !.pendingMove.objectors = c.pendingMove.objectors \ {u}]
           none == [fewer EXCEPT !.pendingMove.supporters = c.pendingMove.supporters \ {u}]
           e == MemberRetired(c, u)
<1>1. e.hero = [c.hero EXCEPT ![u] = NoHero] BY MemberRetiredTable
<1>2. e = [none EXCEPT !.ready = c.ready \ {u}] BY Zenon DEF MemberRetired
<1>3. /\ left.scene = c.scene /\ left.pendingMove = c.pendingMove
      /\ DOMAIN left = DOMAIN c
  BY DEF CampaignStates
<1> HIDE DEF left, e
<1>4. c.pendingMove \in Moves /\ {"scene", "pendingMove", "ready"} \subseteq DOMAIN c
  BY FieldTypes DEF CampaignStates
<1>5. /\ fewer.pendingMove = [c.pendingMove EXCEPT !.objectors = @ \ {u}]
      /\ fewer.scene = c.scene /\ DOMAIN fewer = DOMAIN c
  BY <1>3, <1>4
<1> HIDE DEF fewer
<1>6. /\ none.pendingMove = [fewer.pendingMove EXCEPT
                               !.supporters = c.pendingMove.supporters \ {u}]
      /\ none.scene = c.scene /\ DOMAIN none = DOMAIN c
  BY <1>4, <1>5
<1> HIDE DEF none
<1>7. e.pendingMove = none.pendingMove /\ e.scene = c.scene BY <1>2, <1>4, <1>6
<1>8. /\ e.pendingMove.objectors = c.pendingMove.objectors \ {u}
      /\ e.pendingMove.supporters = c.pendingMove.supporters \ {u}
  BY <1>4, <1>5, <1>6, <1>7 DEF Moves
<1> QED BY <1>1, <1>7, <1>8 DEF e

\* A seat that is freed takes its votes along before it may close the round.
LEMMA RetireMemberFair ==
  ASSUME NEW d \in Decisions, NEW u \in Users, OneEach(d.state)
  PROVE  Fair(d.state, RetireMember(d, u).state)
<1> DEFINE c == d.state
           gone == [d EXCEPT !.state = MemberRetired(@, u)]
           left == CloseIfEveryoneResponded(gone)
           last == RetireMember(d, u).state
<1>1. c \in CampaignStates BY DecisionTypes
<1>2. gone \in Decisions /\ gone.state = MemberRetired(c, u) /\ gone.state \in CampaignStates
  <2>1. MemberRetired(c, u) \in CampaignStates BY <1>1, MemberRetiredType
  <2> QED BY <1>1, <2>1 DEF Decisions
<1> HIDE DEF gone
<1>3. /\ gone.state.hero = [c.hero EXCEPT ![u] = NoHero]
      /\ gone.state.scene = c.scene
      /\ gone.state.pendingMove.objectors = c.pendingMove.objectors \ {u}
      /\ gone.state.pendingMove.supporters = c.pendingMove.supporters \ {u}
  BY <1>1, <1>2, MemberRetiredVote
<1>4. \A v \in Users : c.misses[v] \in Nat /\ gone.state.misses[v] \in {0, c.misses[v]}
  BY <1>1, <1>2, MissesCleared
<1>5. c.hero \in [Users -> Heroes \cup {NoHero}] BY <1>1, FieldTypes
<1>6. OneEach(gone.state) BY <1>3, <1>5 DEF OneEach
<1>7. left \in Decisions BY <1>2, CloseRoundType DEF CloseIfEveryoneResponded
<1>8. Settled(gone.state, left.state) /\ left.state.hero = gone.state.hero
  BY <1>2, <1>6, CloseIfEveryoneRespondedSettles
<1>9. last \in {left.state, EnterWaiting(left).state} BY DEF RetireMember, gone
<1> HIDE DEF left, last
<1>10. SameVoters(left.state, last) BY <1>7, <1>9, SameVotersSteps, FairParts
<1>11. Settled(gone.state, last) /\ last.hero = gone.state.hero
  BY <1>8, <1>10, FairParts DEF SameVoters
<1>12. VotesFit(c) => VotesFit(gone.state)
  <2>1. 0 < AwayAfterMisses BY PacingAssumption
  <2> QED BY <1>3, <1>4, <2>1 DEF VotesFit
<1>13. u \notin Present(last) BY <1>3, <1>5, <1>11 DEF Present, Members
<1>14. Outvoted(gone.state.pendingMove.objectors, last) => Outvoted(c.pendingMove.objectors, last)
  <2>1. gone.state.pendingMove.objectors \cap Present(last) =
          c.pendingMove.objectors \cap Present(last)
    BY <1>3, <1>13
  <2> QED BY <2>1 DEF Outvoted
<1>15. Fair(c, last)
  BY <1>3, <1>11, <1>12, <1>14 DEF Settled, Fair
<1> QED BY <1>15 DEF last

\* Who lets the table continue is back, and that is all it does to a vote.
LEMMA ResumedVote ==
  ASSUME NEW d \in Decisions, NEW u \in Users
  PROVE  SameVote(d.state, Resumed(d, u).state)
<1> DEFINE back == IF u \in d.state.away THEN MemberReturned(d.state, u) ELSE d.state
           rearmed == {t \in HeldTimers(back) : IF t.kind = "round" THEN RoundTimed ELSE RollTimed}
           c == [back EXCEPT !.status = "active", !.pausedBy = "nobody"]
           T == d.timers \cup rearmed
           e == Resumed(d, u)
<1>1. d.state \in CampaignStates BY DecisionTypes
<1>2. SameVote(d.state, back) BY <1>1, MembersVote, FairParts
<1>3. back \in CampaignStates BY <1>1, MemberReturnedType
<1> HIDE DEF back
<1>4. SameVote(back, c) BY <1>3 DEF CampaignStates, SameVote
<1>5. e = [d EXCEPT !.state = c, !.timers = T] BY DEF Resumed, back
<1> HIDE DEF c, T, e
<1>6. e.state = c BY <1>5 DEF Decisions
<1>7. SameVote(d.state, e.state) BY <1>2, <1>4, <1>6, FairParts
<1> QED BY <1>7 DEF e

\* The work picked up afterwards may move the table as the round's end may.
LEMMA PickUpHeldWorkFair ==
  ASSUME NEW d \in Decisions, NEW tooSoon \in BOOLEAN, NEW fired \in BOOLEAN
  PROVE  Fair(d.state, PickUpHeldWork(d, tooSoon, fired).state)
<1>1. PickUpHeldWork(d, tooSoon, fired) \in
        {d, OpenRound(d, FALSE, tooSoon), Request(d, JobFor("plan", d.state.lastRound)),
         FinishRoundIfResolved(d, fired)}
  <2>1. d.state.phase \in {"none", "collecting", "planning", "resolving"}
    BY DecisionTypes, FieldTypes
  <2> QED BY <2>1 DEF PickUpHeldWork
<1>2. SameVoters(d.state, OpenRound(d, FALSE, tooSoon).state) BY OpenRoundVoters
<1>3. Request(d, JobFor("plan", d.state.lastRound)).state = d.state BY SameVotersSteps
<1>4. Fair(d.state, FinishRoundIfResolved(d, fired).state) BY FinishRoundIfResolvedFair
<1> QED BY <1>1, <1>2, <1>3, <1>4, FairParts

-----------------------------------------------------------------------------
(* The commands and the workers, by what they do to a vote.                *)

\* What the table in order says about its voters.
LEMMA TableVotes ==
  ASSUME Inv
  PROVE  /\ campaign \in CampaignStates /\ Stored \in Decisions /\ Stored.state = campaign
         /\ OneEach(campaign) /\ SlotsOpen(campaign) /\ Fair(campaign, campaign)
BY StoredSound, FairParts DEF Inv, TableInOrder, InOrder, Consistent, OneEach

\* A command that changes one thing no vote looks at, before the engine goes on.
LEMMA PreparedVote ==
  ASSUME Inv, NEW c \in CampaignStates, SameVote(campaign, c)
  PROVE  LET e == [Stored EXCEPT !.state = c] IN
         /\ e \in Decisions /\ e.state = c
         /\ \A f : Fair(c, f) => Fair(campaign, f)
<1>1. Stored \in Decisions BY TableVotes
<1>2. \A f : Fair(c, f) => Fair(campaign, f) BY FairParts
<1> QED BY <1>1, <1>2 DEF Decisions

\* The commands of a round.
LEMMA RoundCommandsFair ==
  ASSUME Inv, NEW u \in Users, NEW h \in Heroes,
         \/ \E s \in {"action", "pass"} : Respond(u, h, s)
         \/ CloseRoundByOrganizer \/ RequestRoll(u, h) \/ RetryPlan
  PROVE  Fair(campaign, campaign')
<1>1. /\ campaign \in CampaignStates /\ Stored \in Decisions /\ Stored.state = campaign
      /\ OneEach(campaign)
  BY TableVotes
<1>2. ASSUME NEW s \in {"action", "pass"}, Respond(u, h, s)
      PROVE  Fair(campaign, campaign')
  <2> DEFINE c == Responded(campaign, u, h, s)
             e == [Stored EXCEPT !.state = c]
  <2>1. s \in Submissions BY DEF Submissions
  <2>2. c \in CampaignStates /\ SameVote(campaign, c)
    BY <1>1, <2>1, RespondedType, MembersVote
  <2>3. c.hero = campaign.hero BY <1>1 DEF Responded, CampaignStates
  <2>4. campaign' = CloseIfEveryoneResponded(e).state BY <1>1, <1>2 DEF Respond, Commit
  <2> HIDE DEF c
  <2>5. e \in Decisions /\ e.state = c /\ \A f : Fair(c, f) => Fair(campaign, f)
    BY <2>2, PreparedVote
  <2> HIDE DEF e
  <2>6. OneEach(c) BY <1>1, <2>3 DEF OneEach
  <2>7. Settled(c, campaign') BY <2>4, <2>5, <2>6, CloseIfEveryoneRespondedSettles
  <2> QED BY <2>5, <2>7, FairParts
<1>3. ASSUME CloseRoundByOrganizer
      PROVE  Fair(campaign, campaign')
  <2>1. campaign.phase = "collecting" /\ campaign' = CloseRound(Stored, FALSE).state
    BY <1>3 DEF CloseRoundByOrganizer, Commit
  <2>2. Settled(campaign, campaign') BY <1>1, <2>1, CloseRoundSettles
  <2> QED BY <2>2, FairParts
<1>4. ASSUME RequestRoll(u, h)
      PROVE  Fair(campaign, campaign')
  <2>1. campaign' = StartRolls(Stored, {h}, FALSE).state BY <1>4 DEF RequestRoll, Commit
  <2>2. SameVoters(campaign, campaign') BY <1>1, <2>1, SameVotersSteps
  <2> QED BY <2>2, FairParts
<1>5. ASSUME RetryPlan
      PROVE  Fair(campaign, campaign')
  <2>1. SameVote(campaign, campaign')
    BY <1>1, <1>5 DEF RetryPlan, Commit, Stored, Request, SameVote, CampaignStates
  <2> QED BY <2>1, FairParts
<1> QED BY <1>2, <1>3, <1>4, <1>5

\* The commands about seats.
LEMMA SeatCommandsFair ==
  ASSUME Inv, NEW u \in Users, NEW h \in Heroes, NEW tooSoon \in BOOLEAN,
         \/ JoinHero(u, h) \/ MarkMemberAway(u, tooSoon)
         \/ MarkMemberReturned(u) \/ Retire(u)
  PROVE  Fair(campaign, campaign')
<1>1. /\ campaign \in CampaignStates /\ Stored \in Decisions /\ Stored.state = campaign
      /\ OneEach(campaign)
  BY TableVotes
<1>2. ASSUME JoinHero(u, h)
      PROVE  Fair(campaign, campaign')
  <2>1. SameVote(campaign, campaign')
    BY <1>1, <1>2 DEF JoinHero, Commit, Stored, SameVote, CampaignStates
  <2> QED BY <2>1, FairParts
<1>3. ASSUME MarkMemberAway(u, tooSoon)
      PROVE  Fair(campaign, campaign')
  <2>1. campaign' = MarkAway(Stored, u, tooSoon).state /\ u \in Present(campaign)
    BY <1>3 DEF MarkMemberAway, Commit
  <2>2. campaign.hero[u] \in Heroes BY <1>1, <2>1, FieldTypes DEF Present, Members
  <2> QED BY <1>1, <2>1, <2>2, MarkAwayFair
<1>4. ASSUME MarkMemberReturned(u)
      PROVE  Fair(campaign, campaign')
  <2>1. campaign' = MemberReturned(campaign, u) BY <1>1, <1>4 DEF MarkMemberReturned, Commit, Stored
  <2>2. SameVote(campaign, campaign') BY <1>1, <2>1, MembersVote
  <2> QED BY <2>2, FairParts
<1>5. ASSUME Retire(u)
      PROVE  Fair(campaign, campaign')
  <2>1. campaign' = RetireMember(Stored, u).state BY <1>5 DEF Retire, Commit
  <2> QED BY <1>1, <2>1, RetireMemberFair
<1> QED BY <1>2, <1>3, <1>4, <1>5

\* The commands that open rounds, rest or pause.
LEMMA PacingCommandsFair ==
  ASSUME Inv, NEW u \in Users, NEW tooSoon \in BOOLEAN, NEW fired \in BOOLEAN, NEW reason, NEW rest,
         \/ EndRest(tooSoon) \/ BeginPlay(tooSoon) \/ MarkReady(u, tooSoon)
         \/ Continue(u, tooSoon, fired) \/ Pause(reason)
         \/ QueueRest(rest) \/ TakeRest(rest) \/ CancelQueuedRest
  PROVE  Fair(campaign, campaign')
<1>1. campaign \in CampaignStates /\ Stored \in Decisions /\ Stored.state = campaign
  BY TableVotes
<1>2. ASSUME EndRest(tooSoon)
      PROVE  Fair(campaign, campaign')
  <2> DEFINE c == [campaign EXCEPT !.resting = "none"]
             e == [Stored EXCEPT !.state = c]
  <2>1. c \in CampaignStates BY <1>1, SetResting DEF Rests
  <2>2. SameVote(campaign, c) BY <1>1 DEF CampaignStates, SameVote
  <2>3. campaign' = OpenRound(e, FALSE, tooSoon).state BY <1>1, <1>2 DEF EndRest, Commit
  <2> HIDE DEF c
  <2>4. e \in Decisions /\ e.state = c /\ \A f : Fair(c, f) => Fair(campaign, f)
    BY <2>1, <2>2, PreparedVote
  <2> HIDE DEF e
  <2>5. SameVoters(c, campaign') BY <2>3, <2>4, OpenRoundVoters
  <2> QED BY <2>4, <2>5, FairParts
<1>3. ASSUME BeginPlay(tooSoon)
      PROVE  Fair(campaign, campaign')
  <2> DEFINE c == [campaign EXCEPT !.opening = "done"]
             e == [Stored EXCEPT !.state = c]
  <2>1. c \in CampaignStates BY <1>1, SetOpening
  <2>2. SameVote(campaign, c) BY <1>1 DEF CampaignStates, SameVote
  <2>3. campaign' = OpenRound(e, FALSE, tooSoon).state BY <1>1, <1>3 DEF BeginPlay, Commit
  <2> HIDE DEF c
  <2>4. e \in Decisions /\ e.state = c /\ \A f : Fair(c, f) => Fair(campaign, f)
    BY <2>1, <2>2, PreparedVote
  <2> HIDE DEF e
  <2>5. SameVoters(c, campaign') BY <2>3, <2>4, OpenRoundVoters
  <2> QED BY <2>4, <2>5, FairParts
<1>4. ASSUME MarkReady(u, tooSoon)
      PROVE  Fair(campaign, campaign')
  <2> DEFINE c == [campaign EXCEPT !.ready = @ \cup {u}]
             e == [Stored EXCEPT !.state = c]
  <2>1. c \in CampaignStates
    <3>1. campaign.ready \cup {u} \subseteq Users BY <1>1, FieldTypes
    <3> QED BY <1>1, <3>1, SetReady
  <2>2. SameVote(campaign, c) BY <1>1 DEF CampaignStates, SameVote
  <2>3. campaign' = FinishReadyCheck(e, FALSE, tooSoon).state
    BY <1>1, <1>4 DEF MarkReady, Commit
  <2> HIDE DEF c
  <2>4. e \in Decisions /\ e.state = c /\ \A f : Fair(c, f) => Fair(campaign, f)
    BY <2>1, <2>2, PreparedVote
  <2> HIDE DEF e
  <2>5. SameVoters(c, campaign') BY <2>3, <2>4, FinishReadyCheckVoters
  <2> QED BY <2>4, <2>5, FairParts
<1>5. ASSUME Continue(u, tooSoon, fired)
      PROVE  Fair(campaign, campaign')
  <2> DEFINE e == Resumed(Stored, u)
  <2>1. campaign' = PickUpHeldWork(e, tooSoon, fired).state BY <1>5 DEF Continue, Commit
  <2>2. e \in Decisions
    <3>1. campaign.status = "waitingForPlayers" /\ Present(e.state) # {}
      BY <1>5 DEF Continue, ContinueRefused
    <3> QED BY <1>1, <3>1, StoredSound, ResumedSound DEF Sound
  <2>3. SameVote(campaign, e.state) BY <1>1, ResumedVote
  <2> HIDE DEF e
  <2>4. Fair(e.state, campaign') BY <2>1, <2>2, PickUpHeldWorkFair
  <2> QED BY <2>3, <2>4, FairParts
<1>6. ASSUME Pause(reason)
      PROVE  Fair(campaign, campaign')
  <2>1. campaign' = PauseCampaign(Stored, reason).state BY <1>6 DEF Pause, Commit
  <2>2. SameVoters(campaign, campaign') BY <1>1, <2>1, SameVotersSteps
  <2> QED BY <2>2, FairParts
<1>7. ASSUME QueueRest(rest) \/ TakeRest(rest) \/ CancelQueuedRest
      PROVE  Fair(campaign, campaign')
  <2>1. campaign' \in {RestTaken(campaign, rest), [campaign EXCEPT !.pendingRest = rest],
                       [campaign EXCEPT !.pendingRest = "none"]}
    BY <1>1, <1>7 DEF QueueRest, TakeRest, CancelQueuedRest, Commit, Stored
  <2>2. \A r : SameVote(campaign, [campaign EXCEPT !.pendingRest = r])
    BY <1>1 DEF CampaignStates, SameVote
  <2>3. SameVote(campaign, RestTaken(campaign, rest)) BY <1>1, SameVotersParts, FairParts
  <2>4. SameVote(campaign, campaign') BY <2>1, <2>2, <2>3
  <2> QED BY <2>4, FairParts
<1> QED BY <1>2, <1>3, <1>4, <1>5, <1>6, <1>7

\* The timers, the dice and the planner's answer.
LEMMA DiceAndPlanFair ==
  ASSUME Inv, NEW rerolled \in BOOLEAN, NEW fired \in BOOLEAN,
         \/ \E t \in due : RoundTimerFires(t) \/ RollTimerFires(t)
         \/ LoadTimers \/ MarkTimerFired
         \/ \E job \in outbox : RunRoll(job, rerolled, fired)
         \/ ApplyDraft(fired) \/ ReportPlannerFailure \/ DraftStep
  PROVE  Fair(campaign, campaign')
<1>1. /\ campaign \in CampaignStates /\ Stored \in Decisions /\ Stored.state = campaign
      /\ OneEach(campaign) /\ SlotsOpen(campaign) /\ Fair(campaign, campaign)
  BY TableVotes
<1>2. ASSUME NEW t \in due, RoundTimerFires(t) \/ RollTimerFires(t)
      PROVE  Fair(campaign, campaign')
  <2> DEFINE e == [Stored EXCEPT !.timers = @ \ {t}]
  <2>1. e \in Decisions /\ e.state = campaign BY <1>1 DEF Decisions
  <2>2. \/ campaign' = e.state
        \/ campaign.phase = "collecting" /\ campaign' = CloseRound(e, TRUE).state
        \/ campaign' = StartRolls(e, {t.hero}, TRUE).state
    BY <1>2 DEF RoundTimerFires, RollTimerFires, Commit
  <2> HIDE DEF e
  <2>3. CASE campaign' = e.state BY <1>1, <2>1, <2>3
  <2>4. CASE campaign.phase = "collecting" /\ campaign' = CloseRound(e, TRUE).state
    <3>1. Settled(campaign, campaign') BY <1>1, <2>1, <2>4, CloseRoundSettles
    <3> QED BY <3>1, FairParts
  <2>5. CASE campaign' = StartRolls(e, {t.hero}, TRUE).state
    <3>1. SameVoters(campaign, campaign') BY <2>1, <2>5, SameVotersSteps
    <3> QED BY <3>1, FairParts
  <2> QED BY <2>2, <2>3, <2>4, <2>5
<1>3. ASSUME NEW job \in outbox, RunRoll(job, rerolled, fired)
      PROVE  Fair(campaign, campaign')
  <2> DEFINE done == [Stored EXCEPT !.outbox = @ \ {job}]
  <2>1. done \in Decisions /\ done.state = campaign BY JobDone
  <2>2. job.hero \in Heroes
    <3>1. job \in Jobs /\ job.kind = "roll" BY <1>3, StoredSound DEF RunRoll
    <3> QED BY <3>1 DEF Jobs
  <2>3. campaign' = RecordCheckRoll(done, job.hero, rerolled, fired).state
    BY <1>3 DEF RunRoll, Commit
  <2> HIDE DEF done
  <2> QED BY <2>1, <2>2, <2>3, RecordCheckRollFair
<1>4. ASSUME ApplyDraft(fired)
      PROVE  Fair(campaign, campaign')
  <2> DEFINE done == [Stored EXCEPT !.outbox = @ \ {JobFor("plan", draft.round)}]
             planned == ApplyRoundPlan(done, draft.called, draft.move, fired)
  <2>1. done \in Decisions /\ done.state = campaign BY JobDone
  <2>2. draft.called \in SUBSET Heroes /\ draft.move \in PlannedMoves
    BY DEF Inv, TypeOK, Drafts
  <2>3. campaign' \in {done.state, Stored.state, planned.state}
    BY <1>4 DEF ApplyDraft, Commit
  <2> HIDE DEF done
  <2>4. Fair(campaign, planned.state) BY <2>1, <2>2, ApplyRoundPlanFair
  <2> QED BY <1>1, <2>1, <2>3, <2>4
<1>5. ASSUME ReportPlannerFailure \/ DraftStep
      PROVE  Fair(campaign, campaign')
  <2>1. SameVote(campaign, campaign')
    <3>1. CASE ReportPlannerFailure
      BY <1>1, <3>1 DEF ReportPlannerFailure, Commit, Stored, SameVote, CampaignStates
    <3>2. CASE DraftStep
      BY <3>2 DEF DraftStep, DraftPlan, SameVote
    <3> QED BY <1>5, <3>1, <3>2
  <2> QED BY <2>1, FairParts
<1>6. LoadTimers \/ MarkTimerFired => Fair(campaign, campaign')
  <2>1. LoadTimers \/ MarkTimerFired => campaign' = campaign
    BY DEF LoadTimers, MarkTimerFired
  <2> QED BY <1>1, <2>1
<1> QED BY <1>2, <1>3, <1>4, <1>5, <1>6

\* The narrator's answers, the beginning, and a crash.
LEMMA NarrationFair ==
  ASSUME Inv, NEW tooSoon \in BOOLEAN,
         \/ \E job \in outbox : RunNarrate(job, tooSoon) \/ RunOpening(job, tooSoon)
         \/ BeginAdventure \/ CrashAndRecover
  PROVE  Fair(campaign, campaign')
<1>1. campaign \in CampaignStates /\ Stored \in Decisions /\ Stored.state = campaign
        /\ Fair(campaign, campaign)
  BY TableVotes
<1>2. ASSUME NEW job \in outbox, RunNarrate(job, tooSoon)
      PROVE  Fair(campaign, campaign')
  <2> DEFINE done == [Stored EXCEPT !.outbox = @ \ {job}]
             c == [campaign EXCEPT !.lastNarrated = job.round]
             kept == [done EXCEPT !.state = c]
  <2>1. done \in Decisions /\ done.state = campaign BY JobDone
  <2>2. c \in CampaignStates
    <3>1. job \in Jobs BY StoredSound
    <3>2. job.round \in Nat BY <3>1 DEF Jobs
    <3> QED BY <1>1, <3>2, SetLastNarrated
  <2>3. SameVote(campaign, c) BY <1>1 DEF CampaignStates, SameVote
  <2>4. campaign' \in {done.state, kept.state, OpenRound(kept, TRUE, tooSoon).state}
    <3> DEFINE told == [done EXCEPT !.state.lastNarrated = job.round]
    <3>1. campaign' \in {done.state, told.state, OpenRound(told, TRUE, tooSoon).state}
      BY <1>2 DEF RunNarrate, Commit
    <3>2. told = kept BY <2>1
    <3> QED BY <3>1, <3>2
  <2> HIDE DEF done, c
  <2>5. kept \in Decisions /\ kept.state = c BY <2>1, <2>2 DEF Decisions
  <2> HIDE DEF kept
  <2>6. SameVoters(c, OpenRound(kept, TRUE, tooSoon).state) BY <2>5, OpenRoundVoters
  <2>7. SameVote(campaign, OpenRound(kept, TRUE, tooSoon).state) BY <2>3, <2>6, FairParts
  <2>8. Fair(campaign, kept.state) BY <2>3, <2>5, FairParts
  <2>9. Fair(campaign, OpenRound(kept, TRUE, tooSoon).state) BY <2>7, FairParts
  <2> QED BY <1>1, <2>1, <2>4, <2>8, <2>9
<1>3. ASSUME NEW job \in outbox, RunOpening(job, tooSoon)
      PROVE  Fair(campaign, campaign')
  <2> DEFINE done == [Stored EXCEPT !.outbox = @ \ {job}]
             c == [campaign EXCEPT !.opening = "waiting", !.ready = {}]
             told == [done EXCEPT !.state = c]
  <2>1. done \in Decisions /\ done.state = campaign BY JobDone
  <2>2. c \in CampaignStates BY <1>1, SetOpening, SetReady, Zenon
  <2>3. SameVote(campaign, c) BY <1>1 DEF CampaignStates, SameVote
  <2>4. campaign' = FinishReadyCheck(told, TRUE, tooSoon).state
    <3>1. told = [Stored EXCEPT !.outbox = @ \ {job}, !.state.opening = "waiting",
                                !.state.ready = {}]
      BY <1>1 DEF Decisions
    <3> QED BY <1>3, <3>1 DEF RunOpening, Commit
  <2> HIDE DEF done, c
  <2>5. told \in Decisions /\ told.state = c BY <2>1, <2>2 DEF Decisions
  <2> HIDE DEF told
  <2>6. SameVoters(c, campaign') BY <2>4, <2>5, FinishReadyCheckVoters
  <2>7. SameVote(campaign, campaign') BY <2>3, <2>6, FairParts
  <2> QED BY <2>7, FairParts
<1>4. SameVote(campaign, Begun.state)
  <2>1. Begun.state = [campaign EXCEPT !.opening = "pending"]
    BY <1>1 DEF Begun, Stored, Request
  <2> QED BY <1>1, <2>1 DEF CampaignStates, SameVote
<1>5. ASSUME BeginAdventure
      PROVE  Fair(campaign, campaign')
  BY <1>4, <1>5, FairParts DEF BeginAdventure, Commit
<1>6. ASSUME CrashAndRecover
      PROVE  Fair(campaign, campaign')
  <2> DEFINE begun == IF MayBegin THEN Begun ELSE Stored
  <2>1. begun \in Decisions BY <1>1, StoredSound, BegunSound DEF Sound
  <2>2. SameVote(campaign, begun.state) BY <1>1, <1>4, FairParts
  <2>3. campaign' \in {begun.state, PauseCampaign(begun, "recovery").state}
    BY <1>6 DEF CrashAndRecover, Commit
  <2> HIDE DEF begun
  <2>4. SameVoters(begun.state, PauseCampaign(begun, "recovery").state)
    BY <2>1, SameVotersSteps
  <2>5. SameVote(campaign, campaign') BY <2>2, <2>3, <2>4, FairParts
  <2> QED BY <2>5, FairParts
<1> QED BY <1>2, <1>3, <1>5, <1>6

\* Settled by the table or the organizer, a vote is over and nobody has moved seats.
LEMMA SettleVote ==
  ASSUME NEW c \in CampaignStates, NEW outcome
  PROVE  LET e == Settle(c, outcome) IN
         /\ e.pendingMove = NoPendingMove
         /\ e.misses = c.misses /\ e.hero = c.hero /\ e.away = c.away
         /\ outcome = "stay" => e.scene = c.scene
<1>1. Settle(c, outcome).pendingMove = NoPendingMove
  BY DEF Settle, SceneTransitioned, CampaignStates
<1>2. /\ Settle(c, outcome).misses = c.misses
      /\ Settle(c, outcome).hero = c.hero /\ Settle(c, outcome).away = c.away
  BY DEF Settle, SceneTransitioned, CampaignStates
<1>3. outcome = "stay" => Settle(c, outcome).scene = c.scene
  BY DEF Settle, CampaignStates
<1> QED BY <1>1, <1>2, <1>3

\* A press of Stay or of Go moves one vote.
LEMMA PressVote ==
  ASSUME NEW c \in CampaignStates, NEW u \in Users
  PROVE  /\ LET e == Objected(c, u) IN
            /\ e.pendingMove.objectors = c.pendingMove.objectors \cup {u}
            /\ e.pendingMove.supporters = c.pendingMove.supporters \ {u}
            /\ e.scene = c.scene /\ e.misses = c.misses
            /\ e.hero = c.hero /\ e.away = c.away
         /\ LET e == Supported(c, u) IN
            /\ e.pendingMove.objectors = c.pendingMove.objectors \ {u}
            /\ e.pendingMove.supporters = c.pendingMove.supporters \cup {u}
            /\ e.scene = c.scene /\ e.misses = c.misses
            /\ e.hero = c.hero /\ e.away = c.away
<1>1. /\ Objected(c, u).scene = c.scene /\ Objected(c, u).misses = c.misses
      /\ Objected(c, u).hero = c.hero /\ Objected(c, u).away = c.away
  BY DEF Objected, CampaignStates
<1>2. /\ Supported(c, u).scene = c.scene /\ Supported(c, u).misses = c.misses
      /\ Supported(c, u).hero = c.hero /\ Supported(c, u).away = c.away
  BY DEF Supported, CampaignStates
<1>3. /\ Objected(c, u).pendingMove.objectors = c.pendingMove.objectors \cup {u}
      /\ Objected(c, u).pendingMove.supporters = c.pendingMove.supporters \ {u}
  BY DEF Objected, CampaignStates, Moves
<1>4. /\ Supported(c, u).pendingMove.objectors = c.pendingMove.objectors \ {u}
      /\ Supported(c, u).pendingMove.supporters = c.pendingMove.supporters \cup {u}
  BY DEF Supported, CampaignStates, Moves
<1> QED BY <1>1, <1>2, <1>3, <1>4

\* Everything about a vote but Go: the table stays where it is.
LEMMA VotesFair ==
  ASSUME Inv, NEW u \in Users,
         \/ \E scene \in Scenes : ProposeMoveByPlayer(u, scene)
         \/ ObjectToMove(u) \/ WithdrawMoveSupport(u) \/ WithdrawObjection(u)
         \/ SettleMoveByOrganizer("stay")
  PROVE  Fair(campaign, campaign')
<1>1. campaign \in CampaignStates /\ Stored.state = campaign BY TableVotes
<1>2. ASSUME NEW c \in CampaignStates, c.misses = campaign.misses, c.scene = campaign.scene,
             VotesFit(campaign) =>
               c.pendingMove.objectors \cap c.pendingMove.supporters = {}
      PROVE  Fair(campaign, c)
  BY <1>2 DEF Fair, VotesFit
<1>3. ASSUME NEW scene \in Scenes, ProposeMoveByPlayer(u, scene)
      PROVE  Fair(campaign, campaign')
  <2> DEFINE n == ProposalRound(campaign)
  <2>1. campaign' = MoveProposed(campaign, scene, n)
    BY <1>1, <1>3 DEF ProposeMoveByPlayer, Commit, Stored
  <2> HIDE DEF n
  <2>2. /\ campaign'.scene = campaign.scene /\ campaign'.misses = campaign.misses
        /\ campaign'.pendingMove =
             [to |-> scene, round |-> n, objectors |-> {}, supporters |-> {}]
    BY <1>1, <2>1 DEF MoveProposed, CampaignStates
  <2> QED BY <2>2 DEF Fair, VotesFit
<1>4. ASSUME ObjectToMove(u)
      PROVE  Fair(campaign, campaign')
  <2> DEFINE c == Objected(campaign, u)
  <2>1. c \in CampaignStates
    <3>1. /\ campaign.pendingMove.objectors \cup {u} \subseteq Users
          /\ campaign.pendingMove.supporters \ {u} \subseteq Users
      BY <1>1, FieldTypes DEF Moves
    <3> QED BY <1>1, <3>1, SetObjectors, SetSupporters, Zenon DEF Objected
  <2>2. campaign' \in {c, Settle(c, "stay")} BY <1>1, <1>4 DEF ObjectToMove, Commit, Stored
  <2>3. /\ c.pendingMove.objectors = campaign.pendingMove.objectors \cup {u}
        /\ c.pendingMove.supporters = campaign.pendingMove.supporters \ {u}
        /\ c.scene = campaign.scene /\ c.misses = campaign.misses
    BY <1>1, PressVote
  <2> HIDE DEF c
  <2>4. CASE campaign' = c BY <2>3, <2>4 DEF Fair, VotesFit
  <2>5. CASE campaign' = Settle(c, "stay")
    <3>1. /\ campaign'.scene = c.scene /\ campaign'.misses = c.misses
          /\ campaign'.pendingMove = NoPendingMove
      BY <2>1, <2>5, SettleVote
    <3> QED BY <2>3, <3>1 DEF Fair, VotesFit, NoPendingMove
  <2> QED BY <2>2, <2>4, <2>5
<1>5. ASSUME WithdrawMoveSupport(u) \/ WithdrawObjection(u)
      PROVE  Fair(campaign, campaign')
  <2>1. campaign' \in {[campaign EXCEPT !.pendingMove.supporters = @ \ {u}],
                       [campaign EXCEPT !.pendingMove.objectors = @ \ {u}]}
    BY <1>1, <1>5 DEF WithdrawMoveSupport, WithdrawObjection, Commit, Stored
  <2>2. /\ campaign'.scene = campaign.scene /\ campaign'.misses = campaign.misses
        /\ campaign'.pendingMove.objectors \subseteq campaign.pendingMove.objectors
        /\ campaign'.pendingMove.supporters \subseteq campaign.pendingMove.supporters
    BY <1>1, <2>1 DEF CampaignStates, Moves
  <2> QED BY <2>2 DEF Fair, VotesFit
<1>6. ASSUME SettleMoveByOrganizer("stay")
      PROVE  Fair(campaign, campaign')
  <2>1. campaign' = Settle(campaign, "stay")
    BY <1>1, <1>6 DEF SettleMoveByOrganizer, Commit, Stored
  <2>2. /\ campaign'.scene = campaign.scene /\ campaign'.misses = campaign.misses
        /\ campaign'.pendingMove = NoPendingMove
    BY <1>1, <2>1, SettleVote
  <2> QED BY <2>2 DEF Fair, VotesFit, NoPendingMove
<1> QED BY <1>3, <1>4, <1>5, <1>6

\* The Go that settles: everybody present is for going, but for a past objection
\* of whoever presses.
LEMMA SupportSettles ==
  ASSUME Inv, VotesFit(campaign), NEW u \in Users, SupportMove(u)
  PROVE  /\ VotesFit(campaign')
         /\ \/ campaign'.scene = campaign.scene
            \/ (campaign.pendingMove.objectors \ {u}) \cap Present(campaign') = {}
<1> DEFINE c == Supported(campaign, u)
<1>1. campaign \in CampaignStates /\ Stored.state = campaign BY TableVotes
<1>2. c \in CampaignStates
  <2>1. /\ campaign.pendingMove.supporters \cup {u} \subseteq Users
        /\ campaign.pendingMove.objectors \ {u} \subseteq Users
    BY <1>1, FieldTypes DEF Moves
  <2> QED BY <1>1, <2>1, SetObjectors, SetSupporters, Zenon DEF Supported
<1>3. /\ c.pendingMove.objectors = campaign.pendingMove.objectors \ {u}
      /\ c.pendingMove.supporters = campaign.pendingMove.supporters \cup {u}
      /\ c.scene = campaign.scene /\ c.misses = campaign.misses
      /\ c.hero = campaign.hero /\ c.away = campaign.away
  BY <1>1, PressVote
<1>4. \/ campaign' = c
      \/ Present(c) \subseteq c.pendingMove.supporters /\ campaign' = Settle(c, "go")
  BY <1>1 DEF SupportMove, Commit, Stored
<1> HIDE DEF c
<1>5. CASE campaign' = c BY <1>3, <1>5 DEF VotesFit
<1>6. CASE Present(c) \subseteq c.pendingMove.supporters /\ campaign' = Settle(c, "go")
  <2>1. /\ campaign'.pendingMove = NoPendingMove /\ campaign'.misses = c.misses
        /\ campaign'.hero = c.hero /\ campaign'.away = c.away
    BY <1>2, <1>6, SettleVote
  <2>2. VotesFit(campaign') BY <1>3, <2>1 DEF VotesFit, NoPendingMove
  <2>3. Present(campaign') = Present(c) BY <2>1 DEF Present, Members
  <2> QED BY <1>3, <1>6, <2>2, <2>3 DEF VotesFit
<1> QED BY <1>4, <1>5, <1>6

\* The organizer's own Go only ends the vote.
LEMMA OrganizerGoesFit ==
  ASSUME Inv, VotesFit(campaign), SettleMoveByOrganizer("go")
  PROVE  VotesFit(campaign')
<1>1. campaign \in CampaignStates /\ Stored.state = campaign BY TableVotes
<1>2. campaign' = Settle(campaign, "go") BY <1>1 DEF SettleMoveByOrganizer, Commit, Stored
<1>3. campaign'.misses = campaign.misses /\ campaign'.pendingMove = NoPendingMove
  BY <1>1, <1>2, SettleVote
<1> QED BY <1>3 DEF VotesFit, NoPendingMove

\* Every step is fair, but for a Go pressed by a player or by the organizer.
LEMMA StepFair ==
  ASSUME Inv, [Next]_vars
  PROVE  \/ Fair(campaign, campaign')
         \/ \E u \in Users : SupportMove(u)
         \/ SettleMoveByOrganizer("go")
<1> DEFINE Good == Fair(campaign, campaign')
<1>1. PICK hero \in Heroes : TRUE
  <2>1. PICK u \in Users : Seats[u] # NoHero BY SeatsAssumption
  <2>2. Seats[u] \in Heroes BY <2>1, SeatsAssumption
  <2> QED BY <2>2
<1>2. CASE UserStep
  <2>1. \A u \in Users, h \in Heroes :
          SubmitAction(u, h) \/ Pass(u, h) \/ RequestRoll(u, h) => Good
    BY RoundCommandsFair DEF SubmitAction, Pass
  <2>2. \A u \in Users, h \in Heroes : JoinHero(u, h) => Good
    <3>1. FALSE \in BOOLEAN OBVIOUS
    <3> QED BY <3>1, SeatCommandsFair
  <2>3. CloseRoundByOrganizer \/ RetryPlan => Good
    BY <1>1, UsersAssumption, RoundCommandsFair
  <2>4. /\ \A u \in Users, tooSoon \in BOOLEAN : MarkMemberAway(u, tooSoon) => Good
        /\ \A u \in Users : MarkMemberReturned(u) \/ Retire(u) => Good
    <3>1. FALSE \in BOOLEAN OBVIOUS
    <3> QED BY <1>1, <3>1, SeatCommandsFair
  <2>5. ASSUME NEW u \in Users, NEW tooSoon \in BOOLEAN, NEW fired \in BOOLEAN, NEW reason,
               NEW rest,
               \/ EndRest(tooSoon) \/ BeginPlay(tooSoon) \/ MarkReady(u, tooSoon)
               \/ Continue(u, tooSoon, fired) \/ Pause(reason)
               \/ QueueRest(rest) \/ TakeRest(rest) \/ CancelQueuedRest
        PROVE  Good
    BY <2>5, PacingCommandsFair
  <2>6. /\ \A u \in Users, scene \in Scenes : ProposeMoveByPlayer(u, scene) => Good
        /\ \A u \in Users :
             ObjectToMove(u) \/ WithdrawMoveSupport(u) \/ WithdrawObjection(u) => Good
    BY VotesFair
  <2>7. SettleMoveByOrganizer("stay") => Good BY UsersAssumption, VotesFair
  <2>8. Organizer \in Users /\ FALSE \in BOOLEAN BY UsersAssumption
  <2>9. \A u \in Users, tooSoon \in BOOLEAN, fired \in BOOLEAN :
          MarkReady(u, tooSoon) \/ Continue(u, tooSoon, fired) => Good
    BY <2>5
  <2>10. \A tooSoon \in BOOLEAN : EndRest(tooSoon) \/ BeginPlay(tooSoon) => Good
    BY <2>5, <2>8
  <2>11. \A reason : Pause(reason) => Good BY <2>5, <2>8
  <2>12. \A rest : QueueRest(rest) \/ TakeRest(rest) \/ CancelQueuedRest => Good
    BY <2>5, <2>8
  <2>13. \A outcome \in {"go", "stay"} :
           SettleMoveByOrganizer(outcome) => Good \/ SettleMoveByOrganizer("go")
    BY <2>7
  <2> HIDE DEF Good
  <2>14. \/ Good \/ \E u \in Users : SupportMove(u)
         \/ SettleMoveByOrganizer("go")
    BY <1>2, <2>1, <2>2, <2>3, <2>4, <2>6, <2>8, <2>9, <2>10, <2>11, <2>12, <2>13, ZenonT(60)
    DEF UserStep
  <2> QED BY <2>14 DEF Good
<1>3. CASE TimerStep \/ RollStep \/ DraftStep \/ AnswerStep
  BY <1>3, DiceAndPlanFair DEF TimerStep, RollStep, AnswerStep
<1>4. CASE NarrateStep \/ BeginAdventure \/ CrashAndRecover
  BY <1>4, NarrationFair DEF NarrateStep
<1>5. CASE UNCHANGED vars BY <1>5, TableVotes DEF vars
<1> QED BY <1>2, <1>3, <1>4, <1>5 DEF Next

\* Fewer who stay are outvoted too.
LEMMA FewerOutvoted ==
  ASSUME NEW c \in CampaignStates, NEW S, NEW R, R \subseteq S, Outvoted(S, c)
  PROVE  Outvoted(R, c)
<1> DEFINE some == R \cap Present(c)
           all == S \cap Present(c)
<1>1. IsFiniteSet(Present(c))
  <2>1. Present(c) \in SUBSET Users BY PresentTypes
  <2> QED BY <2>1, UsersAssumption, FS_Subset
<1>2. IsFiniteSet(all) /\ some \subseteq all BY <1>1, FS_Intersection
<1>3. IsFiniteSet(some) /\ Cardinality(some) <= Cardinality(all) BY <1>2, FS_Subset
<1>4. /\ Cardinality(some) \in Nat /\ Cardinality(all) \in Nat
      /\ Cardinality(Present(c)) \in Nat
  BY <1>1, <1>2, <1>3, FS_CardinalityType
<1>5. all = {} \/ Cardinality(all) * 2 < Cardinality(Present(c)) BY DEF Outvoted
<1> HIDE DEF some, all
<1>6. some = {} \/ Cardinality(some) * 2 < Cardinality(Present(c))
  BY <1>2, <1>3, <1>4, <1>5
<1> QED BY <1>6 DEF Outvoted, some

\* The table goes nowhere half of those present keep it from, whoever comes, leaves
\* or changes their mind meanwhile; only the organizer may overrule them.
THEOREM HalfTheTableStays == Spec => TableStaysWhenHalfSaySo
<1> DEFINE convinced == {u \in Users : SupportMove(u)}
           against == (campaign.pendingMove.objectors \ convinced) \cap Present(campaign')
           Kept == \/ campaign'.scene = campaign.scene
                   \/ campaign'.pendingMove = campaign.pendingMove
                   \/ SettleMoveByOrganizer("go") /\ convinced = {}
                   \/ against = {}
                   \/ Cardinality(against) * 2 < Cardinality(Present(campaign'))
<1>1. Init => VotesFit(campaign)
  <2>1. AwayAfterMisses \in Nat /\ 0 < AwayAfterMisses BY PacingAssumption
  <2> QED BY <2>1 DEF Init, StartingState, VotesFit, NoPendingMove
<1>2. ASSUME Inv, Inv', VotesFit(campaign), [Next]_vars
      PROVE  VotesFit(campaign') /\ Kept
  <2>1. campaign' \in CampaignStates BY <1>2 DEF Inv, TypeOK
  <2>2. CASE Fair(campaign, campaign')
    <3>1. \/ campaign'.scene = campaign.scene
          \/ campaign'.pendingMove = campaign.pendingMove
          \/ Outvoted(campaign.pendingMove.objectors, campaign')
      BY <1>2, <2>2 DEF Fair
    <3> HIDE DEF convinced
    <3>2. Outvoted(campaign.pendingMove.objectors, campaign') =>
            Outvoted(campaign.pendingMove.objectors \ convinced, campaign')
      BY <2>1, FewerOutvoted
    <3> QED BY <1>2, <2>2, <3>1, <3>2 DEF Fair, Outvoted
  <2>3. ASSUME NEW u \in convinced
        PROVE  VotesFit(campaign') /\ Kept
    <3>1. /\ VotesFit(campaign')
          /\ \/ campaign'.scene = campaign.scene
             \/ (campaign.pendingMove.objectors \ {u}) \cap Present(campaign') = {}
      BY <1>2, <2>3, SupportSettles
    <3> HIDE DEF convinced
    <3>2. against \subseteq (campaign.pendingMove.objectors \ {u}) \cap Present(campaign')
      BY <2>3
    <3> QED BY <3>1, <3>2
  <2>4. CASE SettleMoveByOrganizer("go") /\ convinced = {}
    BY <1>2, <2>4, OrganizerGoesFit
  <2>5. \/ Fair(campaign, campaign') \/ convinced # {} \/ SettleMoveByOrganizer("go")
    BY <1>2, StepFair
  <2> QED BY <2>2, <2>3, <2>4, <2>5
<1>3. VotesFit(campaign) /\ Inv /\ Inv' /\ [Next]_vars => VotesFit(campaign)'
  BY <1>2
<1>4. VotesFit(campaign) /\ Inv /\ Inv' /\ [Next]_vars =>
        [LET conv == {u \in Users : SupportMove(u)}
             ag == (campaign.pendingMove.objectors \ conv) \cap Present(campaign')
         IN \/ campaign'.scene = campaign.scene
            \/ campaign'.pendingMove = campaign.pendingMove
            \/ SettleMoveByOrganizer("go") /\ conv = {}
            \/ ag = {}
            \/ Cardinality(ag) * 2 < Cardinality(Present(campaign'))]_vars
  BY <1>2
<1> HIDE DEF Kept
<1>5. Spec => []VotesFit(campaign) BY <1>1, <1>3, Invariance, PTL DEF Spec
<1> QED BY <1>4, <1>5, Invariance, PTL DEF Spec, TableStaysWhenHalfSaySo

=============================================================================
